--------------------------- MODULE SandboxProofs ---------------------------
(***************************************************************************)
(* What the sandbox accepts is a file the ingress policy permits, and what *)
(* it refuses for its structure is not, for every document and every       *)
(* limit; and the terms it says match are those, and all of those, that    *)
(* come within the allowed share of edits of some stretch of the pages'    *)
(* letters, for every text, every term and every share.                    *)
(*                                                                         *)
(* The loops of the gate are recursive functions of the number of rounds.  *)
(* That such a function exists, and what holds after its last round, needs *)
(* induction over the naturals, which is proved here first from the        *)
(* library's theorem that strict inclusion of finite sets is well founded. *)
(***************************************************************************)
EXTENDS Sandbox, FiniteSetTheorems, SequenceTheorems, TLAPS

Verdicts == {"accepted"} \cup Refusals

\* A set with zero and with the successor of each of its numbers has every number.
LEMMA NumberInduction ==
  ASSUME NEW S, 0 \in S, \A n \in Nat : n \in S => n + 1 \in S
  PROVE  Nat \subseteq S
<1> DEFINE T == {1 .. n : n \in Nat \ S}
           R == StrictSubsetOrdering(Nat)
           F == FiniteSubsetsOf(Nat)
<1>1. SUFFICES ASSUME T # {} PROVE FALSE
  OBVIOUS
<1>2. IsWellFoundedOn(R, F)
  BY FS_StrictSubsetOrderingWellFounded
<1>3. T \subseteq F
  <2> SUFFICES ASSUME NEW n \in Nat \ S PROVE 1 .. n \in F
    OBVIOUS
  <2> QED BY FS_Interval DEF FiniteSubsetsOf
<1>4. PICK s \in T : \A y \in T : ~ (<<y, s>> \in R)
  <2> HIDE DEF T, R, F
  <2> QED BY <1>1, <1>2, <1>3, WFMin
<1>5. PICK m \in Nat \ S : s = 1 .. m
  OBVIOUS
<1>6. m # 0 /\ m - 1 \in Nat \ S
  OBVIOUS
<1>7. 1 .. (m - 1) \in T
  BY <1>6
<1>8. <<1 .. (m - 1), s>> \in R
  <2>1. m \in s /\ m \notin 1 .. (m - 1) /\ 1 .. (m - 1) \subseteq s /\ s \subseteq Nat
    BY <1>5, <1>6
  <2> QED BY <2>1, <1>5 DEF StrictSubsetOrdering
<1> QED BY <1>4, <1>7, <1>8

\* The same up to some number.
LEMMA RangeInduction ==
  ASSUME NEW S, NEW m \in Nat, 0 \in S, \A i \in 1 .. m : i - 1 \in S => i \in S
  PROVE  0 .. m \subseteq S
<1> DEFINE T == {n \in Nat : n \in 0 .. m => n \in S}
<1>1. 0 \in T
  OBVIOUS
<1>2. ASSUME NEW n \in Nat, n \in T PROVE n + 1 \in T
  <2>1. SUFFICES ASSUME n + 1 \in 0 .. m PROVE n + 1 \in S
    OBVIOUS
  <2>2. n + 1 \in 1 .. m /\ (n + 1) - 1 = n /\ n \in 0 .. m
    BY <2>1
  <2> QED BY <1>2, <2>2
<1>3. Nat \subseteq T
  <2> HIDE DEF T
  <2> QED BY <1>1, <1>2, NumberInduction
<1> QED BY <1>3

\* Min yields the least number of a set that has one.
LEMMA MinIsLeast ==
  ASSUME NEW S, S \subseteq Nat, S # {}
  PROVE  Min(S) \in S /\ \A x \in S : Min(S) <= x
<1> DEFINE C == {n \in Nat : \A m \in 0 .. n : m \notin S}
<1>1. PICK x \in S : \A y \in S : x <= y
  <2> SUFFICES ASSUME ~ \E x \in S : \A y \in S : x <= y PROVE FALSE
    OBVIOUS
  <2>1. 0 \in C
    OBVIOUS
  <2>2. ASSUME NEW n \in Nat, n \in C PROVE n + 1 \in C
    <3>1. ASSUME n + 1 \in S PROVE FALSE
      <4>1. PICK y \in S : ~ (n + 1 <= y)
        BY <3>1
      <4>2. y \in 0 .. n
        BY <4>1
      <4> QED BY <2>2, <4>2
    <3> QED BY <2>2, <3>1
  <2>3. Nat \subseteq C
    <3> HIDE DEF C
    <3> QED BY <2>1, <2>2, NumberInduction
  <2>4. PICK z : z \in S
    OBVIOUS
  <2>5. z \in Nat /\ z \in 0 .. z /\ z \in C
    BY <2>3, <2>4
  <2> QED BY <2>4, <2>5
<1>2. \E z \in S : \A y \in S : z =< y
  BY <1>1
<1> QED BY <1>2, Zenon DEF Min

\* The least of three numbers.
LEMMA LeastOfThree ==
  ASSUME NEW a \in Nat, NEW b \in Nat, NEW c \in Nat
  PROVE  LET l == Min({a, b, c}) IN
         l \in Nat /\ l <= a /\ l <= b /\ l <= c /\ (l = a \/ l = b \/ l = c)
<1> DEFINE l == Min({a, b, c})
<1>1. l \in {a, b, c} /\ \A x \in {a, b, c} : l <= x
  BY MinIsLeast
<1> HIDE DEF l
<1>2. l \in Nat /\ l <= a /\ l <= b /\ l <= c /\ (l = a \/ l = b \/ l = c)
  BY <1>1
<1> QED BY <1>2 DEF l

\* What may be done in each round, and in each state.
Rounds(A) == [Nat -> [A -> A]]

\* A recursive function of the naturals exists: its rounds are tables that agree.
LEMMA TableExists ==
  ASSUME NEW A, NEW base \in A, NEW F \in Rounds(A)
  PROVE  \E g \in [Nat -> A] : g[0] = base /\ \A n \in Nat \ {0} : g[n] = F[n][g[n - 1]]
<1>0. F \in [Nat -> [A -> A]]
  BY DEF Rounds
<1> DEFINE Is(t, n) == t \in [0 .. n -> A] /\ t[0] = base /\ \A k \in 1 .. n : t[k] = F[k][t[k - 1]]
           C == {n \in Nat : \E t : Is(t, n)}
<1>1. 0 \in C
  <2>1. Is([k \in 0 .. 0 |-> base], 0)
    OBVIOUS
  <2> QED BY <2>1
<1>2. ASSUME NEW n \in Nat, n \in C PROVE n + 1 \in C
  <2>1. PICK t : Is(t, n)
    BY <1>2
  <2> DEFINE h == [k \in 0 .. n + 1 |-> IF k = n + 1 THEN F[n + 1][t[n]] ELSE t[k]]
  <2>2. t[n] \in A /\ F[n + 1][t[n]] \in A
    BY <1>0, <2>1
  <2>3. h \in [0 .. n + 1 -> A] /\ h[0] = base
    BY <2>1, <2>2
  <2>4. ASSUME NEW k \in 1 .. n + 1 PROVE h[k] = F[k][h[k - 1]]
    <3>1. k - 1 \in 0 .. n /\ h[k - 1] = t[k - 1]
      OBVIOUS
    <3>2. CASE k = n + 1
      BY <3>1, <3>2
    <3>3. CASE k \in 1 .. n
      BY <2>1, <3>1, <3>3
    <3> QED BY <3>2, <3>3
  <2>5. Is(h, n + 1)
    BY <2>3, <2>4
  <2> HIDE DEF Is, h
  <2> QED BY <2>5
<1>3. Nat \subseteq C
  <2> HIDE DEF C
  <2> QED BY <1>1, <1>2, NumberInduction
<1>4. ASSUME NEW n \in Nat, NEW m \in Nat, NEW t, NEW u, Is(t, n), Is(u, m),
             NEW j \in Nat, j <= n, j <= m
      PROVE  t[j] = u[j]
  <2> DEFINE D == {k \in Nat : k <= n /\ k <= m => t[k] = u[k]}
  <2>1. 0 \in D
    BY <1>4
  <2>2. ASSUME NEW k \in Nat, k \in D PROVE k + 1 \in D
    <3>1. SUFFICES ASSUME k + 1 <= n, k + 1 <= m PROVE t[k + 1] = u[k + 1]
      OBVIOUS
    <3>2. t[k] = u[k] /\ k + 1 \in 1 .. n /\ k + 1 \in 1 .. m /\ (k + 1) - 1 = k
      BY <2>2, <3>1
    <3>3. t[k + 1] = F[k + 1][t[(k + 1) - 1]] /\ u[k + 1] = F[k + 1][u[(k + 1) - 1]]
      BY <1>4, <3>2, Zenon
    <3> QED BY <3>2, <3>3
  <2>3. Nat \subseteq D
    <3> HIDE DEF D
    <3> QED BY <2>1, <2>2, NumberInduction
  <2> QED BY <1>4, <2>3
<1> DEFINE T(n) == CHOOSE t : Is(t, n)
           g == [n \in Nat |-> T(n)[n]]
<1>5. ASSUME NEW n \in Nat PROVE Is(T(n), n)
  <2>1. \E t : Is(t, n)
    BY <1>3
  <2> HIDE DEF Is
  <2> QED BY <2>1, Zenon
<1> HIDE DEF T
<1>6. g \in [Nat -> A] /\ g[0] = base
  BY <1>5
<1>7. ASSUME NEW n \in Nat \ {0} PROVE g[n] = F[n][g[n - 1]]
  <2>1. n - 1 \in Nat /\ n - 1 <= n /\ n - 1 <= n - 1 /\ n \in 1 .. n
    OBVIOUS
  <2>2. T(n)[n - 1] = T(n - 1)[n - 1]
    <3> HIDE DEF Is
    <3> QED BY <1>4, <1>5, <2>1
  <2>3. T(n)[n] = F[n][T(n)[n - 1]]
    BY <1>5, <2>1
  <2> QED BY <2>1, <2>2, <2>3
<1> HIDE DEF g
<1> QED BY <1>6, <1>7

\* The table of the first N rounds.
IsTable(h, A, base, N, F) ==
  h \in [0 .. N -> A] /\ h = [n \in 0 .. N |-> IF n = 0 THEN base ELSE F[n][h[n - 1]]]

\* And so does one that goes on for some number of rounds.
LEMMA TableUpTo ==
  ASSUME NEW A, NEW base \in A, NEW N \in Nat, NEW F \in Rounds(A)
  PROVE  \E h : IsTable(h, A, base, N, F)
<1>1. PICK g \in [Nat -> A] : g[0] = base /\ \A n \in Nat \ {0} : g[n] = F[n][g[n - 1]]
  BY TableExists
<1> DEFINE h == [n \in 0 .. N |-> g[n]]
<1>2. h \in [0 .. N -> A]
  OBVIOUS
<1>3. ASSUME NEW n \in 0 .. N PROVE h[n] = IF n = 0 THEN base ELSE F[n][h[n - 1]]
  <2>1. CASE n = 0
    BY <1>1, <2>1
  <2>2. CASE n # 0
    <3>1. n \in Nat \ {0} /\ n - 1 \in 0 .. N
      BY <2>2
    <3>2. g[n] = F[n][g[n - 1]] /\ h[n - 1] = g[n - 1] /\ h[n] = g[n]
      BY <1>1, <3>1
    <3> HIDE DEF h
    <3> QED BY <2>2, <3>2
  <2> QED BY <2>1, <2>2
<1> HIDE DEF h
<1>4. h = [n \in 0 .. N |-> IF n = 0 THEN base ELSE F[n][h[n - 1]]]
  BY <1>2, <1>3
<1> QED BY <1>2, <1>4 DEF IsTable

----------------------------------------------------------------------------
(* PNG. *)

\* The loop over the chunks accepts exactly the files whose chunks are as they should be.
LEMMA PngExact ==
  ASSUME NEW f, f.chunks \in Seq(Chunk)
  PROVE  (PngStructure(f) = "accepted" <=> PngWellFormed(f)) /\ PngStructure(f) \in Verdicts
<1> DEFINE n == Len(f.chunks)
           decisive == {i \in DOMAIN f.chunks : PngChunk(f, i) # "none"}
<1>1. n \in Nat /\ DOMAIN f.chunks = 1 .. n /\ \A i \in 1 .. n : f.chunks[i] \in Chunk
  OBVIOUS
<1>2. MaxChunks \in Nat
  BY IngressAssumption
<1>3. decisive \subseteq Nat
  BY <1>1
<1>4. decisive # {} => Min(decisive) \in decisive /\ \A i \in decisive : Min(decisive) <= i
  <2> HIDE DEF decisive
  <2> QED BY <1>3, MinIsLeast
<1>5. ASSUME PngStructure(f) = "accepted" PROVE PngWellFormed(f)
  <2>1. decisive # {} /\ PngChunk(f, Min(decisive)) = "accepted"
    BY <1>5 DEF PngStructure
  <2>2. PICK k \in 1 .. n : PngChunk(f, k) = "accepted" /\ \A i \in 1 .. n : i < k => PngChunk(f, i) = "none"
    <3>1. \A i \in 1 .. n : PngChunk(f, i) = "none" \/ i \in decisive
      BY <1>1
    <3>2. Min(decisive) \in 1 .. n /\ \A i \in decisive : Min(decisive) <= i
      BY <1>1, <1>4, <2>1
    <3> HIDE DEF decisive
    <3>3. \A i \in 1 .. n : i < Min(decisive) => i \notin decisive
      BY <1>1, <3>2
    <3> QED BY <2>1, <3>1, <3>2, <3>3
  <2>3. k <= MaxChunks
    BY <1>1, <1>2, <2>2 DEF PngChunk
  <2>4. k = n /\ f.rest = 0 /\ k <= MaxChunks /\ f.chunks[k].type = "IEND" /\ f.chunks[k].length = 0
    BY <1>1, <1>2, <2>2, <2>3 DEF PngChunk
  <2>5. \A i \in 1 .. n : ~f.chunks[i].cut /\ f.chunks[i].crc
    BY <1>1, <2>2, <2>3, <2>4 DEF PngChunk
  <2>6. \A i \in 1 .. n : f.chunks[i].type = "IHDR" => DimensionsOK(f.chunks[i].width, f.chunks[i].height)
    BY <1>1, <2>2, <2>3, <2>4 DEF PngChunk
  <2>7. \A i \in 1 .. n - 1 : f.chunks[i].type # "IEND"
    BY <1>1, <2>2, <2>4 DEF PngChunk
  <2>8. f.chunks[1].type = "IHDR" /\ f.chunks[1].length = 13
    <3>1. PngChunk(f, 1) \in {"none", "accepted"}
      BY <2>2, <2>3
    <3> QED BY <3>1 DEF PngChunk
  <2> QED BY <1>1, <1>2, <2>2, <2>4, <2>5, <2>6, <2>7, <2>8 DEF PngWellFormed
<1>6. ASSUME PngWellFormed(f) PROVE PngStructure(f) = "accepted"
  <2>1. n \in 1 .. MaxChunks
    BY <1>6 DEF PngWellFormed
  <2>2. ASSUME NEW i \in 1 .. n - 1 PROVE PngChunk(f, i) = "none"
    BY <1>1, <1>2, <1>6, <2>1, <2>2 DEF PngWellFormed, PngChunk
  <2>3. PngChunk(f, n) = "accepted"
    BY <1>1, <1>2, <1>6, <2>1 DEF PngWellFormed, PngChunk
  <2>4. n \in decisive /\ \A i \in decisive : ~(i \in 1 .. n - 1)
    BY <1>1, <2>1, <2>2, <2>3
  <2>5. Min(decisive) = n
    BY <1>1, <1>4, <2>1, <2>4
  <2> QED BY <2>3, <2>4, <2>5 DEF PngStructure
<1>7. PngStructure(f) \in Verdicts
  <2>1. \A i \in DOMAIN f.chunks : PngChunk(f, i) \in Verdicts \cup {"none"}
    BY DEF PngChunk, Verdicts, Refusals
  <2>2. decisive # {} => PngChunk(f, Min(decisive)) \in Verdicts
    <3>1. \A i \in decisive : PngChunk(f, i) \in Verdicts
      BY <2>1
    <3> HIDE DEF decisive
    <3> QED BY <1>4, <3>1
  <2>3. "png_incomplete" \in Verdicts
    BY DEF Verdicts, Refusals
  <2> QED BY <2>2, <2>3 DEF PngStructure
<1> QED BY <1>5, <1>6, <1>7

----------------------------------------------------------------------------
(* JPEG: the rounds of the loop. *)

\* The recursive function of JpegWalk exists: its first n rounds extend to one more.
LEMMA JpegRounds ==
  ASSUME NEW d, Len(d) \in Nat
  PROVE  /\ JpegWalk(d)[0] = JpegStart
         /\ \A n \in 0 .. Len(d) - 1 : JpegWalk(d)[n + 1] = JpegRound(d, JpegWalk(d)[n])
<1> DEFINE Walks(g, n) == g = [k \in 0 .. n |-> IF k = 0 THEN JpegStart ELSE JpegRound(d, g[k - 1])]
           C == {n \in Nat : \E g : Walks(g, n)}
<1>1. 0 \in C
  <2>1. Walks([k \in 0 .. 0 |-> JpegStart], 0)
    OBVIOUS
  <2> QED BY <2>1
<1>2. ASSUME NEW n \in Nat, n \in C PROVE n + 1 \in C
  <2>1. PICK g : Walks(g, n)
    BY <1>2
  <2> DEFINE h == [k \in 0 .. n + 1 |-> IF k = 0 THEN JpegStart ELSE JpegRound(d, g[k - 1])]
  <2>2. ASSUME NEW k \in 0 .. n PROVE h[k] = g[k]
    <3>1. g[k] = [j \in 0 .. n |-> IF j = 0 THEN JpegStart ELSE JpegRound(d, g[j - 1])][k]
      BY <2>1
    <3> QED BY <3>1
  <2>3. ASSUME NEW k \in 0 .. n + 1, k # 0 PROVE h[k - 1] = g[k - 1]
    <3>1. k - 1 \in 0 .. n
      BY <2>3
    <3> HIDE DEF h
    <3> QED BY <2>2, <3>1
  <2>4. Walks(h, n + 1)
    BY <2>3
  <2>5. \E f : Walks(f, n + 1)
    <3> HIDE DEF Walks, h
    <3> QED BY <2>4
  <2> QED BY <2>5
<1>3. PICK g : Walks(g, Len(d))
  <2>1. Nat \subseteq C
    <3> HIDE DEF C
    <3> QED BY <1>1, <1>2, NumberInduction
  <2> QED BY <2>1
<1> DEFINE w == JpegWalk(d)
<1>4. w = [k \in 0 .. Len(d) |-> IF k = 0 THEN JpegStart ELSE JpegRound(d, w[k - 1])]
  <2>1. \E after : after = [n \in 0 .. Len(d) |-> IF n = 0 THEN JpegStart ELSE JpegRound(d, after[n - 1])]
    BY <1>3
  <2> QED BY <2>1, Zenon DEF JpegWalk
<1> HIDE DEF w
<1>5. w[0] = JpegStart
  BY <1>4
<1>6. ASSUME NEW n \in 0 .. Len(d) - 1 PROVE w[n + 1] = JpegRound(d, w[n])
  <2>1. n + 1 \in 0 .. Len(d) /\ n + 1 # 0 /\ (n + 1) - 1 = n
    OBVIOUS
  <2>2. w[n + 1] = [k \in 0 .. Len(d) |-> IF k = 0 THEN JpegStart ELSE JpegRound(d, w[k - 1])][n + 1]
    BY <1>4
  <2> QED BY <2>1, <2>2
<1> QED BY <1>5, <1>6 DEF w

----------------------------------------------------------------------------
(* JPEG: where the loop is. *)

IsBytes(d) == d \in Seq(0 .. 255) /\ Len(d) >= 3

\* The end marker, and the file, end here.
EndAt(d, p) == MarkerAt(d, p, Len(d) + 1) /\ d[Len(d)] = EOI

\* The header of a scan begins at c, and its data reaches pos.
ScanOpen(d, c, pos) ==
  \E m \in c + 2 .. Len(d) - 1 :
    /\ MarkerAt(d, c, m) /\ d[m - 1] = SOS
    /\ LET end == m + d[m] * 256 + d[m + 1] IN
       m + 2 <= end /\ end <= pos /\ EntropyCoded(d, end, pos)

\* S are the cuts behind c: division into units goes on from c, and nowhere else.
Behind(d, S, c) ==
  /\ S \subseteq JpegCuts(d) /\ 3 \in S \cup {c}
  /\ \A p \in S, q \in 1 .. Len(d) : UnitAt(d, p, q) => q \in S \cup {c}
  /\ \A p \in S : ~EndAt(d, p)

\* No division into units goes on from c.
Stuck(d, c) == ~EndAt(d, c) /\ \A q \in 1 .. Len(d) : ~UnitAt(d, c, q)

\* The loop is at c: in the data of the scan that begins there, or at its marker.
LoopAt(d, s, c) ==
  /\ s.pos \in 3 .. Len(d) + 1
  /\ c \in JpegCuts(d) \cup {Len(d) + 1}
  /\ \E S : Behind(d, S, c)
  /\ IF s.scan THEN ScanOpen(d, c, s.pos) ELSE s.pos = c

\* What a JPEG is made of.
LEMMA BytesType ==
  ASSUME NEW d, IsBytes(d)
  PROVE  Len(d) \in Nat /\ Len(d) >= 3 /\ \A i \in 1 .. Len(d) : d[i] \in 0 .. 255 /\ d[i] \in Nat
<1> DEFINE B == 0 .. 255
<1>1. d \in Seq(B) /\ Len(d) >= 3
  BY DEF IsBytes
<1> HIDE DEF B
<1>2. \A i \in 1 .. Len(d) : d[i] \in B
  BY <1>1
<1>3. \A b \in B : b \in 0 .. 255 /\ b \in Nat
  BY DEF B
<1> QED BY <1>1, <1>2, <1>3

\* The cuts are closed under units, and the least such set.
LEMMA CutsAreLeast ==
  ASSUME NEW d, IsBytes(d)
  PROVE  /\ 3 \in JpegCuts(d) /\ JpegCuts(d) \subseteq 1 .. Len(d)
         /\ \A p \in JpegCuts(d), q \in 1 .. Len(d) : UnitAt(d, p, q) => q \in JpegCuts(d)
         /\ \A S \in SUBSET JpegCuts(d) :
              (3 \in S /\ \A p \in S, q \in 1 .. Len(d) : UnitAt(d, p, q) => q \in S) => JpegCuts(d) \subseteq S
<1> DEFINE units == {u \in (1 .. Len(d)) \X (1 .. Len(d)) : UnitAt(d, u[1], u[2])}
           ends == {3} \cup {u[2] : u \in units}
           Closed(S) == 3 \in S /\ \A u \in units : u[1] \in S => u[2] \in S
<1>1. JpegCuts(d) = {p \in ends : \A S \in SUBSET ends : Closed(S) => p \in S}
  BY DEF JpegCuts
<1>2. ends \subseteq 1 .. Len(d)
  BY BytesType
<1>3. \A p \in 1 .. Len(d), q \in 1 .. Len(d) : UnitAt(d, p, q) => <<p, q>> \in units /\ q \in ends
  OBVIOUS
<1>4. \A u \in units : u[1] \in 1 .. Len(d) /\ u[2] \in 1 .. Len(d) /\ UnitAt(d, u[1], u[2]) /\ u[2] \in ends
  OBVIOUS
<1>5. 3 \in ends
  OBVIOUS
<1> HIDE DEF units, ends
<1>6. 3 \in JpegCuts(d) /\ JpegCuts(d) \subseteq 1 .. Len(d)
  BY <1>1, <1>2, <1>5
<1>7. ASSUME NEW p \in JpegCuts(d), NEW q \in 1 .. Len(d), UnitAt(d, p, q) PROVE q \in JpegCuts(d)
  <2>1. <<p, q>> \in units /\ q \in ends
    BY <1>3, <1>6, <1>7
  <2>2. ASSUME NEW S \in SUBSET ends, Closed(S) PROVE q \in S
    <3>1. p \in S
      BY <1>1, <2>2
    <3> QED BY <2>1, <2>2, <3>1
  <2> QED BY <1>1, <2>1, <2>2
<1>8. ASSUME NEW S \in SUBSET JpegCuts(d), 3 \in S,
             \A p \in S, q \in 1 .. Len(d) : UnitAt(d, p, q) => q \in S
      PROVE  JpegCuts(d) \subseteq S
  <2>1. Closed(S)
    BY <1>4, <1>8
  <2>2. S \in SUBSET ends
    BY <1>1
  <2> QED BY <1>1, <2>1, <2>2
<1> QED BY <1>6, <1>7, <1>8

\* Fill bytes and the first other byte after them are a marker, and the only one there.
LEMMA MarkerFound ==
  ASSUME NEW d, IsBytes(d), NEW at \in 1 .. Len(d), d[at] = Fill,
         {i \in at .. Len(d) : d[i] # Fill} # {}
  PROVE  LET m == Min({i \in at .. Len(d) : d[i] # Fill}) + 1
         IN m \in at + 2 .. Len(d) + 1 /\ MarkerAt(d, at, m)
<1> DEFINE codes == {i \in at .. Len(d) : d[i] # Fill}
<1>1. codes \subseteq Nat /\ codes # {}
  BY BytesType
<1>2. Min(codes) \in codes /\ \A i \in codes : Min(codes) <= i
  <2> HIDE DEF codes
  <2> QED BY <1>1, MinIsLeast
<1>3. \A i \in at .. Len(d) : i < Min(codes) => d[i] = Fill
  <2> SUFFICES ASSUME NEW i \in at .. Len(d), i \in codes PROVE ~(i < Min(codes))
    OBVIOUS
  <2>1. Min(codes) \in Nat /\ Min(codes) <= i
    BY <1>1, <1>2
  <2> HIDE DEF codes
  <2> QED BY <2>1
<1>4. PICK k : k = Min(codes)
  OBVIOUS
<1>5. k \in at + 1 .. Len(d) /\ d[k] # Fill /\ \A i \in at .. Len(d) : i < k => d[i] = Fill
  BY <1>2, <1>3, <1>4, BytesType
<1>6. k + 1 \in at + 2 .. Len(d) + 1 /\ MarkerAt(d, at, k + 1)
  <2> HIDE DEF codes
  <2> QED BY <1>5, BytesType DEF MarkerAt
<1> QED BY <1>4, <1>6

\* From one byte, one marker.
LEMMA OneMarker ==
  ASSUME NEW d, NEW p \in Nat, NEW m \in Nat, NEW n \in Nat, MarkerAt(d, p, m), MarkerAt(d, p, n)
  PROVE  m = n
BY DEF MarkerAt

\* What continues a scan is no fill byte.
LEMMA NoFill ==
  ASSUME NEW code, code = 0 \/ code \in RST
  PROVE  code # Fill
BY DEF RST, Fill

\* Where a marker that does not belong to a scan begins, its data cannot go on.
LEMMA ScanEndsOnce ==
  ASSUME NEW d, IsBytes(d), NEW end \in Nat, NEW q \in Nat, NEW r \in Nat, end <= q, q < r, q <= Len(d),
         NEW c \in Nat, MarkerAt(d, q, c + 1), ~ContinuesScan(d[c]), d[q] = Fill
  PROVE  ~EntropyCoded(d, end, r)
<1> SUFFICES ASSUME EntropyCoded(d, end, r) PROVE FALSE
  OBVIOUS
<1>1. PICK j \in q + 1 .. r - 1 : (\A k \in q .. j - 1 : d[k] = Fill) /\ (d[j] = 0 \/ d[j] \in RST)
  <2>1. q \in end .. r - 1
    OBVIOUS
  <2> QED BY <2>1, Zenon DEF EntropyCoded
<1>2. c \in Nat /\ q + 1 < c + 1 /\ d[c] # Fill /\ \A i \in q .. c - 1 : d[i] = Fill
  BY DEF MarkerAt
<1>3. d[j] # Fill
  BY <1>1, NoFill, Zenon
<1>4. j = c
  <2>1. j \in Nat /\ q < j
    BY <1>1
  <2>2. ~(j < c)
    <3>1. ASSUME j < c PROVE j \in q .. c - 1
      BY <1>2, <2>1, <3>1
    <3> QED BY <1>2, <1>3, <3>1
  <2>3. ~(c < j)
    <3>1. ASSUME c < j PROVE c \in q .. j - 1
      BY <1>2, <2>1, <3>1
    <3> QED BY <1>1, <1>2, <3>1
  <2> QED BY <1>2, <2>1, <2>2, <2>3
<1> QED BY <1>1, <1>4 DEF ContinuesScan

\* What a unit is, said of the marker it begins with.
LEMMA UnitOf ==
  ASSUME NEW d, IsBytes(d), NEW c \in 1 .. Len(d), NEW m \in c + 2 .. Len(d) + 1, MarkerAt(d, c, m),
         NEW q \in 1 .. Len(d), UnitAt(d, c, q)
  PROVE  /\ m <= q /\ d[m - 1] \notin {0, SOI, EOI} \cup RST
         /\ d[m - 1] = TEM => q = m
         /\ d[m - 1] # TEM =>
              /\ m + 1 <= Len(d)
              /\ LET end == m + d[m] * 256 + d[m + 1] IN
                 /\ m + 2 <= end /\ end <= q
                 /\ d[m - 1] # SOS => q = end
                 /\ d[m - 1] = SOS => /\ EntropyCoded(d, end, q) /\ d[q] = Fill
                                      /\ \E k \in q + 1 .. Len(d) :
                                           MarkerAt(d, q, k + 1) /\ ~ContinuesScan(d[k])
<1>1. PICK n \in c + 2 .. q :
        /\ MarkerAt(d, c, n)
        /\ d[n - 1] \notin {0, SOI, EOI} \cup RST
        /\ \/ d[n - 1] = TEM /\ q = n
           \/ /\ d[n - 1] # TEM /\ n + 1 < Len(d) + 1
              /\ LET end == n + d[n] * 256 + d[n + 1] IN
                 /\ n + 2 <= end /\ end <= q
                 /\ IF d[n - 1] = SOS
                    THEN /\ EntropyCoded(d, end, q)
                         /\ q <= Len(d) /\ d[q] = Fill
                         /\ \E k \in q + 1 .. Len(d) : MarkerAt(d, q, k + 1) /\ ~(d[k] = 0 \/ d[k] \in RST)
                    ELSE q = end
  BY DEF UnitAt
<1>2. n = m
  BY <1>1, OneMarker, BytesType
<1> QED BY <1>1, <1>2, BytesType DEF ContinuesScan

\* And conversely.
LEMMA UnitFound ==
  ASSUME NEW d, IsBytes(d), NEW c \in 1 .. Len(d), NEW m \in c + 2 .. Len(d) + 1, MarkerAt(d, c, m),
         d[m - 1] \notin {0, SOI, EOI} \cup RST, NEW q \in m .. Len(d),
         \/ d[m - 1] = TEM /\ q = m
         \/ /\ d[m - 1] # TEM /\ m + 1 <= Len(d)
            /\ LET end == m + d[m] * 256 + d[m + 1] IN
               /\ m + 2 <= end /\ end <= q
               /\ d[m - 1] # SOS => q = end
               /\ d[m - 1] = SOS => /\ EntropyCoded(d, end, q) /\ d[q] = Fill
                                    /\ \E k \in q + 1 .. Len(d) : MarkerAt(d, q, k + 1) /\ ~ContinuesScan(d[k])
  PROVE  UnitAt(d, c, q)
<1>1. m \in c + 2 .. q
  BY BytesType
<1>2. ASSUME d[m - 1] = TEM, q = m PROVE UnitAt(d, c, q)
  BY <1>1, <1>2, Zenon DEF UnitAt
<1>3. ASSUME d[m - 1] # TEM, m + 1 <= Len(d) PROVE UnitAt(d, c, q)
  <2> DEFINE end == m + d[m] * 256 + d[m + 1]
  <2>1. m + 1 < Len(d) + 1
    BY <1>3, BytesType
  <2>2. /\ m + 2 <= end /\ end <= q
        /\ d[m - 1] # SOS => q = end
        /\ d[m - 1] = SOS => /\ EntropyCoded(d, end, q) /\ d[q] = Fill
                             /\ \E k \in q + 1 .. Len(d) : MarkerAt(d, q, k + 1) /\ ~ContinuesScan(d[k])
    BY <1>3, Zenon
  <2>3. q <= Len(d)
    BY BytesType
  <2>4. \A k \in q + 1 .. Len(d) : ~ContinuesScan(d[k]) => ~(d[k] = 0 \/ d[k] \in RST)
    BY Zenon DEF ContinuesScan
  <2>5. IF d[m - 1] = SOS
        THEN /\ EntropyCoded(d, end, q)
             /\ q <= Len(d) /\ d[q] = Fill
             /\ \E k \in q + 1 .. Len(d) : MarkerAt(d, q, k + 1) /\ ~(d[k] = 0 \/ d[k] \in RST)
        ELSE q = end
    <3> HIDE DEF end
    <3> QED BY <2>2, <2>3, <2>4, Zenon
  <2>6. m + 2 <= end /\ end <= q
    BY <2>2, Zenon
  <2> QED BY <1>1, <1>3, <2>1, <2>5, <2>6, Zenon DEF UnitAt
<1> QED BY <1>2, <1>3, Zenon

\* Where no division can go on, there is none.
LEMMA StuckRefuses ==
  ASSUME NEW d, IsBytes(d), NEW S, NEW c, Behind(d, S, c), Stuck(d, c)
  PROVE  ~JpegWellFormed(d)
<1> DEFINE T == (S \cup {c}) \cap JpegCuts(d)
<1>1. 3 \in T
  BY CutsAreLeast DEF Behind
<1>2. ASSUME NEW p \in T, NEW q \in 1 .. Len(d), UnitAt(d, p, q) PROVE q \in T
  BY <1>2, CutsAreLeast DEF Behind, Stuck
<1>3. JpegCuts(d) \subseteq T
  <2>1. T \in SUBSET JpegCuts(d)
    OBVIOUS
  <2> HIDE DEF T
  <2> QED BY <1>1, <1>2, <2>1, CutsAreLeast
<1>4. \A p \in JpegCuts(d) : ~EndAt(d, p)
  BY <1>3 DEF Behind, Stuck
<1> QED BY <1>4 DEF JpegWellFormed, EndAt

\* From c the division goes on at e and nowhere else.
LEMMA MovesOn ==
  ASSUME NEW d, NEW S, NEW c \in JpegCuts(d), NEW e, Behind(d, S, c), ~EndAt(d, c),
         \A q \in 1 .. Len(d) : UnitAt(d, c, q) => q = e
  PROVE  Behind(d, S \cup {c}, e)
BY DEF Behind

\* A scan is no end of the file.
LEMMA ScanIsNoEnd ==
  ASSUME NEW d, IsBytes(d), NEW c \in 1 .. Len(d), NEW m \in c + 2 .. Len(d) + 1, MarkerAt(d, c, m),
         d[m - 1] # EOI
  PROVE  ~EndAt(d, c)
<1> SUFFICES ASSUME EndAt(d, c) PROVE FALSE
  OBVIOUS
<1>1. m = Len(d) + 1
  BY OneMarker, BytesType DEF EndAt
<1> QED BY <1>1, BytesType DEF EndAt

\* The scan at c, said of the marker and the length it begins with.
LEMMA ScanOf ==
  ASSUME NEW d, IsBytes(d), NEW c \in JpegCuts(d) \cup {Len(d) + 1}, NEW pos \in Nat, ScanOpen(d, c, pos)
  PROVE  /\ c \in JpegCuts(d) /\ c \in 1 .. Len(d) /\ ~EndAt(d, c)
         /\ \E m \in c + 2 .. Len(d) - 1, end \in Nat :
              /\ MarkerAt(d, c, m) /\ d[m - 1] = SOS /\ end = m + d[m] * 256 + d[m + 1]
              /\ m + 2 <= end /\ end <= pos /\ EntropyCoded(d, end, pos)
<1>1. PICK m \in c + 2 .. Len(d) - 1 :
        /\ MarkerAt(d, c, m) /\ d[m - 1] = SOS
        /\ LET end == m + d[m] * 256 + d[m + 1] IN
           m + 2 <= end /\ end <= pos /\ EntropyCoded(d, end, pos)
  BY DEF ScanOpen
<1>2. c \in JpegCuts(d) /\ c \in 1 .. Len(d)
  BY <1>1, CutsAreLeast, BytesType
<1>3. m \in 1 .. Len(d) /\ m + 1 \in 1 .. Len(d) /\ m \in c + 2 .. Len(d) + 1
  BY <1>2, BytesType
<1>4. m + d[m] * 256 + d[m + 1] \in Nat
  <2>1. d[m] \in Nat /\ d[m + 1] \in Nat /\ m \in Nat
    BY <1>3, BytesType
  <2> QED BY <2>1
<1>5. ~EndAt(d, c)
  BY <1>1, <1>2, <1>3, ScanIsNoEnd DEF SOS, EOI
<1> QED BY <1>1, <1>2, <1>4, <1>5

\* The units of an open scan end at markers it has not reached.
LEMMA ScanUnits ==
  ASSUME NEW d, IsBytes(d), NEW c \in JpegCuts(d) \cup {Len(d) + 1}, NEW pos \in Nat, ScanOpen(d, c, pos),
         NEW q \in 1 .. Len(d), UnitAt(d, c, q)
  PROVE  /\ pos <= q /\ d[q] = Fill
         /\ \E k \in q + 1 .. Len(d) : MarkerAt(d, q, k + 1) /\ ~ContinuesScan(d[k])
         /\ \A end \in Nat, m \in c + 2 .. Len(d) - 1 :
              MarkerAt(d, c, m) /\ end = m + d[m] * 256 + d[m + 1] => EntropyCoded(d, end, q)
<1>1. PICK m \in c + 2 .. Len(d) - 1, end \in Nat :
        /\ MarkerAt(d, c, m) /\ d[m - 1] = SOS /\ end = m + d[m] * 256 + d[m + 1]
        /\ m + 2 <= end /\ end <= pos /\ EntropyCoded(d, end, pos)
  BY ScanOf
<1>2. c \in 1 .. Len(d) /\ m \in c + 2 .. Len(d) + 1
  BY ScanOf, BytesType
<1>3. d[m - 1] # TEM
  BY <1>1 DEF SOS, TEM
<1>4. end <= q /\ EntropyCoded(d, end, q) /\ d[q] = Fill
  BY <1>1, <1>2, <1>3, UnitOf
<1>5. PICK k \in q + 1 .. Len(d) : MarkerAt(d, q, k + 1) /\ ~ContinuesScan(d[k])
  BY <1>1, <1>2, <1>3, UnitOf
<1>6. pos <= q
  <2>1. k \in Nat /\ q \in Nat /\ q <= Len(d)
    BY BytesType
  <2>2. ~(q < pos)
    BY <1>1, <1>4, <1>5, <2>1, ScanEndsOnce
  <2> QED BY <2>1, <2>2
<1>7. ASSUME NEW e \in Nat, NEW n \in c + 2 .. Len(d) - 1, MarkerAt(d, c, n), e = n + d[n] * 256 + d[n + 1]
      PROVE  EntropyCoded(d, e, q)
  <2>1. n = m
    BY <1>1, <1>2, <1>7, OneMarker, BytesType
  <2> QED BY <1>1, <1>4, <1>7, <2>1
<1> QED BY <1>4, <1>5, <1>6, <1>7

\* Bytes without a fill byte go on with the data of a scan.
LEMMA ScanSkips ==
  ASSUME NEW d, NEW end \in Nat, NEW p \in Nat, NEW q \in Nat, end <= p, p <= q, EntropyCoded(d, end, p),
         \A i \in p .. q - 1 : d[i] # Fill
  PROVE  EntropyCoded(d, end, q)
<1> SUFFICES ASSUME NEW i \in end .. q - 1, d[i] = Fill
             PROVE  \E j \in i + 1 .. q - 1 : /\ \A k \in i .. j - 1 : d[k] = Fill
                                              /\ d[j] = 0 \/ d[j] \in RST
  BY DEF EntropyCoded
<1>1. i \in end .. p - 1
  OBVIOUS
<1>2. PICK j \in i + 1 .. p - 1 : (\A k \in i .. j - 1 : d[k] = Fill) /\ (d[j] = 0 \/ d[j] \in RST)
  BY <1>1 DEF EntropyCoded
<1>3. j \in i + 1 .. q - 1
  OBVIOUS
<1> QED BY <1>2, <1>3

\* So do fill bytes with the code that ends them, when it continues a scan.
LEMMA ScanStuffed ==
  ASSUME NEW d, NEW end \in Nat, NEW p \in Nat, NEW m \in Nat, end <= p, EntropyCoded(d, end, p),
         MarkerAt(d, p, m), ContinuesScan(d[m - 1])
  PROVE  EntropyCoded(d, end, m)
<1> SUFFICES ASSUME NEW i \in end .. m - 1, d[i] = Fill
             PROVE  \E j \in i + 1 .. m - 1 : /\ \A k \in i .. j - 1 : d[k] = Fill
                                              /\ d[j] = 0 \/ d[j] \in RST
  BY DEF EntropyCoded
<1>1. CASE i < p
  <2>1. PICK j \in i + 1 .. p - 1 : (\A k \in i .. j - 1 : d[k] = Fill) /\ (d[j] = 0 \/ d[j] \in RST)
    BY <1>1 DEF EntropyCoded
  <2>2. j \in i + 1 .. m - 1
    BY DEF MarkerAt
  <2> QED BY <2>1, <2>2
<1>2. CASE i >= p
  <2>1. m - 1 \in i + 1 .. m - 1 /\ \A k \in i .. (m - 1) - 1 : d[k] = Fill
    BY <1>2 DEF MarkerAt
  <2> QED BY <2>1 DEF ContinuesScan
<1> QED BY <1>1, <1>2

----------------------------------------------------------------------------
(* JPEG: one round. *)

JpegRefusals == {"jpeg_incomplete", "jpeg_marker", "jpeg_trailing_data", "jpeg_unexpected_marker",
                 "jpeg_segment_bounds"}

JpegState == [pos : Nat, scan : BOOLEAN, verdict : {"none", "accepted"} \cup JpegRefusals]

\* The verdict of the loop is right, or it has none and has moved on.
JpegRight(d, s, before) ==
  \/ s.verdict = "none" /\ before < s.pos /\ \E c : LoopAt(d, s, c)
  \/ s.verdict = "accepted" /\ JpegWellFormed(d)
  \/ s.verdict \notin {"none", "accepted"} /\ ~JpegWellFormed(d)

\* A refusal is right when the file is not well formed.
LEMMA RefusesRightly ==
  ASSUME NEW d, IsBytes(d), NEW S, NEW c, Behind(d, S, c), Stuck(d, c), NEW s \in JpegState, NEW pos,
         NEW v \in JpegRefusals, NEW t, t = [s EXCEPT !.verdict = v]
  PROVE  t \in JpegState /\ JpegRight(d, t, pos)
<1>1. ~JpegWellFormed(d)
  BY StuckRefuses
<1>2. t \in JpegState /\ t.verdict = v
  BY DEF JpegState
<1>3. v \notin {"none", "accepted"}
  BY DEF JpegRefusals
<1> QED BY <1>1, <1>2, <1>3 DEF JpegRight

\* The bytes of a length.
LEMMA TwoBytes ==
  ASSUME NEW d, IsBytes(d), NEW c \in 1 .. Len(d), NEW m \in c + 2 .. Len(d) + 1, m + 1 <= Len(d)
  PROVE  d[m] \in Nat /\ d[m + 1] \in Nat /\ m \in Nat
<1>1. m \in 1 .. Len(d) /\ m + 1 \in 1 .. Len(d)
  BY BytesType
<1> QED BY <1>1, BytesType

\* Reassociation, kept apart from the facts about bytes.
LEMMA SumOfLength ==
  ASSUME NEW m \in Nat, NEW high \in Nat, NEW low \in Nat
  PROVE  m + (high * 256 + low) = m + high * 256 + low
OBVIOUS

\* A round that reads the marker m of the unit at c.
LEMMA MarkerRound ==
  ASSUME NEW d, IsBytes(d), NEW c \in JpegCuts(d), NEW S, Behind(d, S, c), NEW pos \in Nat, pos <= c,
         NEW s \in JpegState, NEW t,
         NEW m \in c + 2 .. Len(d) + 1, MarkerAt(d, c, m),
         t = JpegMarked(d, s, m),
         s.verdict = "none"
  PROVE  t \in JpegState /\ JpegRight(d, t, pos)
<1>1. c \in 1 .. Len(d) /\ Len(d) \in Nat /\ Len(d) >= 3 /\ d[m - 1] \in 0 .. 255
  <2>1. c \in 1 .. Len(d) /\ m - 1 \in 1 .. Len(d)
    BY CutsAreLeast, BytesType
  <2> QED BY <2>1, BytesType
<1>2. CASE d[m - 1] = EOI /\ m = Len(d) + 1
  <2>1. JpegWellFormed(d)
    BY <1>2 DEF JpegWellFormed
  <2>2. t = [s EXCEPT !.verdict = "accepted"]
    BY <1>2 DEF JpegMarked
  <2>3. t \in JpegState /\ t.verdict = "accepted"
    BY <2>2 DEF JpegState, JpegRefusals
  <2> QED BY <2>1, <2>3 DEF JpegRight
<1>3. CASE d[m - 1] = EOI /\ m # Len(d) + 1
  <2>1. Stuck(d, c)
    <3>1. ~EndAt(d, c)
      BY <1>1, <1>3, OneMarker DEF EndAt
    <3> QED BY <1>1, <1>3, <3>1, UnitOf DEF Stuck
  <2>2. t = [s EXCEPT !.verdict = "jpeg_trailing_data"]
    BY <1>3 DEF JpegMarked
  <2> QED BY <2>1, <2>2, RefusesRightly DEF JpegRefusals
<1>4. CASE d[m - 1] \in {0, SOI} \cup RST
  <2>1. d[m - 1] # EOI
    BY <1>4 DEF SOI, EOI, RST
  <2>2. Stuck(d, c)
    BY <1>1, <1>4, <2>1, ScanIsNoEnd, UnitOf DEF Stuck
  <2>3. t = [s EXCEPT !.verdict = "jpeg_unexpected_marker"]
    BY <1>4, <2>1 DEF JpegMarked
  <2> QED BY <2>2, <2>3, RefusesRightly DEF JpegRefusals
<1>5. CASE d[m - 1] = TEM
  <2>1. d[m - 1] # EOI /\ d[m - 1] \notin {0, SOI} \cup RST
    BY <1>5 DEF TEM, SOI, EOI, RST
  <2>2. t = [s EXCEPT !.pos = m, !.scan = FALSE]
    BY <1>5, <2>1 DEF JpegMarked
  <2>3. ~EndAt(d, c)
    BY <1>1, <2>1, ScanIsNoEnd
  <2>4. \A q \in 1 .. Len(d) : UnitAt(d, c, q) => q = m
    BY <1>1, <1>5, UnitOf
  <2>5. Behind(d, S \cup {c}, m)
    BY <2>3, <2>4, MovesOn
  <2>6. m \in JpegCuts(d) \cup {Len(d) + 1}
    <3>1. m <= Len(d) => UnitAt(d, c, m)
      BY <1>1, <1>5, <2>1, UnitFound
    <3> QED BY <1>1, <3>1, CutsAreLeast
  <2>7. m \in Nat /\ pos < m /\ m >= 3 /\ m <= Len(d) + 1
    BY <1>1
  <2>8. t \in JpegState /\ t.pos = m /\ t.scan = FALSE /\ t.verdict = "none"
    BY <2>2, <2>7 DEF JpegState
  <2>9. LoopAt(d, t, m)
    BY <1>1, <2>5, <2>6, <2>7, <2>8 DEF LoopAt
  <2> QED BY <2>7, <2>8, <2>9 DEF JpegRight
<1>6. CASE /\ d[m - 1] # EOI /\ d[m - 1] \notin {0, SOI} \cup RST /\ d[m - 1] # TEM
           /\ m + 1 > Len(d)
  <2>1. Stuck(d, c)
    BY <1>1, <1>6, ScanIsNoEnd, UnitOf DEF Stuck
  <2>2. t = [s EXCEPT !.verdict = "jpeg_incomplete"]
    BY <1>6 DEF JpegMarked
  <2> QED BY <2>1, <2>2, RefusesRightly DEF JpegRefusals
<1>7. CASE /\ d[m - 1] # EOI /\ d[m - 1] \notin {0, SOI} \cup RST /\ d[m - 1] # TEM
           /\ m + 1 <= Len(d)
  <2>1. PICK length \in Nat : length = d[m] * 256 + d[m + 1]
    <3>1. d[m] \in Nat /\ d[m + 1] \in Nat
      BY <1>1, <1>7, TwoBytes
    <3> QED BY <3>1
  <2> DEFINE end == m + length
  <2>2. end \in Nat /\ end = m + d[m] * 256 + d[m + 1] /\ m \in Nat
    <3>1. d[m] \in Nat /\ d[m + 1] \in Nat /\ m \in Nat
      BY <1>1, <1>7, TwoBytes
    <3>2. m + length \in Nat
      BY <3>1
    <3>3. m + length = m + d[m] * 256 + d[m + 1]
      <4>1. m + (d[m] * 256 + d[m + 1]) = m + d[m] * 256 + d[m + 1]
        BY <3>1, SumOfLength
      <4> QED BY <2>1, <4>1, Zenon
    <3> QED BY <3>1, <3>2, <3>3, Zenon
  <2>3. ~EndAt(d, c)
    BY <1>1, <1>7, ScanIsNoEnd
  <2>4. \A q \in 1 .. Len(d) : UnitAt(d, c, q) => m + 2 <= end /\ end <= q /\ (d[m - 1] # SOS => q = end)
    BY <1>1, <1>7, <2>2, UnitOf
  <2>5. CASE length < 2 \/ end > Len(d) + 1
    <3>1. Stuck(d, c)
      BY <1>1, <2>2, <2>3, <2>4, <2>5 DEF Stuck
    <3>2. t = [s EXCEPT !.verdict = "jpeg_segment_bounds"]
      <4>1. ~(m + 1 > Len(d)) /\ d[m - 1] \notin {0, SOI} \cup RST
        BY <1>1, <1>7
      <4>2. d[m] * 256 + d[m + 1] < 2 \/ m + (d[m] * 256 + d[m + 1]) > Len(d) + 1
        BY <2>1, <2>5, Zenon
      <4> QED BY <1>7, <4>1, <4>2, Zenon DEF JpegMarked
    <3> QED BY <3>1, <3>2, RefusesRightly DEF JpegRefusals
  <2>6. CASE length >= 2 /\ end <= Len(d) + 1
    <3>1. t = [s EXCEPT !.pos = end, !.scan = (d[m - 1] = SOS)]
      <4>1. ~(m + 1 > Len(d)) /\ d[m - 1] \notin {0, SOI} \cup RST
        BY <1>1, <1>7
      <4>2. ~(length < 2 \/ m + length > Len(d) + 1)
        BY <1>1, <2>1, <2>2, <2>6
      <4> QED BY <1>7, <2>1, <4>1, <4>2, Zenon DEF JpegMarked
    <3>2. t \in JpegState /\ t.pos = end /\ t.scan = (d[m - 1] = SOS) /\ t.verdict = "none"
      BY <2>2, <3>1 DEF JpegState
    <3>3. end \in 3 .. Len(d) + 1 /\ pos < end /\ m + 2 <= end
      BY <1>1, <2>2, <2>6
    <3> HIDE DEF end
    <3>4. CASE d[m - 1] = SOS
      <4>1. EntropyCoded(d, end, end)
        BY <2>2 DEF EntropyCoded
      <4>2. m \in c + 2 .. Len(d) - 1
        BY <1>1, <1>7
      <4>3. ScanOpen(d, c, end)
        BY <2>2, <3>3, <3>4, <4>1, <4>2 DEF ScanOpen
      <4>4. LoopAt(d, t, c)
        BY <3>2, <3>3, <3>4, <4>3 DEF LoopAt
      <4> QED BY <3>2, <3>3, <4>4 DEF JpegRight
    <3>5. CASE d[m - 1] # SOS
      <4>1. Behind(d, S \cup {c}, end)
        BY <2>3, <2>4, <3>5, MovesOn
      <4>2. end <= Len(d) => end \in m .. Len(d) /\ end \in 1 .. Len(d)
        BY <1>1, <2>2, <3>3
      <4>3. end <= Len(d) => UnitAt(d, c, end)
        BY <1>1, <1>7, <2>2, <3>3, <3>5, <4>2, UnitFound
      <4>4. end \in JpegCuts(d) \cup {Len(d) + 1}
        BY <1>1, <3>3, <4>2, <4>3, CutsAreLeast
      <4>5. LoopAt(d, t, end)
        BY <3>2, <3>3, <3>5, <4>1, <4>4 DEF LoopAt
      <4> QED BY <3>2, <3>3, <4>5 DEF JpegRight
    <3> QED BY <3>4, <3>5
  <2> QED BY <1>1, <2>2, <2>5, <2>6
<1> QED BY <1>1, <1>2, <1>3, <1>4, <1>5, <1>6, <1>7

\* The rounds that read no marker, since nothing is left that could begin one.
LEMMA RoundEnds ==
  ASSUME NEW d, IsBytes(d), NEW s \in JpegState, s.verdict = "none",
         s.pos > Len(d) \/ (s.scan /\ {i \in s.pos .. Len(d) : d[i] = Fill} = {})
  PROVE  JpegRound(d, s) = [s EXCEPT !.verdict = "jpeg_incomplete"]
BY DEF JpegRound

\* A round outside of a scan.
LEMMA UnitRound ==
  ASSUME NEW d, IsBytes(d), NEW s \in JpegState, s.verdict = "none", ~s.scan, NEW c, LoopAt(d, s, c)
  PROVE  JpegRound(d, s) \in JpegState /\ JpegRight(d, JpegRound(d, s), s.pos)
<1>1. s.pos \in Nat /\ s.pos \in 3 .. Len(d) + 1 /\ c = s.pos /\ Len(d) \in Nat
  BY BytesType DEF LoopAt, JpegState
<1>2. PICK S : Behind(d, S, c)
  BY DEF LoopAt
<1> DEFINE codes == {i \in s.pos .. Len(d) : d[i] # Fill}
<1>3. CASE s.pos > Len(d)
  <2>1. Stuck(d, c)
    BY <1>1, <1>3 DEF Stuck, EndAt, UnitAt, MarkerAt
  <2>2. JpegRound(d, s) = [s EXCEPT !.verdict = "jpeg_incomplete"]
    BY <1>3, RoundEnds
  <2> QED BY <1>2, <2>1, <2>2, RefusesRightly DEF JpegRefusals
<1>4. CASE s.pos <= Len(d)
  <2>1. s.pos \in 1 .. Len(d) /\ c \in JpegCuts(d)
    BY <1>1, <1>4 DEF LoopAt
  <2>2. JpegRound(d, s) =
          IF d[s.pos] # Fill THEN [s EXCEPT !.verdict = "jpeg_marker"]
          ELSE IF codes = {} THEN [s EXCEPT !.verdict = "jpeg_incomplete"]
          ELSE JpegMarked(d, s, Min(codes) + 1)
    <3>1. ~(s.pos > Len(d))
      BY <1>1, <1>4
    <3> QED BY <3>1, Zenon DEF JpegRound
  <2>3. CASE d[s.pos] # Fill \/ codes = {}
    <3>1. \A m \in Nat : ~MarkerAt(d, c, m)
      BY <1>1, <2>3 DEF MarkerAt
    <3>2. Stuck(d, c)
      BY <1>1, <2>1, <3>1 DEF Stuck, EndAt, UnitAt
    <3>3. PICK v \in {"jpeg_marker", "jpeg_incomplete"} : JpegRound(d, s) = [s EXCEPT !.verdict = v]
      <4> HIDE DEF codes
      <4> QED BY <2>2, <2>3
    <3>4. v \in JpegRefusals
      BY <3>3 DEF JpegRefusals
    <3> QED BY <1>2, <3>2, <3>3, <3>4, RefusesRightly
  <2>4. CASE d[s.pos] = Fill /\ codes # {}
    <3>1. PICK m \in c + 2 .. Len(d) + 1 : m = Min(codes) + 1 /\ MarkerAt(d, c, m)
      BY <1>1, <2>1, <2>4, MarkerFound
    <3>2. JpegRound(d, s) = JpegMarked(d, s, m)
      <4> HIDE DEF codes
      <4> QED BY <2>2, <2>4, <3>1
    <3>3. s.pos <= c
      BY <1>1
    <3> QED BY <1>1, <1>2, <2>1, <3>1, <3>2, <3>3, MarkerRound
  <2> QED BY <2>3, <2>4
<1> QED BY <1>1, <1>3, <1>4

\* A round in the data of a scan.
LEMMA ScanRound ==
  ASSUME NEW d, IsBytes(d), NEW s \in JpegState, s.verdict = "none", s.scan, NEW c, LoopAt(d, s, c)
  PROVE  JpegRound(d, s) \in JpegState /\ JpegRight(d, JpegRound(d, s), s.pos)
<1>1. s.pos \in Nat /\ s.pos \in 3 .. Len(d) + 1 /\ Len(d) \in Nat /\ s.scan = TRUE
  BY BytesType DEF LoopAt, JpegState
<1>2. PICK S : Behind(d, S, c)
  BY DEF LoopAt
<1>3. c \in JpegCuts(d) \cup {Len(d) + 1} /\ ScanOpen(d, c, s.pos)
  BY DEF LoopAt
<1>4. c \in JpegCuts(d) /\ c \in 1 .. Len(d) /\ ~EndAt(d, c)
  BY <1>1, <1>3, ScanOf
<1>5. PICK h \in c + 2 .. Len(d) - 1, end \in Nat :
        /\ MarkerAt(d, c, h) /\ d[h - 1] = SOS /\ end = h + d[h] * 256 + d[h + 1]
        /\ h + 2 <= end /\ end <= s.pos /\ EntropyCoded(d, end, s.pos)
  BY <1>1, <1>3, ScanOf
<1> DEFINE fills == {i \in s.pos .. Len(d) : d[i] = Fill}
<1>6. CASE fills = {}
  <2>1. Stuck(d, c)
    <3> SUFFICES ASSUME NEW q \in 1 .. Len(d), UnitAt(d, c, q) PROVE FALSE
      BY <1>4 DEF Stuck
    <3> QED BY <1>1, <1>3, <1>6, ScanUnits
  <2>2. JpegRound(d, s) = [s EXCEPT !.verdict = "jpeg_incomplete"]
    BY <1>6, RoundEnds
  <2> QED BY <1>2, <2>1, <2>2, RefusesRightly DEF JpegRefusals
<1>7. CASE fills # {}
  <2>1. Min(fills) \in fills /\ \A i \in fills : Min(fills) <= i
    <3>1. fills \subseteq Nat
      BY <1>1
    <3> HIDE DEF fills
    <3> QED BY <1>7, <3>1, MinIsLeast
  <2>2. PICK at \in s.pos .. Len(d) : at = Min(fills) /\ d[at] = Fill /\ \A i \in s.pos .. at - 1 : d[i] # Fill
    <3>1. Min(fills) \in s.pos .. Len(d) /\ d[Min(fills)] = Fill
      BY <2>1
    <3>2. ASSUME NEW i \in s.pos .. Min(fills) - 1, d[i] = Fill PROVE FALSE
      <4>1. i \in fills
        BY <1>1, <3>1, <3>2
      <4>2. Min(fills) <= i /\ Min(fills) \in Int /\ i \in Int /\ i <= Min(fills) - 1
        BY <1>1, <2>1, <3>1, <4>1
      <4> QED BY <4>2
    <3> QED BY <3>1, <3>2
  <2> DEFINE codes == {i \in at .. Len(d) : d[i] # Fill}
  <2>3. at \in 1 .. Len(d) /\ s.pos <= Len(d) /\ at \in Nat /\ s.pos <= at
    BY <1>1, <2>2
  <2>4. JpegRound(d, s) =
          IF codes = {} THEN [s EXCEPT !.verdict = "jpeg_incomplete"]
          ELSE IF ContinuesScan(d[Min(codes)]) THEN [s EXCEPT !.pos = Min(codes) + 1]
          ELSE JpegMarked(d, s, Min(codes) + 1)
    <3>1. ~(s.pos > Len(d)) /\ d[at] = Fill /\ at = Min(fills)
      BY <1>1, <2>2, <2>3
    <3> QED BY <1>7, <3>1, Zenon DEF JpegRound
  <2>5. CASE codes = {}
    <3>1. Stuck(d, c)
      <4> SUFFICES ASSUME NEW q \in 1 .. Len(d), UnitAt(d, c, q) PROVE FALSE
        BY <1>4 DEF Stuck
      <4>1. s.pos <= q /\ d[q] = Fill /\ \E k \in q + 1 .. Len(d) : MarkerAt(d, q, k + 1)
        BY <1>1, <1>3, ScanUnits
      <4>2. at <= q
        <5>1. ASSUME q < at PROVE FALSE
          <6>1. q \in s.pos .. at - 1
            BY <1>1, <2>3, <4>1, <5>1
          <6> QED BY <2>2, <4>1, <6>1
        <5> QED BY <2>3, <5>1
      <4>3. PICK k \in q + 1 .. Len(d) : d[k] # Fill
        BY <1>1, <4>1 DEF MarkerAt
      <4>4. k \in codes
        BY <1>1, <2>3, <4>2, <4>3
      <4> QED BY <2>5, <4>4
    <3>2. JpegRound(d, s) = [s EXCEPT !.verdict = "jpeg_incomplete"]
      BY <2>4, <2>5, Zenon
    <3> QED BY <1>2, <3>1, <3>2, RefusesRightly DEF JpegRefusals
  <2>6. CASE codes # {}
    <3>1. PICK m \in at + 2 .. Len(d) + 1 : m = Min(codes) + 1 /\ MarkerAt(d, at, m)
      BY <2>2, <2>3, <2>6, MarkerFound
    <3>2. PICK k \in at + 1 .. Len(d) : k = Min(codes) /\ m = k + 1 /\ MarkerAt(d, at, k + 1)
      <4>1. Min(codes) \in codes
        <5>1. codes \subseteq Nat
          BY <2>3
        <5> HIDE DEF codes
        <5> QED BY <2>6, <5>1, MinIsLeast
      <4>2. Min(codes) \in Nat
        BY <2>3, <4>1
      <4> HIDE DEF codes
      <4> QED BY <1>1, <2>3, <3>1, <4>2
    <3>3. EntropyCoded(d, end, at)
      BY <1>1, <1>5, <2>2, <2>3, ScanSkips
    <3>4. CASE ContinuesScan(d[k])
      <4>1. EntropyCoded(d, end, m)
        <5>1. at \in Nat /\ m \in Nat /\ end <= at
          <6> HIDE DEF fills, codes
          <6> QED BY <1>1, <1>5, <2>3
        <5>2. MarkerAt(d, at, m) /\ m - 1 = k
          <6> HIDE DEF fills, codes
          <6> QED BY <3>1, <3>2
        <5>3. ContinuesScan(d[m - 1])
          BY <3>4, <5>2, Zenon
        <5> HIDE DEF fills, codes
        <5> QED BY <3>3, <5>1, <5>2, <5>3, ScanStuffed, Zenon
      <4>2. m \in 3 .. Len(d) + 1 /\ s.pos < m /\ end <= m
        <5>1. m \in Int /\ at + 2 <= m /\ m <= Len(d) + 1
          BY <1>1, <2>3, <3>1
        <5>2. end <= s.pos
          BY <1>5
        <5> QED BY <1>1, <2>3, <5>1, <5>2
      <4>3. ScanOpen(d, c, m)
        BY <1>5, <4>1, <4>2 DEF ScanOpen
      <4>4. JpegRound(d, s) = [s EXCEPT !.pos = m]
        <5> HIDE DEF codes
        <5> QED BY <2>4, <2>6, <3>1, <3>2, <3>4
      <4>5. /\ JpegRound(d, s) \in JpegState /\ JpegRound(d, s).verdict = "none"
            /\ JpegRound(d, s).pos = m /\ JpegRound(d, s).scan = TRUE
        BY <1>1, <4>2, <4>4 DEF JpegState
      <4>6. LoopAt(d, JpegRound(d, s), c)
        BY <1>2, <1>3, <4>2, <4>3, <4>5 DEF LoopAt
      <4> QED BY <4>2, <4>5, <4>6 DEF JpegRight
    <3>5. CASE ~ContinuesScan(d[k])
      <4>1. UnitAt(d, c, at)
        <5>1. d[h - 1] \notin {0, SOI, EOI} \cup RST /\ d[h - 1] # TEM
          BY <1>5 DEF SOS, SOI, EOI, RST, TEM
        <5>2. h \in c + 2 .. Len(d) + 1 /\ at \in h .. Len(d) /\ h + 1 <= Len(d) /\ end <= at
          <6>1. h + 2 <= end /\ end <= s.pos /\ h \in c + 2 .. Len(d) - 1 /\ c \in 1 .. Len(d)
            BY <1>4, <1>5
          <6>2. at \in 1 .. Len(d) /\ s.pos <= at /\ s.pos \in Nat /\ Len(d) \in Nat /\ end \in Nat
            BY <1>1, <2>3
          <6> HIDE DEF fills, codes
          <6> QED BY <6>1, <6>2
        <5>3. /\ EntropyCoded(d, end, at) /\ d[at] = Fill
              /\ \E j \in at + 1 .. Len(d) : MarkerAt(d, at, j + 1) /\ ~ContinuesScan(d[j])
          BY <2>2, <3>2, <3>3, <3>5
        <5> QED BY <1>4, <1>5, <5>1, <5>2, <5>3, UnitFound
      <4>2. at \in JpegCuts(d)
        BY <1>4, <2>3, <4>1, CutsAreLeast
      <4>3. \A q \in 1 .. Len(d) : UnitAt(d, c, q) => q = at
        <5> SUFFICES ASSUME NEW q \in 1 .. Len(d), UnitAt(d, c, q) PROVE q = at
          OBVIOUS
        <5>1. s.pos <= q /\ d[q] = Fill /\ q \in Nat
          BY <1>1, <1>3, ScanUnits
        <5>2. EntropyCoded(d, end, q)
          <6>1. \A e \in Nat, n \in c + 2 .. Len(d) - 1 :
                  MarkerAt(d, c, n) /\ e = n + d[n] * 256 + d[n + 1] => EntropyCoded(d, e, q)
            BY <1>1, <1>3, ScanUnits
          <6> QED BY <1>5, <6>1
        <5>3. at <= q
          <6>1. ASSUME q < at PROVE FALSE
            <7>1. q \in s.pos .. at - 1
              BY <1>1, <2>3, <5>1, <6>1
            <7> QED BY <2>2, <5>1, <7>1
          <6> QED BY <2>3, <5>1, <6>1
        <5>4. ~(at < q)
          <6>1. end <= at /\ k \in Nat /\ at <= Len(d)
            <7>1. end <= s.pos
              BY <1>5
            <7>2. k \in Nat
              BY <2>3
            <7>3. at \in Nat /\ s.pos \in Nat /\ s.pos <= at /\ at <= Len(d)
              BY <1>1, <2>3
            <7> HIDE DEF fills, codes
            <7> QED BY <7>1, <7>2, <7>3
          <6> QED BY <2>2, <2>3, <3>2, <3>5, <5>1, <5>2, <6>1, ScanEndsOnce
        <5> QED BY <2>3, <5>1, <5>3, <5>4
      <4>4. Behind(d, S \cup {c}, at)
        BY <1>2, <1>4, <4>3, MovesOn
      <4>5. JpegRound(d, s) = JpegMarked(d, s, m)
        <5> HIDE DEF codes
        <5> QED BY <2>4, <2>6, <3>1, <3>2, <3>5
      <4> QED BY <1>1, <2>3, <3>1, <4>2, <4>4, <4>5, MarkerRound
    <3> QED BY <3>4, <3>5
  <2> QED BY <2>5, <2>6
<1> QED BY <1>6, <1>7

\* The walk accepts exactly the files that are a sequence of units to their last byte.
LEMMA JpegExact ==
  ASSUME NEW d, IsBytes(d)
  PROVE  (JpegStructure(d) = "accepted" <=> JpegWellFormed(d)) /\ JpegStructure(d) \in Verdicts
<1> DEFINE w == JpegWalk(d)
           R == {n \in Nat : n <= Len(d) => w[n] \in JpegState /\ JpegRight(d, w[n], n + 2)}
<1>1. Len(d) \in Nat /\ Len(d) >= 3
  BY BytesType
<1>2. w[0] = JpegStart /\ \A n \in 0 .. Len(d) - 1 : w[n + 1] = JpegRound(d, w[n])
  BY <1>1, JpegRounds
<1> HIDE DEF w
<1>3. 0 \in R
  <2>1. w[0] \in JpegState /\ w[0].pos = 3 /\ w[0].scan = FALSE /\ w[0].verdict = "none"
    BY <1>2 DEF JpegStart, JpegState
  <2>2. 3 \in JpegCuts(d)
    BY CutsAreLeast
  <2>3. Behind(d, {}, 3)
    BY DEF Behind
  <2>4. LoopAt(d, w[0], 3)
    BY <1>1, <2>1, <2>2, <2>3 DEF LoopAt
  <2> QED BY <2>1, <2>4 DEF JpegRight
<1>4. ASSUME NEW n \in Nat, n \in R PROVE n + 1 \in R
  <2> SUFFICES ASSUME n + 1 <= Len(d) PROVE w[n + 1] \in JpegState /\ JpegRight(d, w[n + 1], n + 3)
    OBVIOUS
  <2>1. w[n] \in JpegState /\ JpegRight(d, w[n], n + 2) /\ w[n + 1] = JpegRound(d, w[n])
    BY <1>1, <1>2, <1>4
  <2>2. CASE w[n].verdict = "none"
    <3>1. PICK c : LoopAt(d, w[n], c) /\ n + 2 < w[n].pos
      BY <2>1, <2>2 DEF JpegRight
    <3>2. w[n + 1] \in JpegState /\ JpegRight(d, w[n + 1], w[n].pos)
      BY <2>1, <2>2, <3>1, UnitRound, ScanRound
    <3>3. w[n].pos \in Nat /\ w[n + 1].pos \in Nat
      BY <2>1, <3>2 DEF JpegState
    <3> QED BY <3>1, <3>2, <3>3 DEF JpegRight
  <2>3. CASE w[n].verdict # "none"
    <3>1. w[n + 1] = w[n]
      BY <2>1, <2>3 DEF JpegRound
    <3> QED BY <2>1, <2>3, <3>1 DEF JpegRight
  <2> QED BY <2>2, <2>3
<1>5. w[Len(d)] \in JpegState /\ JpegRight(d, w[Len(d)], Len(d) + 2)
  <2>1. Nat \subseteq R
    <3> HIDE DEF R
    <3> QED BY <1>3, <1>4, NumberInduction
  <2> QED BY <1>1, <2>1
<1>6. w[Len(d)].verdict # "none"
  <2>1. \A c : LoopAt(d, w[Len(d)], c) => w[Len(d)].pos <= Len(d) + 1
    BY <1>1 DEF LoopAt
  <2>2. w[Len(d)].pos \in Nat
    BY <1>5 DEF JpegState
  <2> QED BY <1>1, <1>5, <2>1, <2>2 DEF JpegRight
<1>7. w[Len(d)].verdict \in Verdicts
  BY <1>5, <1>6 DEF JpegState, JpegRefusals, Verdicts, Refusals
<1> QED BY <1>5, <1>6, <1>7 DEF JpegStructure, JpegRight, w

----------------------------------------------------------------------------
(* PDF: pairs of an object and one of the numbers up to its size. *)

Pairs(size, S) == UNION {{o} \X (1 .. size[o]) : o \in S}

\* Finitely many objects have finitely many pairs.
LEMMA PairsFinite ==
  ASSUME NEW T, NEW size \in [T -> Nat], NEW S \in SUBSET T, IsFiniteSet(S)
  PROVE  IsFiniteSet(Pairs(size, S)) /\ Cardinality(Pairs(size, S)) \in Nat
<1> DEFINE row == [o \in S |-> {o} \X (1 .. size[o])]
           rows == {{o} \X (1 .. size[o]) : o \in S}
<1>1. IsFiniteSet(rows)
  <2>1. row \in Surjection(S, rows)
    BY DEF Surjection
  <2> HIDE DEF row, rows
  <2> QED BY <2>1, FS_Surjection
<1>2. ASSUME NEW r \in rows PROVE IsFiniteSet(r)
  <2>1. PICK o \in S : r = {o} \X (1 .. size[o])
    BY <1>2
  <2>2. IsFiniteSet({o}) /\ IsFiniteSet(1 .. size[o])
    <3>1. 1 \in Int /\ size[o] \in Int
      OBVIOUS
    <3> QED BY <3>1, FS_Singleton, FS_Interval
  <2> QED BY <2>1, <2>2, FS_Product
<1>3. IsFiniteSet(UNION rows)
  <2> HIDE DEF rows
  <2> QED BY <1>1, <1>2, FS_UNION
<1> QED BY <1>3, FS_CardinalityType DEF Pairs

\* One more object has as many more pairs as its size.
LEMMA PairsAdd ==
  ASSUME NEW T, NEW size \in [T -> Nat], NEW S \in SUBSET T, IsFiniteSet(S), NEW o \in T \ S
  PROVE  Cardinality(Pairs(size, S \cup {o})) = Cardinality(Pairs(size, S)) + size[o]
<1> DEFINE row == {o} \X (1 .. size[o])
<1>1. Pairs(size, S \cup {o}) = Pairs(size, S) \cup row
  BY DEF Pairs
<1>2. Pairs(size, S) \cap row = {}
  BY DEF Pairs
<1>3. IsFiniteSet(row) /\ Cardinality(row) = size[o]
  <2>1. IsFiniteSet({o}) /\ Cardinality({o}) = 1
    BY FS_Singleton
  <2>2. IsFiniteSet(1 .. size[o]) /\ Cardinality(1 .. size[o]) = size[o] /\ size[o] \in Nat
    BY FS_Interval
  <2>3. IsFiniteSet(row) /\ Cardinality(row) = Cardinality({o}) * Cardinality(1 .. size[o])
    BY <2>1, <2>2, FS_Product
  <2> QED BY <2>1, <2>2, <2>3
<1>4. IsFiniteSet(Pairs(size, S)) /\ Cardinality(Pairs(size, S)) \in Nat
  BY PairsFinite
<1> HIDE DEF row
<1>5. Cardinality(Pairs(size, S) \cup row) = Cardinality(Pairs(size, S)) + Cardinality(row) - Cardinality({})
  BY <1>2, <1>3, <1>4, FS_Union
<1>6. Cardinality({}) = 0 /\ size[o] \in Nat
  BY FS_EmptySet
<1>7. Cardinality(Pairs(size, S) \cup row) = Cardinality(Pairs(size, S)) + size[o]
  BY <1>3, <1>4, <1>5, <1>6
<1> QED BY <1>1, <1>7

\* Fewer objects have no more pairs.
LEMMA PairsMonotone ==
  ASSUME NEW T, NEW size \in [T -> Nat], NEW S \in SUBSET T, IsFiniteSet(S), NEW U \in SUBSET S
  PROVE  Cardinality(Pairs(size, U)) <= Cardinality(Pairs(size, S))
<1>1. Pairs(size, U) \subseteq Pairs(size, S)
  BY DEF Pairs
<1>2. IsFiniteSet(Pairs(size, S))
  BY PairsFinite
<1> QED BY <1>1, <1>2, FS_Subset

----------------------------------------------------------------------------
(* PDF: the steps of the walk. *)

PdfRounds(f) == Len(PdfStart(f)) + Cardinality(References(f)) + 1

PdfFirst(f) == [stack |-> PdfStart(f), seen |-> {}, expanded |-> 0, verdict |-> "none"]

\* As for the rounds of a JPEG.
LEMMA PdfSteps ==
  ASSUME NEW f, PdfRounds(f) \in Nat
  PROVE  /\ PdfWalk(f)[0] = PdfFirst(f)
         /\ \A n \in 0 .. PdfRounds(f) - 1 : PdfWalk(f)[n + 1] = PdfStep(f, PdfWalk(f)[n])
<1> DEFINE Walks(g, n) == g = [k \in 0 .. n |-> IF k = 0 THEN PdfFirst(f) ELSE PdfStep(f, g[k - 1])]
           C == {n \in Nat : \E g : Walks(g, n)}
<1>1. 0 \in C
  <2>1. Walks([k \in 0 .. 0 |-> PdfFirst(f)], 0)
    OBVIOUS
  <2> QED BY <2>1
<1>2. ASSUME NEW n \in Nat, n \in C PROVE n + 1 \in C
  <2>1. PICK g : Walks(g, n)
    BY <1>2
  <2> DEFINE h == [k \in 0 .. n + 1 |-> IF k = 0 THEN PdfFirst(f) ELSE PdfStep(f, g[k - 1])]
  <2>2. ASSUME NEW k \in 0 .. n PROVE h[k] = g[k]
    <3>1. g[k] = [j \in 0 .. n |-> IF j = 0 THEN PdfFirst(f) ELSE PdfStep(f, g[j - 1])][k]
      BY <2>1
    <3> QED BY <3>1
  <2>3. ASSUME NEW k \in 0 .. n + 1, k # 0 PROVE h[k - 1] = g[k - 1]
    <3>1. k - 1 \in 0 .. n
      BY <2>3
    <3> HIDE DEF h
    <3> QED BY <2>2, <3>1
  <2>4. Walks(h, n + 1)
    BY <2>3
  <2>5. \E w : Walks(w, n + 1)
    <3> HIDE DEF Walks, h
    <3> QED BY <2>4
  <2> QED BY <2>5
<1>3. PICK g : Walks(g, PdfRounds(f))
  <2>1. Nat \subseteq C
    <3> HIDE DEF C
    <3> QED BY <1>1, <1>2, NumberInduction
  <2> QED BY <2>1
<1> DEFINE w == PdfWalk(f)
<1>4. w = [k \in 0 .. PdfRounds(f) |-> IF k = 0 THEN PdfFirst(f) ELSE PdfStep(f, w[k - 1])]
  <2>1. \E after : after = [n \in 0 .. PdfRounds(f) |-> IF n = 0 THEN PdfFirst(f) ELSE PdfStep(f, after[n - 1])]
    BY <1>3
  <2> QED BY <2>1, Zenon DEF PdfWalk, PdfRounds, PdfFirst
<1> HIDE DEF w
<1>5. w[0] = PdfFirst(f)
  BY <1>4
<1>6. ASSUME NEW n \in 0 .. PdfRounds(f) - 1 PROVE w[n + 1] = PdfStep(f, w[n])
  <2>1. n + 1 \in 0 .. PdfRounds(f) /\ n + 1 # 0 /\ (n + 1) - 1 = n
    OBVIOUS
  <2>2. w[n + 1] = [k \in 0 .. PdfRounds(f) |-> IF k = 0 THEN PdfFirst(f) ELSE PdfStep(f, w[k - 1])][n + 1]
    BY <1>4
  <2> QED BY <2>1, <2>2
<1> QED BY <1>5, <1>6 DEF w

----------------------------------------------------------------------------
(* PDF: where the walk is. *)

Ids(f) == DOMAIN f.objects
Refs(f, o) == Range(f.objects[o].refs)
Roots(f) == {f.trailer} \cup f.xref

Sizes(f) == [o \in Ids(f) |-> f.objects[o].size]
Counts(f) == [o \in Ids(f) |-> Len(f.objects[o].refs)]

Entry(f) == [id : Ids(f), depth : Nat]

\* A chain of values, each held by the one before, through those in seen, none of them
\* twice, leads to what entry e of the stack stands for, and is as long as its depth.
PathTo(f, e, seen) ==
  \E p \in Seq(Ids(f)) :
    /\ Len(p) >= 1 /\ p[1] \in Roots(f) /\ p[Len(p)] = e.id
    /\ \A i \in 1 .. Len(p) - 1 : p[i] \in seen /\ p[i + 1] \in Refs(f, p[i])
    /\ \A i, j \in 1 .. Len(p) - 1 : p[i] = p[j] => i = j
    /\ e.depth <= Len(p) - 1

PdfRefusals == {"pdf_depth_limit", "pdf_object_limit", "pdf_active_content", "image_dimension_limit",
                "pdf_expansion_limit", "xml_dtd_forbidden", "parser_rejected"}

\* What may be wrong with a value.
Flaws == {"none", "unreadable", "pdf_active_content", "image_dimension_limit", "undecodable",
          "xml_dtd_forbidden", "malformed"}

PdfState(f) ==
  [stack : Seq(Entry(f)), seen : SUBSET Ids(f), expanded : Nat,
   verdict : {"none", "accepted"} \cup PdfRefusals]

\* Values that are on the stack or seen are all that can be reached, and are reached;
\* those seen are harmless; and there are steps left for the rest.
Walking(f, s, n) ==
  /\ Roots(f) \subseteq s.seen \cup {e.id : e \in Range(s.stack)}
  /\ \A o \in s.seen : Refs(f, o) \subseteq s.seen \cup {e.id : e \in Range(s.stack)}
  /\ s.seen \subseteq PdfObjects(f) /\ \A e \in Range(s.stack) : e.id \in PdfObjects(f)
  /\ \A o \in s.seen : f.objects[o].flaw = "none"
  /\ s.expanded = Cardinality(Pairs(Sizes(f), s.seen)) /\ s.expanded <= MaxExpanded
  /\ \A e \in Range(s.stack) : PathTo(f, e, s.seen)
  /\ Len(s.stack) + Cardinality(Pairs(Counts(f), Ids(f) \ s.seen)) + n < PdfRounds(f)

PdfClean(f) ==
  /\ \A o \in PdfObjects(f) : f.objects[o].flaw = "none"
  /\ Cardinality(ExpandedBytes(f, PdfObjects(f))) <= MaxExpanded

PdfBounded(f) == PdfShallow(f) /\ Cardinality(PdfObjects(f)) <= MaxObjects

\* The verdict of the walk is right, or it has none yet.
PdfRight(f, s, n) ==
  \/ s.verdict = "none" /\ Walking(f, s, n)
  \/ s.verdict = "accepted" /\ PdfClean(f)
  \/ s.verdict \in PdfRefusals /\ ~(PdfClean(f) /\ PdfBounded(f))

\* What the graph of a PDF is made of.
LEMMA GraphType ==
  ASSUME NEW f, IsGraph(f)
  PROVE  /\ IsFiniteSet(Ids(f)) /\ Roots(f) \subseteq Ids(f)
         /\ \A o \in Ids(f) : /\ f.objects[o].refs \in Seq(Ids(f)) /\ Refs(f, o) \subseteq Ids(f)
                              /\ f.objects[o].size \in Nat
                              /\ f.objects[o].flaw \in Flaws
         /\ Sizes(f) \in [Ids(f) -> Nat] /\ Counts(f) \in [Ids(f) -> Nat]
<1> DEFINE ids == DOMAIN f.objects
<1>1. IsFiniteSet(ids) /\ f.objects \in [ids -> Object(ids)] /\ f.trailer \in ids /\ f.xref \in SUBSET ids
  BY DEF IsGraph
<1> HIDE DEF ids
<1>2. \A o \in ids : f.objects[o].refs \in Seq(ids) /\ f.objects[o].size \in Nat
  BY <1>1 DEF Object
<1>3. \A o \in ids : f.objects[o].flaw \in Flaws
  BY <1>1 DEF Object, Flaws
<1>4. \A q \in Seq(ids) : Range(q) \subseteq ids /\ Len(q) \in Nat
  BY DEF Range
<1>5. Ids(f) = ids
  BY DEF Ids, ids
<1> QED BY <1>1, <1>2, <1>3, <1>4, <1>5 DEF Roots, Refs, Sizes, Counts

\* The values that can be reached, and the least set closed under references.
LEMMA ObjectsAreLeast ==
  ASSUME NEW f, IsGraph(f)
  PROVE  /\ PdfObjects(f) \subseteq Ids(f) /\ Roots(f) \subseteq PdfObjects(f)
         /\ IsFiniteSet(PdfObjects(f))
         /\ \A o \in PdfObjects(f) : Refs(f, o) \subseteq PdfObjects(f)
         /\ \A S \in SUBSET Ids(f) :
              (Roots(f) \subseteq S /\ \A o \in S : Refs(f, o) \subseteq S) => PdfObjects(f) \subseteq S
<1> DEFINE Closed(S) == Roots(f) \subseteq S /\ \A o \in S : Refs(f, o) \subseteq S
<1>1. PdfObjects(f) = {o \in Ids(f) : \A S \in SUBSET Ids(f) : Closed(S) => o \in S}
  BY DEF PdfObjects, Ids, Roots, Refs
<1>2. PdfObjects(f) \subseteq Ids(f) /\ Roots(f) \subseteq PdfObjects(f)
  BY <1>1, GraphType
<1>3. IsFiniteSet(PdfObjects(f))
  BY <1>2, GraphType, FS_Subset
<1>4. \A o \in PdfObjects(f) : Refs(f, o) \subseteq PdfObjects(f)
  BY <1>1, GraphType
<1> QED BY <1>1, <1>2, <1>3, <1>4

\* The pairs the model counts.
LEMMA PairsOf ==
  ASSUME NEW f, IsGraph(f)
  PROVE  /\ \A S \in SUBSET Ids(f) : ExpandedBytes(f, S) = Pairs(Sizes(f), S)
         /\ References(f) = Pairs(Counts(f), Ids(f))
<1>1. \A o \in Ids(f) : DOMAIN f.objects[o].refs = 1 .. Counts(f)[o]
  BY GraphType DEF Counts
<1>2. \A S \in SUBSET Ids(f) : ExpandedBytes(f, S) = Pairs(Sizes(f), S)
  BY DEF ExpandedBytes, Pairs, Sizes
<1>3. References(f) = Pairs(Counts(f), Ids(f))
  BY <1>1 DEF References, Pairs, Ids
<1> QED BY <1>2, <1>3

----------------------------------------------------------------------------
(* PDF: paths. *)

\* A path that repeats a value at its end at most has one more element than there are values.
LEMMA PathLength ==
  ASSUME NEW T, IsFiniteSet(T), NEW p \in Seq(T), Len(p) >= 1,
         \A i, j \in 1 .. Len(p) - 1 : p[i] = p[j] => i = j
  PROVE  Len(p) <= Cardinality(T) + 1
<1> DEFINE n == Len(p) - 1
           q == [i \in 1 .. n |-> p[i]]
<1>1. n \in Nat /\ n \in Int /\ 1 \in Int
  OBVIOUS
<1>2. q \in Injection(1 .. n, T)
  <2>1. q \in [1 .. n -> T]
    OBVIOUS
  <2>2. IsInjective(q)
    BY DEF IsInjective
  <2> QED BY <2>1, <2>2 DEF Injection
<1>3. Cardinality(1 .. n) = n
  <2> HIDE DEF n
  <2> QED BY <1>1, FS_Interval
<1>4. Cardinality(1 .. n) <= Cardinality(T)
  <2> HIDE DEF q, n
  <2> QED BY <1>2, FS_Injection
<1>5. Cardinality(T) \in Nat
  BY FS_CardinalityType
<1> QED BY <1>1, <1>3, <1>4, <1>5

\* The walk stops at its depth limit only on a graph with a chain that long.
LEMMA DeepPath ==
  ASSUME NEW f, IsGraph(f), NEW seen \in SUBSET Ids(f), NEW e \in Entry(f), PathTo(f, e, seen), e.depth > MaxDepth
  PROVE  ~PdfShallow(f)
<1>1. PICK p \in Seq(Ids(f)) :
        /\ Len(p) >= 1 /\ p[1] \in Roots(f) /\ p[Len(p)] = e.id
        /\ \A i \in 1 .. Len(p) - 1 : p[i] \in seen /\ p[i + 1] \in Refs(f, p[i])
        /\ \A i, j \in 1 .. Len(p) - 1 : p[i] = p[j] => i = j
        /\ e.depth <= Len(p) - 1
  BY DEF PathTo
<1>2. IsFiniteSet(Ids(f)) /\ Cardinality(Ids(f)) \in Nat /\ Len(p) \in Nat /\ MaxDepth \in Nat /\ e.depth \in Nat
  BY GraphType, FS_CardinalityType, IngressAssumption DEF Entry
<1>3. Len(p) <= Cardinality(Ids(f)) + 1
  BY <1>1, <1>2, PathLength
<1>4. p \in BoundedSeq(DOMAIN f.objects, Cardinality(DOMAIN f.objects) + 1)
  <2>1. p \in [1 .. Len(p) -> Ids(f)]
    OBVIOUS
  <2> QED BY <1>2, <1>3, <2>1 DEF BoundedSeq, SeqOf, Ids
<1>5. IsInjective(Front(p))
  <2>1. Front(p) \in Seq(Ids(f)) /\ DOMAIN Front(p) = 1 .. Len(p) - 1
    BY <1>1, <1>2 DEF Front
  <2>2. \A i \in 1 .. Len(p) - 1 : Front(p)[i] = p[i]
    BY <1>1, <1>2 DEF Front
  <2> QED BY <1>1, <2>1, <2>2 DEF IsInjective
<1>6. p # <<>> /\ p[1] \in {f.trailer} \cup f.xref
  BY <1>1 DEF Roots
<1>7. \A i \in 1 .. Len(p) - 1 : p[i + 1] \in Range(f.objects[p[i]].refs)
  BY <1>1 DEF Refs
<1>8. ~(Len(p) - 1 <= MaxDepth)
  BY <1>1, <1>2
<1> QED BY <1>4, <1>5, <1>6, <1>7, <1>8 DEF PdfShallow

\* A path remains one when more values have been seen.
LEMMA PathKept ==
  ASSUME NEW f, NEW e, NEW seen, NEW more, PathTo(f, e, seen)
  PROVE  PathTo(f, e, seen \cup more)
BY DEF PathTo

\* From a value not seen before, what it holds prolongs the path to it.
LEMMA PathGrows ==
  ASSUME NEW f, IsGraph(f), NEW e \in Entry(f), NEW seen, PathTo(f, e, seen), e.id \notin seen,
         NEW r \in Refs(f, e.id)
  PROVE  PathTo(f, [id |-> r, depth |-> e.depth + 1], seen \cup {e.id})
<1>1. PICK p \in Seq(Ids(f)) :
        /\ Len(p) >= 1 /\ p[1] \in Roots(f) /\ p[Len(p)] = e.id
        /\ \A i \in 1 .. Len(p) - 1 : p[i] \in seen /\ p[i + 1] \in Refs(f, p[i])
        /\ \A i, j \in 1 .. Len(p) - 1 : p[i] = p[j] => i = j
        /\ e.depth <= Len(p) - 1
  BY DEF PathTo
<1>2. r \in Ids(f) /\ e.depth \in Nat /\ Len(p) \in Nat
  BY GraphType DEF Entry
<1> DEFINE q == Append(p, r)
<1>3. /\ q \in Seq(Ids(f)) /\ Len(q) = Len(p) + 1 /\ q[Len(q)] = r
      /\ \A i \in 1 .. Len(p) : q[i] = p[i]
  BY <1>2
<1> HIDE DEF q
<1>4. q[1] = p[1]
  BY <1>1, <1>2, <1>3
<1>5. ASSUME NEW i \in 1 .. Len(q) - 1 PROVE q[i] \in seen \cup {e.id} /\ q[i + 1] \in Refs(f, q[i])
  <2>1. CASE i = Len(p)
    BY <1>1, <1>2, <1>3, <2>1
  <2>2. CASE i # Len(p)
    <3>1. i \in 1 .. Len(p) - 1 /\ i + 1 \in 1 .. Len(p)
      BY <1>2, <1>3, <2>2
    <3> QED BY <1>1, <1>2, <1>3, <3>1
  <2> QED BY <2>1, <2>2
<1>6. ASSUME NEW i \in 1 .. Len(q) - 1, NEW j \in 1 .. Len(q) - 1, q[i] = q[j] PROVE i = j
  <2>1. i \in 1 .. Len(p) /\ j \in 1 .. Len(p) /\ p[i] = p[j]
    BY <1>2, <1>3, <1>6
  <2>2. \A k \in 1 .. Len(p) : k # Len(p) => k \in 1 .. Len(p) - 1 /\ p[k] \in seen
    BY <1>1, <1>2
  <2> QED BY <1>1, <2>1, <2>2
<1>7. e.depth + 1 <= Len(q) - 1
  BY <1>1, <1>2, <1>3, <1>4
<1>8. Len(q) >= 1 /\ q[1] \in Roots(f)
  BY <1>1, <1>2, <1>3, <1>4
<1> QED BY <1>3, <1>5, <1>6, <1>7, <1>8 DEF PathTo

\* The roots are reached at once.
LEMMA PathFromRoot ==
  ASSUME NEW f, IsGraph(f), NEW r \in Roots(f)
  PROVE  PathTo(f, [id |-> r, depth |-> 0], {})
<1>1. r \in Ids(f)
  BY GraphType
<1> DEFINE p == <<r>>
<1>2. p \in Seq(Ids(f)) /\ Len(p) = 1 /\ p[1] = r
  BY <1>1
<1> HIDE DEF p
<1> DEFINE e == [id |-> r, depth |-> 0]
<1>3. e.id = r /\ e.depth = 0
  OBVIOUS
<1>4. 0 <= Len(p) - 1
  BY <1>2
<1> HIDE DEF e
<1>5. PathTo(f, e, {})
  <2>1. 1 .. Len(p) - 1 = {}
    BY <1>2
  <2>2. p[1] \in Roots(f) /\ p[Len(p)] = e.id /\ Len(p) >= 1
    BY <1>2, <1>3
  <2>3. e.depth <= Len(p) - 1
    BY <1>3, <1>4
  <2> QED BY <1>2, <2>1, <2>2, <2>3, Zenon DEF PathTo
<1> QED BY <1>5 DEF e

----------------------------------------------------------------------------
(* PDF: the start. *)

\* The library's list of a finite set has each of its members.
LEMMA SetIsListed ==
  ASSUME NEW S, IsFiniteSet(S)
  PROVE  SetToSeq(S) \in Seq(S) /\ Range(SetToSeq(S)) = S
<1> DEFINE n == Cardinality(S)
           q == SetToSeq(S)
<1>1. n \in Nat /\ ExistsBijection(1 .. n, S)
  BY FS_CardinalityType
<1>2. \E g \in [1 .. n -> S] : IsInjective(g)
  BY <1>1 DEF ExistsBijection, Bijection, Injection
<1>3. q \in [1 .. n -> S] /\ IsInjective(q)
  BY <1>2 DEF SetToSeq
<1>4. IsFiniteSet(1 .. n) /\ Cardinality(1 .. n) = n
  <2>1. 1 \in Int /\ n \in Int
    BY <1>1
  <2> HIDE DEF n
  <2> QED BY <1>1, <2>1, FS_Interval
<1>5. q \in Surjection(1 .. n, S)
  <2>1. q \in Injection(1 .. n, S)
    BY <1>3 DEF Injection
  <2>2. Cardinality(1 .. n) = Cardinality(S)
    BY <1>4
  <2> HIDE DEF n, q
  <2> QED BY <2>1, <2>2, FS_Injection
<1>6. Range(q) = S
  BY <1>3, <1>5 DEF Surjection, Range
<1> QED BY <1>1, <1>3, <1>6

\* References at a depth.
LEMMA AtDepthType ==
  ASSUME NEW f, NEW q \in Seq(Ids(f)), NEW depth \in Nat
  PROVE  /\ AtDepth(q, depth) \in Seq(Entry(f)) /\ Len(AtDepth(q, depth)) = Len(q)
         /\ Range(AtDepth(q, depth)) = {[id |-> o, depth |-> depth] : o \in Range(q)}
<1>1. DOMAIN q = 1 .. Len(q) /\ Len(q) \in Nat /\ \A i \in 1 .. Len(q) : q[i] \in Ids(f)
  OBVIOUS
<1>2. AtDepth(q, depth) = [i \in 1 .. Len(q) |-> [id |-> q[i], depth |-> depth]]
  BY <1>1 DEF AtDepth
<1>3. \A i \in 1 .. Len(q) : [id |-> q[i], depth |-> depth] \in Entry(f)
  BY <1>1 DEF Entry
<1>4. AtDepth(q, depth) \in Seq(Entry(f)) /\ Len(AtDepth(q, depth)) = Len(q)
  BY <1>1, <1>2, <1>3
<1>5. Range(AtDepth(q, depth)) = {[id |-> o, depth |-> depth] : o \in Range(q)}
  BY <1>1, <1>2 DEF Range
<1> QED BY <1>4, <1>5

\* The elements of a concatenation.
LEMMA RangeOfConcat ==
  ASSUME NEW T, NEW p \in Seq(T), NEW q \in Seq(T)
  PROVE  Range(p \o q) = Range(p) \cup Range(q)
<1>1. /\ p \o q \in Seq(T) /\ Len(p \o q) = Len(p) + Len(q)
      /\ \A i \in 1 .. Len(p) + Len(q) : (p \o q)[i] = IF i <= Len(p) THEN p[i] ELSE q[i - Len(p)]
  OBVIOUS
<1>2. Len(p) \in Nat /\ Len(q) \in Nat
  OBVIOUS
<1>3. ASSUME NEW i \in 1 .. Len(p) + Len(q) PROVE (p \o q)[i] \in Range(p) \cup Range(q)
  <2>1. CASE i <= Len(p)
    BY <1>1, <1>2, <2>1 DEF Range
  <2>2. CASE ~(i <= Len(p))
    <3>1. i - Len(p) \in 1 .. Len(q)
      BY <1>2, <2>2
    <3> QED BY <1>1, <2>2, <3>1 DEF Range
  <2> QED BY <2>1, <2>2
<1>4. ASSUME NEW i \in 1 .. Len(p) PROVE p[i] \in Range(p \o q)
  <2>1. i \in 1 .. Len(p) + Len(q) /\ i <= Len(p)
    BY <1>2
  <2>2. (p \o q)[i] = p[i] /\ i \in DOMAIN (p \o q)
    BY <1>1, <1>2, <2>1
  <2> QED BY <2>2 DEF Range
<1>5. ASSUME NEW i \in 1 .. Len(q) PROVE q[i] \in Range(p \o q)
  <2>1. i + Len(p) \in 1 .. Len(p) + Len(q) /\ ~(i + Len(p) <= Len(p)) /\ (i + Len(p)) - Len(p) = i
    BY <1>2
  <2>2. (p \o q)[i + Len(p)] = q[i] /\ i + Len(p) \in DOMAIN (p \o q)
    BY <1>1, <1>2, <2>1
  <2> QED BY <2>2 DEF Range
<1>6. Range(p \o q) \subseteq Range(p) \cup Range(q)
  BY <1>1, <1>2, <1>3 DEF Range
<1>7. Range(p) \subseteq Range(p \o q)
  BY <1>4 DEF Range
<1>8. Range(q) \subseteq Range(p \o q)
  BY <1>5 DEF Range
<1> QED BY <1>6, <1>7, <1>8

\* The walk starts with the roots.
LEMMA StartType ==
  ASSUME NEW f, IsGraph(f)
  PROVE  /\ PdfStart(f) \in Seq(Entry(f)) /\ PdfRounds(f) \in Nat
         /\ {e.id : e \in Range(PdfStart(f))} = Roots(f)
         /\ \A e \in Range(PdfStart(f)) : PathTo(f, e, {})
<1> DEFINE list == SetToSeq(f.xref)
           roots == <<f.trailer>> \o list
<1>1. f.trailer \in Ids(f) /\ f.xref \subseteq Ids(f) /\ IsFiniteSet(f.xref)
  <2>1. f.trailer \in Ids(f) /\ f.xref \subseteq Ids(f) /\ IsFiniteSet(Ids(f))
    BY DEF IsGraph, Ids
  <2> QED BY <2>1, FS_Subset
<1>2. list \in Seq(Ids(f)) /\ Range(list) = f.xref
  <2>1. list \in Seq(f.xref) /\ Range(list) = f.xref
    BY <1>1, SetIsListed
  <2> HIDE DEF list
  <2> QED BY <1>1, <2>1
<1>3. roots \in Seq(Ids(f)) /\ Range(roots) = Roots(f)
  <2> DEFINE first == <<f.trailer>>
  <2>1. first \in Seq(Ids(f)) /\ Range(first) = {f.trailer}
    BY <1>1 DEF Range
  <2> HIDE DEF list, first
  <2>2. first \o list \in Seq(Ids(f)) /\ Range(first \o list) = Range(first) \cup Range(list)
    BY <1>2, <2>1, RangeOfConcat
  <2> QED BY <1>2, <2>1, <2>2 DEF Roots, first
<1>4. PdfStart(f) = AtDepth(roots, 0)
  BY DEF PdfStart
<1> HIDE DEF roots
<1>5. /\ PdfStart(f) \in Seq(Entry(f))
      /\ Range(PdfStart(f)) = {[id |-> o, depth |-> 0] : o \in Roots(f)}
  BY <1>3, <1>4, AtDepthType
<1>6. PdfRounds(f) \in Nat
  <2>1. Cardinality(References(f)) \in Nat
    BY GraphType, PairsOf, PairsFinite
  <2>2. Len(PdfStart(f)) \in Nat
    BY <1>5
  <2> QED BY <2>1, <2>2 DEF PdfRounds
<1>7. {e.id : e \in Range(PdfStart(f))} = Roots(f)
  <2>1. \A e \in Range(PdfStart(f)) : e.id \in Roots(f)
    BY <1>5
  <2>2. ASSUME NEW o \in Roots(f) PROVE \E e \in Range(PdfStart(f)) : e.id = o
    <3>1. [id |-> o, depth |-> 0] \in Range(PdfStart(f))
      BY <1>5
    <3> QED BY <3>1
  <2> QED BY <2>1, <2>2
<1>8. ASSUME NEW e \in Range(PdfStart(f)) PROVE PathTo(f, e, {})
  <2>1. PICK o \in Roots(f) : e = [id |-> o, depth |-> 0]
    BY <1>5
  <2> QED BY <2>1, PathFromRoot
<1> QED BY <1>5, <1>6, <1>7, <1>8

\* The walk starts as it goes on.
LEMMA StartWalks ==
  ASSUME NEW f, IsGraph(f)
  PROVE  PdfFirst(f) \in PdfState(f) /\ PdfRight(f, PdfFirst(f), 0)
<1> DEFINE s == PdfFirst(f)
<1>1. s.stack = PdfStart(f) /\ s.seen = {} /\ s.expanded = 0 /\ s.verdict = "none"
  BY DEF PdfFirst
<1>2. s \in PdfState(f)
  <2>1. PdfStart(f) \in Seq(Entry(f))
    BY StartType
  <2> QED BY <2>1 DEF PdfFirst, PdfState
<1>3. Cardinality(Pairs(Sizes(f), {})) = 0 /\ 0 <= MaxExpanded
  <2>1. Pairs(Sizes(f), {}) = {}
    BY DEF Pairs
  <2> QED BY <2>1, FS_EmptySet, IngressAssumption
<1>4. Len(PdfStart(f)) + Cardinality(Pairs(Counts(f), Ids(f) \ {})) + 0 < PdfRounds(f)
  <2>1. Pairs(Counts(f), Ids(f) \ {}) = References(f)
    <3>1. Ids(f) \ {} = Ids(f)
      OBVIOUS
    <3> QED BY <3>1, PairsOf
  <2>2. Len(PdfStart(f)) \in Nat /\ Cardinality(References(f)) \in Nat
    <3>1. PdfStart(f) \in Seq(Entry(f))
      BY StartType
    <3>2. Cardinality(References(f)) \in Nat
      BY GraphType, PairsOf, PairsFinite
    <3> QED BY <3>1, <3>2
  <2> QED BY <2>1, <2>2 DEF PdfRounds
<1>5. Roots(f) \subseteq {e.id : e \in Range(PdfStart(f))}
  BY StartType
<1>6. \A e \in Range(PdfStart(f)) : e.id \in PdfObjects(f) /\ PathTo(f, e, {})
  <2>1. \A e \in Range(PdfStart(f)) : e.id \in Roots(f) /\ PathTo(f, e, {})
    BY StartType
  <2> QED BY <2>1, ObjectsAreLeast
<1> HIDE DEF s
<1>7. Walking(f, s, 0)
  <2>1. /\ Roots(f) \subseteq s.seen \cup {e.id : e \in Range(s.stack)}
        /\ \A o \in s.seen : Refs(f, o) \subseteq s.seen \cup {e.id : e \in Range(s.stack)}
        /\ s.seen \subseteq PdfObjects(f) /\ \A o \in s.seen : f.objects[o].flaw = "none"
    BY <1>1, <1>5
  <2>2. \A e \in Range(s.stack) : e.id \in PdfObjects(f) /\ PathTo(f, e, s.seen)
    BY <1>1, <1>6
  <2>3. s.expanded = Cardinality(Pairs(Sizes(f), s.seen)) /\ s.expanded <= MaxExpanded
    BY <1>1, <1>3
  <2>4. Len(s.stack) + Cardinality(Pairs(Counts(f), Ids(f) \ s.seen)) + 0 < PdfRounds(f)
    BY <1>1, <1>4
  <2> QED BY <2>1, <2>2, <2>3, <2>4 DEF Walking
<1> QED BY <1>1, <1>2, <1>7 DEF PdfRight, s

----------------------------------------------------------------------------
(* PDF: the steps. *)

\* The top of the stack and the rest of it.
LEMMA StackParts ==
  ASSUME NEW T, NEW q \in Seq(T), q # <<>>
  PROVE  /\ Head(q) \in T /\ Tail(q) \in Seq(T) /\ Len(Tail(q)) = Len(q) - 1 /\ Len(q) \in Nat
         /\ Range(q) = {Head(q)} \cup Range(Tail(q))
<1>1. /\ Len(q) \in Nat /\ Len(q) >= 1 /\ Head(q) = q[1] /\ Tail(q) \in Seq(T)
      /\ Len(Tail(q)) = Len(q) - 1 /\ \A i \in 1 .. Len(q) - 1 : Tail(q)[i] = q[i + 1]
  OBVIOUS
<1>2. Head(q) \in T
  BY <1>1
<1>3. ASSUME NEW i \in 1 .. Len(q) PROVE q[i] \in {Head(q)} \cup Range(Tail(q))
  <2>1. CASE i = 1
    BY <1>1, <2>1
  <2>2. CASE i # 1
    <3>1. i - 1 \in 1 .. Len(q) - 1 /\ (i - 1) + 1 = i
      BY <1>1, <2>2
    <3>2. Tail(q)[i - 1] = q[i] /\ i - 1 \in DOMAIN Tail(q)
      BY <1>1, <3>1
    <3> QED BY <3>2 DEF Range
  <2> QED BY <2>1, <2>2
<1>4. ASSUME NEW i \in 1 .. Len(q) - 1 PROVE Tail(q)[i] \in Range(q)
  <2>1. i + 1 \in 1 .. Len(q)
    BY <1>1
  <2> QED BY <1>1, <2>1 DEF Range
<1>5. Range(q) \subseteq {Head(q)} \cup Range(Tail(q))
  BY <1>3 DEF Range
<1>6. Range(Tail(q)) \subseteq Range(q)
  BY <1>1, <1>4 DEF Range
<1>7. Head(q) \in Range(q)
  BY <1>1 DEF Range
<1> QED BY <1>1, <1>2, <1>5, <1>6, <1>7

\* An empty stack: what was seen is all there is.
LEMMA WalkEnds ==
  ASSUME NEW f, IsGraph(f), NEW s \in PdfState(f), NEW n, Walking(f, s, n), s.stack = <<>>
  PROVE  PdfClean(f)
<1>1. {e.id : e \in Range(s.stack)} = {}
  BY DEF Range
<1>2. s.seen \in SUBSET Ids(f) /\ Roots(f) \subseteq s.seen /\ \A o \in s.seen : Refs(f, o) \subseteq s.seen
  BY <1>1 DEF Walking, PdfState
<1>3. PdfObjects(f) \subseteq s.seen
  BY <1>2, ObjectsAreLeast
<1>4. PdfObjects(f) = s.seen
  BY <1>3 DEF Walking
<1>5. ExpandedBytes(f, s.seen) = Pairs(Sizes(f), s.seen)
  BY <1>2, PairsOf
<1> QED BY <1>4, <1>5 DEF Walking, PdfClean

\* What the next value costs, and what it says of the file when that is too much.
LEMMA NextObject ==
  ASSUME NEW f, IsGraph(f), NEW s \in PdfState(f), NEW n, Walking(f, s, n), NEW o \in PdfObjects(f), o \notin s.seen
  PROVE  /\ Cardinality(Pairs(Sizes(f), s.seen \cup {o})) = s.expanded + f.objects[o].size
         /\ s.expanded + f.objects[o].size > MaxExpanded => ~PdfClean(f)
         /\ Cardinality(s.seen) + 1 > MaxObjects => ~PdfBounded(f)
<1> DEFINE more == s.seen \cup {o}
<1>1. /\ IsFiniteSet(Ids(f)) /\ Sizes(f) \in [Ids(f) -> Nat] /\ s.seen \in SUBSET Ids(f) /\ IsFiniteSet(s.seen)
      /\ o \in Ids(f) \ s.seen /\ Sizes(f)[o] = f.objects[o].size
  <2>1. IsFiniteSet(Ids(f)) /\ Sizes(f) \in [Ids(f) -> Nat]
    BY GraphType
  <2>2. s.seen \in SUBSET Ids(f)
    BY DEF PdfState
  <2>3. IsFiniteSet(s.seen)
    BY <2>1, <2>2, FS_Subset
  <2>4. o \in Ids(f)
    BY ObjectsAreLeast
  <2> QED BY <2>1, <2>2, <2>3, <2>4 DEF Sizes
<1>2. Cardinality(Pairs(Sizes(f), more)) = s.expanded + f.objects[o].size
  <2>1. Cardinality(Pairs(Sizes(f), more)) = Cardinality(Pairs(Sizes(f), s.seen)) + Sizes(f)[o]
    BY <1>1, PairsAdd
  <2> QED BY <1>1, <2>1 DEF Walking
<1>3. more \subseteq PdfObjects(f) /\ IsFiniteSet(PdfObjects(f)) /\ PdfObjects(f) \in SUBSET Ids(f)
  BY ObjectsAreLeast DEF Walking
<1>4. Cardinality(Pairs(Sizes(f), more)) <= Cardinality(Pairs(Sizes(f), PdfObjects(f)))
  <2> HIDE DEF more
  <2> QED BY <1>1, <1>3, PairsMonotone
<1>5. Cardinality(more) <= Cardinality(PdfObjects(f)) /\ Cardinality(more) \in Nat /\ Cardinality(PdfObjects(f)) \in Nat
  <2> HIDE DEF more
  <2> QED BY <1>3, FS_Subset, FS_CardinalityType
<1>6. Cardinality(more) = Cardinality(s.seen) + 1
  BY <1>1, FS_AddElement
<1>7. ExpandedBytes(f, PdfObjects(f)) = Pairs(Sizes(f), PdfObjects(f))
  BY <1>3, PairsOf
<1>8. Cardinality(Pairs(Sizes(f), PdfObjects(f))) \in Nat /\ s.expanded + f.objects[o].size \in Nat /\ MaxExpanded \in Nat
  <2>1. Cardinality(Pairs(Sizes(f), PdfObjects(f))) \in Nat
    BY <1>1, <1>3, PairsFinite
  <2>2. s.expanded \in Nat /\ f.objects[o].size \in Nat
    BY <1>1, GraphType DEF PdfState
  <2> QED BY <2>1, <2>2, IngressAssumption
<1>9. ASSUME s.expanded + f.objects[o].size > MaxExpanded PROVE ~PdfClean(f)
  <2>1. Cardinality(ExpandedBytes(f, PdfObjects(f))) > MaxExpanded
    BY <1>2, <1>4, <1>7, <1>8, <1>9
  <2> QED BY <1>7, <1>8, <2>1 DEF PdfClean
<1>10. ASSUME Cardinality(s.seen) + 1 > MaxObjects PROVE ~PdfBounded(f)
  BY <1>5, <1>6, <1>10, IngressAssumption DEF PdfBounded
<1> QED BY <1>2, <1>9, <1>10

\* An value that was seen is dropped from the stack.
LEMMA WalkDrops ==
  ASSUME NEW f, IsGraph(f), NEW s \in PdfState(f), NEW n \in Nat, Walking(f, s, n), s.stack # <<>>,
         Head(s.stack).id \in s.seen, NEW t, t = [s EXCEPT !.stack = Tail(s.stack)]
  PROVE  t \in PdfState(f) /\ Walking(f, t, n + 1)
<1>1. t.stack = Tail(s.stack) /\ t.seen = s.seen /\ t.expanded = s.expanded
  BY DEF PdfState
<1>2. s.stack \in Seq(Entry(f)) /\ s.seen \in SUBSET Ids(f)
  BY DEF PdfState
<1>3. /\ Tail(s.stack) \in Seq(Entry(f)) /\ Len(t.stack) = Len(s.stack) - 1 /\ Len(s.stack) \in Nat
      /\ Range(s.stack) = {Head(s.stack)} \cup Range(t.stack)
  BY <1>1, <1>2, StackParts
<1>4. t \in PdfState(f)
  BY <1>3 DEF PdfState
<1>5. s.seen \cup {e.id : e \in Range(s.stack)} = t.seen \cup {e.id : e \in Range(t.stack)}
  BY <1>1, <1>3
<1>6. Len(t.stack) + Cardinality(Pairs(Counts(f), Ids(f) \ t.seen)) + (n + 1) < PdfRounds(f)
  <2>1. Cardinality(Pairs(Counts(f), Ids(f) \ s.seen)) \in Nat /\ PdfRounds(f) \in Nat
    <3>1. IsFiniteSet(Ids(f) \ s.seen)
      BY GraphType, FS_Subset
    <3>2. Counts(f) \in [Ids(f) -> Nat] /\ Ids(f) \ s.seen \in SUBSET Ids(f)
      BY GraphType
    <3> QED BY <3>1, <3>2, PairsFinite, StartType
  <2>2. Len(s.stack) + Cardinality(Pairs(Counts(f), Ids(f) \ s.seen)) + n < PdfRounds(f)
    BY DEF Walking
  <2> QED BY <1>1, <1>3, <2>1, <2>2
<1>7. Walking(f, t, n + 1)
  <2>1. /\ Roots(f) \subseteq t.seen \cup {e.id : e \in Range(t.stack)}
        /\ \A o \in t.seen : Refs(f, o) \subseteq t.seen \cup {e.id : e \in Range(t.stack)}
    BY <1>1, <1>5 DEF Walking
  <2>2. /\ t.seen \subseteq PdfObjects(f) /\ \A o \in t.seen : f.objects[o].flaw = "none"
        /\ t.expanded = Cardinality(Pairs(Sizes(f), t.seen)) /\ t.expanded <= MaxExpanded
    BY <1>1 DEF Walking
  <2>3. \A e \in Range(t.stack) : e.id \in PdfObjects(f) /\ PathTo(f, e, t.seen)
    BY <1>1, <1>3 DEF Walking
  <2> QED BY <1>6, <2>1, <2>2, <2>3 DEF Walking
<1> QED BY <1>4, <1>7

\* The entries of a stack that has the values of S at one depth on top of the rest.
Above(S, depth, rest) == {[id |-> o, depth |-> depth] : o \in S} \cup Range(rest)

\* References put at their depth on top of the rest of the stack.
LEMMA PushedStack ==
  ASSUME NEW f, NEW refs \in Seq(Ids(f)), NEW depth \in Nat, NEW rest \in Seq(Entry(f))
  PROVE  /\ AtDepth(refs, depth + 1) \o rest \in Seq(Entry(f))
         /\ Len(AtDepth(refs, depth + 1) \o rest) = Len(refs) + Len(rest)
         /\ Range(AtDepth(refs, depth + 1) \o rest) = Above(Range(refs), depth + 1, rest)
<1> DEFINE new == AtDepth(refs, depth + 1)
<1>1. depth + 1 \in Nat
  OBVIOUS
<1>2. /\ new \in Seq(Entry(f)) /\ Len(new) = Len(refs)
      /\ Range(new) = {[id |-> o, depth |-> depth + 1] : o \in Range(refs)}
  BY <1>1, AtDepthType
<1> HIDE DEF new
<1>3. Range(new \o rest) = Range(new) \cup Range(rest)
  BY <1>2, RangeOfConcat
<1>4. new \o rest \in Seq(Entry(f)) /\ Len(new \o rest) = Len(new) + Len(rest)
  BY <1>2
<1> QED BY <1>2, <1>3, <1>4 DEF new, Above

\* The references left when one more value is seen.
LEMMA VisitReferences ==
  ASSUME NEW f, IsGraph(f), NEW seen \in SUBSET Ids(f), NEW o \in Ids(f) \ seen
  PROVE  /\ Cardinality(Pairs(Counts(f), Ids(f) \ (seen \cup {o}))) \in Nat
         /\ Cardinality(Pairs(Counts(f), Ids(f) \ seen)) =
              Cardinality(Pairs(Counts(f), Ids(f) \ (seen \cup {o}))) + Len(f.objects[o].refs)
<1> DEFINE left == Ids(f) \ (seen \cup {o})
<1>1. IsFiniteSet(Ids(f)) /\ Counts(f) \in [Ids(f) -> Nat]
  BY GraphType
<1>2. left \in SUBSET Ids(f) /\ o \in Ids(f) \ left /\ left \cup {o} = Ids(f) \ seen
  OBVIOUS
<1>3. Counts(f)[o] = Len(f.objects[o].refs)
  BY DEF Counts
<1> HIDE DEF left
<1>4. IsFiniteSet(left)
  BY <1>1, <1>2, FS_Subset
<1>5. Cardinality(Pairs(Counts(f), left)) \in Nat
  BY <1>1, <1>2, <1>4, PairsFinite
<1>6. Cardinality(Pairs(Counts(f), left \cup {o})) = Cardinality(Pairs(Counts(f), left)) + Counts(f)[o]
  BY <1>1, <1>2, <1>4, PairsAdd
<1> QED BY <1>2, <1>3, <1>5, <1>6 DEF left

\* The length of a sequence is a natural number.
LEMMA LengthType ==
  ASSUME NEW S, NEW q \in Seq(S)
  PROVE  Len(q) \in Nat
OBVIOUS

\* What the stack is after a visit of value o, at depth, which had rest below it.
LEMMA VisitStack ==
  ASSUME NEW f, IsGraph(f), NEW o \in Ids(f), NEW depth \in Nat, NEW rest \in Seq(Entry(f))
  PROVE  /\ AtDepth(f.objects[o].refs, depth + 1) \o rest \in Seq(Entry(f))
         /\ Len(AtDepth(f.objects[o].refs, depth + 1) \o rest) = Len(f.objects[o].refs) + Len(rest)
         /\ Range(AtDepth(f.objects[o].refs, depth + 1) \o rest) = Above(Refs(f, o), depth + 1, rest)
         /\ Len(f.objects[o].refs) \in Nat
<1> DEFINE refs == f.objects[o].refs
<1>1. refs \in Seq(Ids(f))
  BY GraphType
<1>2. Range(refs) = Refs(f, o)
  BY DEF Refs
<1> HIDE DEF refs
<1>3. Len(refs) \in Nat
  BY <1>1, LengthType, Zenon
<1>4. /\ AtDepth(refs, depth + 1) \o rest \in Seq(Entry(f))
      /\ Len(AtDepth(refs, depth + 1) \o rest) = Len(refs) + Len(rest)
      /\ Range(AtDepth(refs, depth + 1) \o rest) = Above(Range(refs), depth + 1, rest)
  BY <1>1, PushedStack, Zenon
<1> QED BY <1>2, <1>3, <1>4, Zenon DEF refs

\* What the visit makes of the limit on steps, when the stack was old.
LEMMA VisitBudget ==
  ASSUME NEW f, IsGraph(f), NEW seen \in SUBSET Ids(f), NEW o \in Ids(f) \ seen, NEW depth \in Nat, NEW n \in Nat,
         NEW old \in Seq(Entry(f)), NEW rest \in Seq(Entry(f)), Len(rest) = Len(old) - 1,
         Len(old) + Cardinality(Pairs(Counts(f), Ids(f) \ seen)) + n < PdfRounds(f)
  PROVE  Len(AtDepth(f.objects[o].refs, depth + 1) \o rest)
           + Cardinality(Pairs(Counts(f), Ids(f) \ (seen \cup {o}))) + (n + 1) < PdfRounds(f)
<1> DEFINE refs == f.objects[o].refs
           left == Cardinality(Pairs(Counts(f), Ids(f) \ (seen \cup {o})))
           stack == AtDepth(refs, depth + 1) \o rest
<1>1. left \in Nat /\ Cardinality(Pairs(Counts(f), Ids(f) \ seen)) = left + Len(refs)
  BY VisitReferences, Zenon
<1>2. PdfRounds(f) \in Nat
  BY StartType, Zenon
<1>3. Len(stack) = Len(refs) + Len(rest) /\ Len(refs) \in Nat
  BY VisitStack
<1>4. Len(old) \in Nat
  BY LengthType, Zenon
<1> HIDE DEF refs, left, stack
<1>5. Len(stack) + left + (n + 1) < PdfRounds(f)
  BY <1>1, <1>2, <1>3, <1>4
<1> QED BY <1>5, Zenon DEF stack, left, refs

\* The record a visit leaves.
Visited(s, stack, seen, expanded) == [s EXCEPT !.stack = stack, !.seen = seen, !.expanded = expanded]

\* It is a state of the walk, and has the parts given.
LEMMA VisitType ==
  ASSUME NEW f, NEW s \in PdfState(f), NEW stack \in Seq(Entry(f)), NEW seen \in SUBSET Ids(f), NEW expanded \in Nat
  PROVE  /\ Visited(s, stack, seen, expanded) \in PdfState(f)
         /\ Visited(s, stack, seen, expanded).stack = stack
         /\ Visited(s, stack, seen, expanded).seen = seen
         /\ Visited(s, stack, seen, expanded).expanded = expanded
         /\ Visited(s, stack, seen, expanded).verdict = s.verdict
BY DEF PdfState, Visited

\* A new value gives what it holds to the stack, and the walk goes on.
LEMMA WalkVisits ==
  ASSUME NEW f, IsGraph(f), NEW s \in PdfState(f), NEW n \in Nat, Walking(f, s, n),
         NEW top \in Entry(f), top.id \in Ids(f), top.id \in PdfObjects(f), PathTo(f, top, s.seen), top.id \notin s.seen,
         NEW rest \in Seq(Entry(f)), Range(s.stack) = {top} \cup Range(rest),
         f.objects[top.id].flaw = "none", s.expanded + f.objects[top.id].size <= MaxExpanded,
         NEW t, t.seen = s.seen \cup {top.id}, t.expanded = s.expanded + f.objects[top.id].size,
         Range(t.stack) = Above(Refs(f, top.id), top.depth + 1, rest),
         Len(t.stack) + Cardinality(Pairs(Counts(f), Ids(f) \ t.seen)) + (n + 1) < PdfRounds(f)
  PROVE  Walking(f, t, n + 1)
<1> DEFINE new == {[id |-> r, depth |-> top.depth + 1] : r \in Refs(f, top.id)}
<1>1. /\ top \in Entry(f) /\ top.id \in Ids(f) /\ top.id \in PdfObjects(f) /\ PathTo(f, top, s.seen)
      /\ Range(s.stack) = {top} \cup Range(rest) /\ Range(t.stack) = new \cup Range(rest)
      /\ Len(t.stack) + Cardinality(Pairs(Counts(f), Ids(f) \ t.seen)) + (n + 1) < PdfRounds(f)
  <2>1. Range(t.stack) = new \cup Range(rest)
    BY Zenon DEF Above
  <2> QED BY <2>1, Zenon
<1>2. \A e \in Range(s.stack) : e.id \in PdfObjects(f) /\ PathTo(f, e, s.seen)
  BY Zenon DEF Walking
<1>3. ASSUME NEW e \in Range(t.stack) PROVE e.id \in PdfObjects(f) /\ PathTo(f, e, t.seen)
  <2>1. CASE e \in new
    <3>1. PICK o \in Refs(f, top.id) : e = [id |-> o, depth |-> top.depth + 1]
      BY <2>1, Zenon
    <3>2. o \in PdfObjects(f)
      BY <1>1, ObjectsAreLeast, Zenon
    <3>3. PathTo(f, [id |-> o, depth |-> top.depth + 1], s.seen \cup {top.id})
      BY <1>1, PathGrows, Zenon
    <3>4. e.id = o
      BY <3>1
    <3>5. PathTo(f, e, t.seen)
      BY <3>1, <3>3, Zenon
    <3> QED BY <3>2, <3>4, <3>5, Zenon
  <2>2. CASE e \in Range(rest)
    <3>1. e.id \in PdfObjects(f) /\ PathTo(f, e, s.seen)
      BY <1>1, <1>2, <2>2, Zenon
    <3>2. PathTo(f, e, s.seen \cup {top.id})
      BY <3>1, PathKept, Zenon
    <3> QED BY <3>1, <3>2, Zenon
  <2> HIDE DEF new
  <2> QED BY <1>1, <1>3, <2>1, <2>2, Zenon
<1>4. \A o \in Refs(f, top.id) : o \in {e.id : e \in Range(t.stack)}
  <2>1. ASSUME NEW o \in Refs(f, top.id) PROVE \E e \in Range(t.stack) : e.id = o
    <3>1. [id |-> o, depth |-> top.depth + 1] \in Range(t.stack)
      BY <1>1, Zenon
    <3> QED BY <3>1
  <2> QED BY <2>1
<1> HIDE DEF new
<1>5. s.seen \cup {e.id : e \in Range(s.stack)} \subseteq t.seen \cup {e.id : e \in Range(t.stack)}
  <2>1. \A e \in Range(s.stack) : e.id \in t.seen \cup {g.id : g \in Range(t.stack)}
    BY <1>1, Zenon
  <2> QED BY <2>1, Zenon
<1>6. t.expanded = Cardinality(Pairs(Sizes(f), t.seen)) /\ t.expanded <= MaxExpanded
  <2>1. Cardinality(Pairs(Sizes(f), s.seen \cup {top.id})) = s.expanded + f.objects[top.id].size
    BY <1>1, NextObject, Zenon
  <2> QED BY <2>1, Zenon
<1>7. Roots(f) \subseteq t.seen \cup {e.id : e \in Range(t.stack)}
  BY <1>5, Zenon DEF Walking
<1>8. \A o \in t.seen : Refs(f, o) \subseteq t.seen \cup {e.id : e \in Range(t.stack)}
  <2>1. \A o \in s.seen : Refs(f, o) \subseteq t.seen \cup {e.id : e \in Range(t.stack)}
    BY <1>5, Zenon DEF Walking
  <2> QED BY <1>4, <2>1, Zenon
<1>9. t.seen \subseteq PdfObjects(f) /\ \A o \in t.seen : f.objects[o].flaw = "none"
  <2>1. s.seen \subseteq PdfObjects(f) /\ \A o \in s.seen : f.objects[o].flaw = "none"
    BY Zenon DEF Walking
  <2> QED BY <1>1, <2>1, Zenon
<1> QED BY <1>1, <1>3, <1>6, <1>7, <1>8, <1>9, Zenon DEF Walking

\* A visit, whole: the step that takes the value on top and pushes what it holds.
LEMMA WalkSteps ==
  ASSUME NEW f, IsGraph(f), NEW s \in PdfState(f), NEW n \in Nat, Walking(f, s, n),
         NEW top \in Entry(f), top.id \notin s.seen,
         NEW rest \in Seq(Entry(f)), Len(rest) = Len(s.stack) - 1, Range(s.stack) = {top} \cup Range(rest),
         f.objects[top.id].flaw = "none", s.expanded + f.objects[top.id].size <= MaxExpanded
  PROVE  LET t == Visited(s, AtDepth(f.objects[top.id].refs, top.depth + 1) \o rest,
                          s.seen \cup {top.id}, s.expanded + f.objects[top.id].size)
         IN  t \in PdfState(f) /\ t.verdict = s.verdict /\ Walking(f, t, n + 1)
<1> SUFFICES ASSUME NEW t, t = Visited(s, AtDepth(f.objects[top.id].refs, top.depth + 1) \o rest,
                                       s.seen \cup {top.id}, s.expanded + f.objects[top.id].size)
             PROVE  t \in PdfState(f) /\ t.verdict = s.verdict /\ Walking(f, t, n + 1)
  BY Zenon
<1> DEFINE stack == AtDepth(f.objects[top.id].refs, top.depth + 1) \o rest
           seen == s.seen \cup {top.id}
           expanded == s.expanded + f.objects[top.id].size
<1>1. s.stack \in Seq(Entry(f)) /\ s.seen \in SUBSET Ids(f) /\ s.expanded \in Nat
  BY DEF PdfState
<1>2. top.id \in Ids(f) /\ top.id \in Ids(f) \ s.seen /\ top.depth \in Nat
  BY DEF Entry
<1>3. top.id \in PdfObjects(f) /\ PathTo(f, top, s.seen)
  BY Zenon DEF Walking
<1>4. Len(s.stack) + Cardinality(Pairs(Counts(f), Ids(f) \ s.seen)) + n < PdfRounds(f)
  BY Zenon DEF Walking
<1>5. /\ stack \in Seq(Entry(f))
      /\ Range(stack) = Above(Refs(f, top.id), top.depth + 1, rest)
      /\ Len(stack) + Cardinality(Pairs(Counts(f), Ids(f) \ (s.seen \cup {top.id}))) + (n + 1) < PdfRounds(f)
  <2>1. /\ stack \in Seq(Entry(f))
        /\ Range(stack) = Above(Refs(f, top.id), top.depth + 1, rest)
    BY <1>2, VisitStack, ZenonT(40)
  <2>2. Len(stack) + Cardinality(Pairs(Counts(f), Ids(f) \ (s.seen \cup {top.id}))) + (n + 1) < PdfRounds(f)
    BY <1>1, <1>2, <1>4, VisitBudget, Zenon
  <2> QED BY <2>1, <2>2, Zenon
<1>6. seen \in SUBSET Ids(f)
  BY <1>1, <1>2
<1>7. expanded \in Nat
  <2> DEFINE size == f.objects[top.id].size
  <2>1. size \in Nat
    BY <1>2, GraphType, Zenon
  <2>2. s.expanded \in Nat
    BY <1>1, Zenon
  <2> HIDE DEF size
  <2>3. s.expanded + size \in Nat
    BY <2>1, <2>2
  <2> QED BY <2>3 DEF size
<1>8. t = Visited(s, stack, seen, expanded)
  BY Zenon
<1> HIDE DEF stack, seen, expanded
<1>9. t \in PdfState(f) /\ t.stack = stack /\ t.seen = seen /\ t.expanded = expanded /\ t.verdict = s.verdict
  <2>1. stack \in Seq(Entry(f))
    BY <1>5, Zenon
  <2>2. /\ Visited(s, stack, seen, expanded) \in PdfState(f)
        /\ Visited(s, stack, seen, expanded).stack = stack
        /\ Visited(s, stack, seen, expanded).seen = seen
        /\ Visited(s, stack, seen, expanded).expanded = expanded
        /\ Visited(s, stack, seen, expanded).verdict = s.verdict
    BY <1>6, <1>7, <2>1, VisitType
  <2> QED BY <1>8, <2>2, Zenon
<1>10. Range(t.stack) = Above(Refs(f, top.id), top.depth + 1, rest)
  BY <1>5, <1>9, Zenon
<1>11. t.seen = s.seen \cup {top.id} /\ t.expanded = s.expanded + f.objects[top.id].size
  BY <1>9, Zenon DEF seen, expanded
<1>12. Len(t.stack) + Cardinality(Pairs(Counts(f), Ids(f) \ t.seen)) + (n + 1) < PdfRounds(f)
  BY <1>5, <1>9, <1>11, Zenon
<1>13. Walking(f, t, n + 1)
  BY <1>2, <1>3, <1>10, <1>11, <1>12, WalkVisits, Zenon
<1> QED BY <1>9, <1>13, Zenon

\* Every step of the walk leaves its state well typed and its verdict right.
LEMMA WalkRight ==
  ASSUME NEW f, IsGraph(f), NEW s \in PdfState(f), NEW n \in Nat, PdfRight(f, s, n)
  PROVE  PdfStep(f, s) \in PdfState(f) /\ PdfRight(f, PdfStep(f, s), n + 1)
<1> SUFFICES ASSUME NEW t, t = PdfStep(f, s) PROVE t \in PdfState(f) /\ PdfRight(f, t, n + 1)
  OBVIOUS
<1> DEFINE top == Head(s.stack)
           obj == f.objects[top.id]
           flaws == {"pdf_active_content", "image_dimension_limit"}
<1>1. CASE s.verdict # "none"
  <2>1. t = s
    BY <1>1, Zenon DEF PdfStep
  <2> QED BY <1>1, <2>1 DEF PdfRight
<1>2. CASE s.verdict = "none"
  <2>0. Walking(f, s, n)
    BY <1>2 DEF PdfRight, PdfRefusals
  <2>1. ASSUME NEW v \in PdfRefusals, t = [s EXCEPT !.verdict = v], ~(PdfClean(f) /\ PdfBounded(f))
        PROVE  t \in PdfState(f) /\ PdfRight(f, t, n + 1)
    <3>1. t \in PdfState(f) /\ t.verdict = v
      <4> QED BY <2>1 DEF PdfState
    <3> QED BY <2>1, <3>1 DEF PdfRight
  <2>2. CASE s.stack = <<>>
    <3>1. t = [s EXCEPT !.verdict = "accepted"]
      BY <1>2, <2>2, Zenon DEF PdfStep
    <3>2. PdfClean(f)
      BY <2>0, <2>2, WalkEnds
    <3>3. t \in PdfState(f) /\ t.verdict = "accepted"
      <4> QED BY <3>1 DEF PdfState
    <3> QED BY <3>2, <3>3 DEF PdfRight
  <2>3. CASE s.stack # <<>>
    <3>1. s.stack \in Seq(Entry(f)) /\ s.seen \in SUBSET Ids(f) /\ s.expanded \in Nat
      BY DEF PdfState
    <3>2. top \in Entry(f) /\ top \in Range(s.stack)
      BY <2>3, <3>1, StackParts
    <3>3. top.id \in Ids(f) /\ top.depth \in Nat /\ top.id \in PdfObjects(f) /\ PathTo(f, top, s.seen)
      <4> HIDE DEF top
      <4> QED BY <2>0, <3>2 DEF Walking, Entry
    <3>4. obj.size \in Nat /\ obj.flaw \in Flaws
      <4> HIDE DEF top
      <4> QED BY <3>3, GraphType
    <3>5. CASE top.depth > MaxDepth
      <4>1. t = [s EXCEPT !.verdict = "pdf_depth_limit"]
        BY <1>2, <2>3, <3>5, Zenon DEF PdfStep
      <4>2. ~PdfBounded(f)
        <5> HIDE DEF top
        <5> QED BY <3>1, <3>2, <3>3, <3>5, DeepPath DEF PdfBounded
      <4>3. "pdf_depth_limit" \in PdfRefusals
        BY DEF PdfRefusals
      <4> QED BY <2>1, <4>1, <4>2, <4>3
    <3>6. CASE ~(top.depth > MaxDepth) /\ top.id \in s.seen
      <4>1. t = [s EXCEPT !.stack = Tail(s.stack)]
        BY <1>2, <2>3, <3>6, Zenon DEF PdfStep
      <4>2. t \in PdfState(f) /\ Walking(f, t, n + 1)
        <5> QED BY <2>0, <2>3, <3>6, <4>1, WalkDrops
      <4>3. t.verdict = "none"
        <5> QED BY <1>2, <4>1 DEF PdfState
      <4> QED BY <4>2, <4>3 DEF PdfRight
    <3>7. CASE ~(top.depth > MaxDepth) /\ top.id \notin s.seen
      <4>0. /\ Cardinality(s.seen) + 1 > MaxObjects => ~PdfBounded(f)
            /\ s.expanded + obj.size > MaxExpanded => ~PdfClean(f)
        <5> HIDE DEF top
        <5> QED BY <2>0, <3>3, <3>7, NextObject
      <4>01. obj.flaw # "none" => ~PdfClean(f)
        <5> HIDE DEF top
        <5> QED BY <3>3 DEF PdfClean
      <4> DEFINE many == Cardinality(s.seen) + 1 > MaxObjects
                 large == s.expanded + obj.size > MaxExpanded
      <4>1. CASE obj.flaw = "unreadable"
        <5>1. t = [s EXCEPT !.verdict = "parser_rejected"]
          BY <1>2, <2>3, <3>7, <4>1, Zenon DEF PdfStep
        <5>2. "parser_rejected" \in PdfRefusals /\ obj.flaw # "none"
          BY <4>1 DEF PdfRefusals
        <5> HIDE DEF obj
        <5> QED BY <2>1, <4>01, <5>1, <5>2
      <4>2. CASE obj.flaw # "unreadable" /\ many
        <5>1. t = [s EXCEPT !.verdict = "pdf_object_limit"]
          BY <1>2, <2>3, <3>7, <4>2, Zenon DEF PdfStep
        <5>2. "pdf_object_limit" \in PdfRefusals
          BY DEF PdfRefusals
        <5> QED BY <2>1, <4>0, <4>2, <5>1, <5>2
      <4>3. CASE obj.flaw # "unreadable" /\ ~many /\ obj.flaw \in flaws
        <5>1. t = [s EXCEPT !.verdict = obj.flaw]
          BY <1>2, <2>3, <3>7, <4>3, Zenon DEF PdfStep
        <5>2. obj.flaw \in PdfRefusals /\ obj.flaw # "none"
          <6> HIDE DEF obj
          <6> QED BY <4>3 DEF PdfRefusals
        <5> HIDE DEF obj
        <5> QED BY <2>1, <4>01, <5>1, <5>2
      <4>4. CASE obj.flaw # "unreadable" /\ ~many /\ obj.flaw \notin flaws /\ obj.flaw = "undecodable"
        <5>1. t = [s EXCEPT !.verdict = "parser_rejected"]
          BY <1>2, <2>3, <3>7, <4>4, Zenon DEF PdfStep
        <5>2. "parser_rejected" \in PdfRefusals /\ obj.flaw # "none"
          BY <4>4 DEF PdfRefusals
        <5> HIDE DEF obj
        <5> QED BY <2>1, <4>01, <5>1, <5>2
      <4>5. CASE /\ obj.flaw # "unreadable" /\ ~many /\ obj.flaw \notin flaws /\ obj.flaw # "undecodable"
                 /\ large
        <5>1. t = [s EXCEPT !.verdict = "pdf_expansion_limit"]
          BY <1>2, <2>3, <3>7, <4>5, Zenon DEF PdfStep
        <5>2. "pdf_expansion_limit" \in PdfRefusals
          BY DEF PdfRefusals
        <5> QED BY <2>1, <4>0, <4>5, <5>1, <5>2
      <4>6. CASE /\ obj.flaw # "unreadable" /\ ~many /\ obj.flaw \notin flaws /\ obj.flaw # "undecodable"
                 /\ ~large /\ obj.flaw = "xml_dtd_forbidden"
        <5>1. t = [s EXCEPT !.verdict = obj.flaw]
          BY <1>2, <2>3, <3>7, <4>6, Zenon DEF PdfStep
        <5>2. obj.flaw \in PdfRefusals /\ obj.flaw # "none"
          <6> HIDE DEF obj
          <6> QED BY <4>6 DEF PdfRefusals
        <5> HIDE DEF obj
        <5> QED BY <2>1, <4>01, <5>1, <5>2
      <4>7. CASE /\ obj.flaw # "unreadable" /\ ~many /\ obj.flaw \notin flaws /\ obj.flaw # "undecodable"
                 /\ ~large /\ obj.flaw # "xml_dtd_forbidden" /\ obj.flaw = "malformed"
        <5>1. t = [s EXCEPT !.verdict = "parser_rejected"]
          BY <1>2, <2>3, <3>7, <4>7, Zenon DEF PdfStep
        <5>2. "parser_rejected" \in PdfRefusals /\ obj.flaw # "none"
          BY <4>7 DEF PdfRefusals
        <5> HIDE DEF obj
        <5> QED BY <2>1, <4>01, <5>1, <5>2
      <4>8. CASE /\ obj.flaw # "unreadable" /\ ~many /\ obj.flaw \notin flaws /\ obj.flaw # "undecodable"
                 /\ ~large /\ obj.flaw # "xml_dtd_forbidden" /\ obj.flaw # "malformed"
        <5>1. t = Visited(s, AtDepth(obj.refs, top.depth + 1) \o Tail(s.stack),
                          s.seen \cup {top.id}, s.expanded + obj.size)
          BY <1>2, <2>3, <3>7, <4>8, Zenon DEF PdfStep, Visited
        <5>2. obj.flaw = "none"
          <6> HIDE DEF obj
          <6> QED BY <3>4, <4>8 DEF Flaws
        <5>3. s.expanded + obj.size <= MaxExpanded
          <6> HIDE DEF obj
          <6> QED BY <3>1, <3>4, <4>8, IngressAssumption
        <5>4. /\ top \in Entry(f) /\ Tail(s.stack) \in Seq(Entry(f)) /\ Len(Tail(s.stack)) = Len(s.stack) - 1
              /\ Range(s.stack) = {top} \cup Range(Tail(s.stack))
          BY <2>3, <3>1, <3>2, StackParts, Zenon
        <5>5. t \in PdfState(f) /\ t.verdict = s.verdict /\ Walking(f, t, n + 1)
          <6> DEFINE u == Visited(s, AtDepth(obj.refs, top.depth + 1) \o Tail(s.stack),
                                  s.seen \cup {top.id}, s.expanded + obj.size)
          <6>1. u \in PdfState(f) /\ u.verdict = s.verdict /\ Walking(f, u, n + 1)
            <7> HIDE DEF top
            <7> QED BY <2>0, <3>7, <5>2, <5>3, <5>4, WalkSteps
          <6> QED BY <5>1, <6>1, Zenon
        <5> QED BY <1>2, <5>5, Zenon DEF PdfRight
      <4> HIDE DEF obj, top, flaws, many, large
      <4> QED BY <4>1, <4>2, <4>3, <4>4, <4>5, <4>6, <4>7, <4>8
    <3> HIDE DEF obj, top
    <3> QED BY <3>5, <3>6, <3>7
  <2> QED BY <2>2, <2>3
<1> QED BY <1>1, <1>2

\* The walk accepts only harmless graphs, and all of them that are within its limits.
LEMMA PdfExact ==
  ASSUME NEW f, IsGraph(f)
  PROVE  /\ PdfWalked(f) = "accepted" => PdfClean(f)
         /\ PdfClean(f) /\ PdfBounded(f) => PdfWalked(f) = "accepted"
         /\ PdfWalked(f) \in Verdicts
<1> DEFINE w == PdfWalk(f)
           rounds == PdfRounds(f)
           R == {n \in Nat : n <= rounds => w[n] \in PdfState(f) /\ PdfRight(f, w[n], n)}
<1>1. rounds \in Nat
  BY StartType
<1>2. w[0] = PdfFirst(f) /\ \A n \in 0 .. rounds - 1 : w[n + 1] = PdfStep(f, w[n])
  BY <1>1, PdfSteps
<1>3. PdfWalked(f) = w[rounds].verdict
  BY DEF PdfWalked, PdfRounds
<1> HIDE DEF w, rounds
<1>4. 0 \in R
  BY <1>2, StartWalks
<1>5. ASSUME NEW n \in Nat, n \in R PROVE n + 1 \in R
  <2> SUFFICES ASSUME n + 1 <= rounds PROVE w[n + 1] \in PdfState(f) /\ PdfRight(f, w[n + 1], n + 1)
    OBVIOUS
  <2>1. n \in 0 .. rounds - 1 /\ n <= rounds
    BY <1>1
  <2>2. w[n] \in PdfState(f) /\ PdfRight(f, w[n], n) /\ w[n + 1] = PdfStep(f, w[n])
    BY <1>2, <1>5, <2>1
  <2> QED BY <2>2, WalkRight
<1>6. w[rounds] \in PdfState(f) /\ PdfRight(f, w[rounds], rounds)
  <2>1. Nat \subseteq R
    <3> HIDE DEF R
    <3> QED BY <1>4, <1>5, NumberInduction
  <2> QED BY <1>1, <2>1
<1>7. ~Walking(f, w[rounds], rounds)
  <2> DEFINE s == w[rounds]
             left == Cardinality(Pairs(Counts(f), Ids(f) \ s.seen))
  <2>1. Len(s.stack) \in Nat
    BY <1>6 DEF PdfState
  <2>2. left \in Nat
    <3>1. IsFiniteSet(Ids(f) \ s.seen)
      BY GraphType, FS_Subset
    <3> QED BY <3>1, GraphType, PairsFinite
  <2>3. ~(Len(s.stack) + left + rounds < rounds)
    <3> HIDE DEF left, s
    <3> QED BY <1>1, <2>1, <2>2
  <2> QED BY <2>3 DEF Walking, rounds
<1>8. w[rounds].verdict \in Verdicts /\ "accepted" \notin PdfRefusals
  BY <1>6, <1>7 DEF PdfState, PdfRefusals, PdfRight, Verdicts, Refusals
<1>9. \/ w[rounds].verdict = "accepted" /\ PdfClean(f)
      \/ w[rounds].verdict \in PdfRefusals /\ ~(PdfClean(f) /\ PdfBounded(f))
  BY <1>6, <1>7, Zenon DEF PdfRight
<1> QED BY <1>3, <1>8, <1>9

----------------------------------------------------------------------------
(* The gate. *)

\* The gate for images accepts exactly those that are well formed and decode within the dimensions.
LEMMA ImageExact ==
  ASSUME NEW f, IsFile(f), f.kind \in {"PNG", "JPEG"}
  PROVE  /\ ImageGate(f) = "accepted" <=>
              /\ f.kind = "JPEG" => JpegWellFormed(f.bytes)
              /\ f.kind = "PNG" => PngWellFormed(f)
              /\ DimensionsOK(f.width, f.height) /\ f.frames = 1 /\ f.decodes
         /\ ImageGate(f) \in Verdicts
<1>1. CASE f.kind = "PNG"
  <2>1. (PngStructure(f) = "accepted" <=> PngWellFormed(f)) /\ PngStructure(f) \in Verdicts
    BY <1>1, PngExact DEF IsFile
  <2> QED BY <1>1, <2>1 DEF ImageGate, Verdicts, Refusals
<1>2. CASE f.kind = "JPEG"
  <2>1. IsBytes(f.bytes)
    BY <1>2 DEF IsFile, IsBytes
  <2>2. (JpegStructure(f.bytes) = "accepted" <=> JpegWellFormed(f.bytes)) /\ JpegStructure(f.bytes) \in Verdicts
    BY <2>1, JpegExact
  <2> QED BY <1>2, <2>2 DEF ImageGate, Verdicts, Refusals
<1> QED BY <1>1, <1>2

\* The gate for PDFs accepts only harmless ones, and all of them within the limits.
LEMMA PdfGateExact ==
  ASSUME NEW f, IsFile(f), f.kind = "PDF"
  PROVE  /\ PdfGate(f) = "accepted" => PdfHarmless(f)
         /\ PdfHarmless(f) /\ PdfBounded(f) => PdfGate(f) = "accepted"
         /\ PdfGate(f) \in Verdicts
<1>1. IsGraph(f)
  BY DEF IsFile
<1>2. /\ PdfWalked(f) = "accepted" => PdfClean(f)
      /\ PdfClean(f) /\ PdfBounded(f) => PdfWalked(f) = "accepted"
      /\ PdfWalked(f) \in Verdicts
  BY <1>1, PdfExact
<1>3. PdfHarmless(f) <=>
        f.eof /\ f.opens = "accepted" /\ f.pages \in 1 .. MaxPages /\ f.boxes = "accepted" /\ PdfClean(f)
  BY Zenon DEF PdfHarmless, PdfClean
<1>4. PdfGate(f) = "accepted" <=>
        /\ f.eof /\ f.opens = "accepted" /\ f.pages \in 1 .. MaxPages
        /\ PdfWalked(f) = "accepted" /\ f.boxes = "accepted"
  BY DEF PdfGate
<1>5. PdfGate(f) \in Verdicts
  <2>1. /\ f.opens \in {"accepted", "encrypted_pdf", "parser_rejected"}
        /\ f.boxes \in {"accepted", "pdf_page_dimensions", "parser_rejected"}
    BY DEF IsFile
  <2>2. {"encrypted_pdf", "parser_rejected", "pdf_page_dimensions", "pdf_trailing_or_incomplete",
         "pdf_page_limit", "accepted"} \subseteq Verdicts
    BY DEF Verdicts, Refusals
  <2> QED BY <1>2, <2>1, <2>2 DEF PdfGate
<1> QED BY <1>2, <1>3, <1>4, <1>5

\* The gate lets in only what the policy permits, and of that all it is able to walk.
THEOREM GateExact ==
  ASSUME NEW f, IsFile(f)
  PROVE  /\ Validate(f) = "accepted" => Permitted(f)
         /\ Permitted(f) /\ WithinLimits(f) => Validate(f) = "accepted"
         /\ Validate(f) \in Verdicts
<1>1. CASE f.kind \in {"PNG", "JPEG"}
  <2>1. Validate(f) = "accepted" <=> f.fits /\ ~f.zip /\ ImageGate(f) = "accepted"
    BY <1>1 DEF Validate
  <2>2. Validate(f) \in Verdicts
    BY <1>1, ImageExact DEF Validate, Verdicts, Refusals
  <2>3. Permitted(f) <=> f.fits /\ ~f.zip /\ ImageGate(f) = "accepted"
    BY <1>1, ImageExact DEF Permitted
  <2> QED BY <2>1, <2>2, <2>3
<1>2. CASE f.kind = "PDF"
  <2>1. Validate(f) = "accepted" <=> f.fits /\ ~f.zip /\ PdfGate(f) = "accepted"
    BY <1>2 DEF Validate
  <2>2. Validate(f) \in Verdicts
    BY <1>2, PdfGateExact DEF Validate, Verdicts, Refusals
  <2>3. Permitted(f) <=> f.fits /\ ~f.zip /\ PdfHarmless(f)
    BY <1>2 DEF Permitted
  <2>4. WithinLimits(f) <=> PdfBounded(f)
    BY <1>2 DEF WithinLimits, PdfBounded
  <2> QED BY <1>2, <2>1, <2>2, <2>3, <2>4, PdfGateExact
<1>3. CASE f.kind \notin {"PNG", "JPEG", "PDF"}
  <2>1. Validate(f) # "accepted" /\ Validate(f) \in Verdicts
    BY <1>3 DEF Validate, Verdicts, Refusals
  <2>2. ~Permitted(f)
    BY <1>3 DEF Permitted
  <2> QED BY <2>1, <2>2
<1> QED BY <1>1, <1>2, <1>3

----------------------------------------------------------------------------
(* The call. *)

\* Pages are read, and a call is accepted, only behind the gate; what is answered for the
\* structure of the file comes from the gate; and there is one answer and one result.
SandboxInv ==
  /\ TypeOK /\ IsFile(file)
  /\ phase \in {"pages", "score"} => Validate(file) = "accepted"
  /\ phase \in {"gate", "pages", "score"} => answer = None
  /\ phase = "gate" => texts = <<>>
  /\ result # None => phase \in {"answered", "dead"}
  /\ \A a \in {answer, result} \ {None} :
       /\ a.ok => Validate(file) = "accepted"
       /\ a.reason \in Refusals => Validate(file) # "accepted"

\* What the child and the parent may say.
LEMMA AnswersType ==
  /\ \A m \in BOOLEAN : Accepted(m) \in Answers /\ Accepted(m).ok /\ Accepted(m).reason \notin Refusals
  /\ \A r \in Reasons \cup Refusals : Refused(r) \in Answers /\ ~Refused(r).ok /\ Refused(r).reason = r
  /\ \A r \in Reasons : r \notin Refusals
  /\ None \notin Answers
<1>1. \A r \in Reasons : r \notin Refusals
  BY DEF Reasons, Refusals
<1>2. "none" \in Reasons
  BY DEF Reasons
<1>3. \A m \in BOOLEAN : Accepted(m) \in Answers /\ Accepted(m).ok /\ Accepted(m).reason \notin Refusals
  BY <1>1, <1>2 DEF Accepted, Answers
<1>4. \A r \in Reasons \cup Refusals : Refused(r) \in Answers /\ ~Refused(r).ok /\ Refused(r).reason = r
  BY DEF Refused, Answers
<1> QED BY <1>1, <1>3, <1>4, SandboxAssumption

\* What passed the gate has a page.
LEMMA AcceptedPages ==
  ASSUME IsFile(file), Validate(file) = "accepted"
  PROVE  Pages \in Nat /\ Pages >= 1
<1>1. CASE file.kind = "PDF"
  <2>1. file.pages \in 1 .. MaxPages
    BY <1>1, GateExact DEF Permitted, PdfHarmless
  <2> QED BY <1>1, <2>1, IngressAssumption DEF Pages
<1>2. CASE file.kind # "PDF"
  BY <1>2 DEF Pages
<1> QED BY <1>1, <1>2

\* A step in which the child says what it may say, and nothing else changes.
LEMMA SayKeeps ==
  ASSUME SandboxInv, phase \in {"gate", "pages", "score"}, NEW a \in Answers, Say(a),
         UNCHANGED <<file, ocr, texts, result>>,
         a.ok => Validate(file) = "accepted", a.reason \in Refusals => Validate(file) # "accepted"
  PROVE  SandboxInv'
<1>1. a # None /\ result = None
  BY AnswersType DEF SandboxInv
<1>2. TypeOK'
  BY <1>1 DEF SandboxInv, TypeOK, Say, Pages
<1>3. \A b \in {answer', result'} \ {None} : b = a
  BY <1>1 DEF Say
<1> QED BY <1>1, <1>2, <1>3 DEF SandboxInv, Say

\* A step in which the call returns what it may return.
LEMMA ReturnKeeps ==
  ASSUME SandboxInv, result = None, result' \in Answers, phase' \in {"answered", "dead"},
         UNCHANGED <<file, ocr, texts, answer>>, result'.ok => result' = answer,
         phase' = "answered" => phase = "answered",
         result' = answer \/ (~result'.ok /\ result'.reason \notin Refusals)
  PROVE  SandboxInv'
<1>1. TypeOK'
  BY DEF SandboxInv, TypeOK, Pages
<1>2. \A b \in {answer', result'} \ {None} : b = answer \/ (~b.ok /\ b.reason \notin Refusals)
  <2> SUFFICES ASSUME NEW b, b = answer' \/ b = result' PROVE b = answer \/ (~b.ok /\ b.reason \notin Refusals)
    OBVIOUS
  <2>1. CASE b = answer'
    BY <2>1
  <2>2. CASE b = result'
    BY <2>2, Zenon
  <2> QED BY <2>1, <2>2
<1> QED BY <1>1, <1>2 DEF SandboxInv

\* The invariant holds when the call is made.
LEMMA SandboxInit ==
  Init => SandboxInv
<1> SUFFICES ASSUME Init PROVE SandboxInv
  OBVIOUS
<1>1. IsFile(file)
  BY SandboxAssumption DEF Init
<1>2. Pages \in Nat
  BY <1>1 DEF Pages, IsFile
<1>3. TypeOK
  <2>1. texts \in Seq(PageTexts) /\ Len(texts) = 0
    BY DEF Init
  <2> QED BY <1>2, <2>1 DEF Init, TypeOK
<1> QED BY <1>1, <1>3 DEF Init, SandboxInv

\* Every step of the child and of the parent keeps the invariant.
LEMMA SandboxStep ==
  SandboxInv /\ [Next]_vars => SandboxInv'
<1> SUFFICES ASSUME SandboxInv, [Next]_vars PROVE SandboxInv'
  OBVIOUS
<1>0. Validate(file) \in {"accepted"} \cup Refusals
  BY GateExact DEF SandboxInv, Verdicts
<1>1. CASE Gate
  <2>1. CASE Validate(file) # "accepted"
    <3>1. Say(Refused(Validate(file))) /\ phase = "gate" /\ UNCHANGED <<file, ocr, texts, result>>
      BY <1>1, <2>1 DEF Gate
    <3>2. Refused(Validate(file)) \in Answers /\ ~Refused(Validate(file)).ok
      BY <1>0, <2>1, AnswersType
    <3> QED BY <2>1, <3>1, <3>2, SayKeeps
  <2>2. CASE Validate(file) = "accepted" /\ ocr = None
    <3>1. Say(Accepted(FALSE)) /\ phase = "gate" /\ UNCHANGED <<file, ocr, texts, result>>
      BY <1>1, <2>2 DEF Gate
    <3> QED BY <2>2, <3>1, AnswersType, SayKeeps
  <2>3. CASE Validate(file) = "accepted" /\ ocr # None /\ Len(ocr) > MaxTerms
    <3>1. /\ Say(Refused("ocr_expected_term_limit")) /\ phase = "gate"
          /\ UNCHANGED <<file, ocr, texts, result>>
      BY <1>1, <2>3 DEF Gate
    <3>2. "ocr_expected_term_limit" \in Reasons
      BY DEF Reasons
    <3> QED BY <2>3, <3>1, <3>2, AnswersType, SayKeeps
  <2>4. CASE Validate(file) = "accepted" /\ ocr # None /\ ~(Len(ocr) > MaxTerms)
    <3>1. phase = "gate" /\ phase' = "pages" /\ UNCHANGED <<file, ocr, texts, answer, result>>
      BY <1>1, <2>4 DEF Gate
    <3>2. texts = <<>> /\ Len(texts) = 0 /\ Pages \in Nat /\ Pages >= 1
      BY <2>4, <3>1, AcceptedPages DEF SandboxInv
    <3>3. TypeOK'
      <4>1. Pages' = Pages
        BY <3>1 DEF Pages
      <4> QED BY <3>1, <3>2, <4>1 DEF SandboxInv, TypeOK
    <3> QED BY <2>4, <3>1, <3>3 DEF SandboxInv
  <2> QED BY <2>1, <2>2, <2>3, <2>4
<1>2. CASE ReadPage
  <2>1. PICK t \in PageTexts : texts' = Append(texts, t)
    BY <1>2 DEF ReadPage
  <2>2. /\ phase = "pages" /\ phase' = (IF Len(texts) + 1 = Pages THEN "score" ELSE "pages")
        /\ UNCHANGED <<file, ocr, answer, result>>
    BY <1>2 DEF ReadPage
  <2>3. texts \in Seq(PageTexts) /\ Len(texts) < Pages /\ Pages \in Nat
    BY <2>2, AcceptedPages DEF SandboxInv, TypeOK
  <2>4. texts' \in Seq(PageTexts) /\ Len(texts') = Len(texts) + 1 /\ Len(texts) \in Nat
    BY <2>1, <2>3
  <2>5. Len(texts') <= Pages' /\ (phase' = "pages" => Len(texts') < Pages') /\ phase' \in {"pages", "score"}
    <3>1. Pages' = Pages
      BY <2>2 DEF Pages
    <3> QED BY <2>2, <2>3, <2>4, <3>1
  <2>6. TypeOK'
    BY <2>2, <2>4, <2>5 DEF SandboxInv, TypeOK
  <2> QED BY <2>2, <2>5, <2>6 DEF SandboxInv
<1>3. CASE ToolFails
  <2>1. Say(Refused("tool")) /\ phase = "pages" /\ UNCHANGED <<file, ocr, texts, result>>
    BY <1>3 DEF ToolFails
  <2>2. "tool" \in Reasons
    BY DEF Reasons
  <2> QED BY <2>1, <2>2, AnswersType, SayKeeps
<1>4. CASE Score
  <2>1. phase = "score" /\ UNCHANGED <<file, ocr, texts, result>> /\ Validate(file) = "accepted"
    BY <1>4 DEF Score, SandboxInv
  <2>2. Say(Refused("ocr_comparison_limit")) \/ \E m \in BOOLEAN : Say(Accepted(m))
    BY <1>4 DEF Score
  <2>3. "ocr_comparison_limit" \in Reasons
    BY DEF Reasons
  <2> QED BY <2>1, <2>2, <2>3, AnswersType, SayKeeps
<1>5. CASE Die
  <2>1. phase \in {"gate", "pages", "score"} /\ phase' = "dead" /\ UNCHANGED <<file, ocr, texts, answer, result>>
    BY <1>5 DEF Die
  <2>2. TypeOK'
    BY <2>1 DEF SandboxInv, TypeOK, Pages
  <2> QED BY <2>1, <2>2 DEF SandboxInv
<1>6. CASE Return
  <2>1. result = None /\ phase \in {"answered", "dead"} /\ UNCHANGED <<file, ocr, phase, texts, answer>>
    BY <1>6 DEF Return
  <2>2. CASE phase = "dead"
    <3>1. result' = Refused("worker_resource_or_process_failure")
      BY <1>6, <2>2 DEF Return
    <3>2. "worker_resource_or_process_failure" \in Reasons
      BY DEF Reasons
    <3> QED BY <2>1, <2>2, <3>1, <3>2, AnswersType, ReturnKeeps
  <2>3. CASE phase = "answered"
    <3>1. result' = answer
      BY <1>6, <2>3 DEF Return
    <3>2. answer \in Answers
      BY <2>3 DEF SandboxInv, TypeOK
    <3>3. /\ result' \in Answers /\ phase' \in {"answered", "dead"} /\ UNCHANGED <<file, ocr, texts, answer>>
          /\ phase' = "answered" => phase = "answered"
      BY <2>1, <3>1, <3>2
    <3> QED BY <2>1, <2>3, <3>1, <3>3, ReturnKeeps, Zenon
  <2> QED BY <2>1, <2>2, <2>3
<1>7. CASE GiveUp
  <2>1. /\ result = None /\ result' = Refused("worker_wall_timeout") /\ phase' = "dead"
        /\ UNCHANGED <<file, ocr, texts, answer>>
    BY <1>7 DEF GiveUp
  <2>2. "worker_wall_timeout" \in Reasons
    BY DEF Reasons
  <2> QED BY <2>1, <2>2, AnswersType, ReturnKeeps
<1>8. CASE UNCHANGED vars
  <2>1. TypeOK'
    BY <1>8 DEF SandboxInv, TypeOK, Pages, vars
  <2> QED BY <1>8, <2>1 DEF SandboxInv, vars
<1> QED BY <1>1, <1>2, <1>3, <1>4, <1>5, <1>6, <1>7, <1>8 DEF Next

\* Behind main() and isolated(): nothing is read, answered or accepted without the gate's consent,
\* and what is refused for its structure the gate refused.
THEOREM SandboxInvariant ==
  Spec => []SandboxInv
<1>1. Init => SandboxInv
  BY SandboxInit
<1>2. SandboxInv /\ [Next]_vars => SandboxInv'
  BY SandboxStep
<1> QED BY <1>1, <1>2, PTL DEF Spec

\* The phases, the pages read so far, the answers and the result of a call are what they may be.
THEOREM SandboxTypeCorrect ==
  Spec => []TypeOK
<1>1. SandboxInv => TypeOK
  BY DEF SandboxInv
<1> QED BY <1>1, SandboxInvariant, PTL

\* Whatever isolated() accepts is a file the ingress policy permits, down to its last byte,
\* chunk and object.
THEOREM AcceptedIsPermittedHolds ==
  Spec => []AcceptedIsPermitted
<1>1. SandboxInv => AcceptedIsPermitted
  BY GateExact DEF SandboxInv, AcceptedIsPermitted
<1> QED BY <1>1, SandboxInvariant, PTL

\* Whatever it refuses for its structure is not permitted, or is a PDF beyond the limits of
\* the walk.
THEOREM RefusedForCauseHolds ==
  Spec => []RefusedForCause
<1>1. SandboxInv => RefusedForCause
  BY GateExact DEF SandboxInv, RefusedForCause
<1> QED BY <1>1, SandboxInvariant, PTL

----------------------------------------------------------------------------
(* The edits of a text. *)

\* A letter is where it was put in, and what stood there and after moves on.
Inserted(w, s, i, e) ==
  /\ Len(w) = Len(s) + 1 /\ w[i] = e
  /\ \A j \in 1 .. Len(s) + 1 : (j < i => w[j] = s[j]) /\ (j > i => w[j] = s[j - 1])

\* InsertAt does so.
LEMMA InsertIs ==
  ASSUME NEW S, NEW s \in Seq(S), NEW i \in 1 .. Len(s) + 1, NEW e \in S
  PROVE  InsertAt(s, i, e) \in Seq(S) /\ Inserted(InsertAt(s, i, e), s, i, e)
<1> DEFINE a == SubSeq(s, 1, i - 1)
           b == SubSeq(s, i, Len(s))
<1>0. Len(s) \in Nat /\ i \in Nat /\ i >= 1
  BY LenProperties
<1>1. a \in Seq(S) /\ Len(a) = i - 1 /\ \A j \in 1 .. i - 1 : a[j] = s[j]
  <2>1. i - 1 \in Int /\ \A j \in 1 .. i - 1 : s[j] \in S
    BY <1>0, ElementOfSeq
  <2> QED BY <1>0, <2>1, SubSeqProperties
<1>2. b \in Seq(S) /\ Len(b) = Len(s) - i + 1 /\ \A j \in 1 .. Len(s) - i + 1 : b[j] = s[i + j - 1]
  <2>1. \A j \in i .. Len(s) : s[j] \in S
    BY <1>0, ElementOfSeq
  <2> QED BY <1>0, <2>1, SubSeqProperties
<1>3. InsertAt(s, i, e) = (a \o <<e>>) \o b
  BY DEF InsertAt
<1> HIDE DEF a, b
<1>4. <<e>> \in Seq(S) /\ Len(<<e>>) = 1 /\ <<e>>[1] = e
  OBVIOUS
<1>5. a \o <<e>> \in Seq(S) /\ Len(a \o <<e>>) = i
      /\ \A j \in 1 .. i : (a \o <<e>>)[j] = IF j <= i - 1 THEN a[j] ELSE <<e>>[j - (i - 1)]
  BY <1>0, <1>1, <1>4, ConcatProperties
<1>6. /\ (a \o <<e>>) \o b \in Seq(S) /\ Len((a \o <<e>>) \o b) = Len(s) + 1
      /\ \A j \in 1 .. Len(s) + 1 : ((a \o <<e>>) \o b)[j] = IF j <= i THEN (a \o <<e>>)[j] ELSE b[j - i]
  <2> DEFINE p == a \o <<e>>
  <2>1. p \in Seq(S) /\ Len(p) = i
    BY <1>5
  <2> HIDE DEF p
  <2>2. b \in Seq(S) /\ Len(b) = Len(s) - i + 1
    BY <1>2
  <2>3. /\ p \o b \in Seq(S) /\ Len(p \o b) = Len(p) + Len(b)
        /\ \A j \in 1 .. Len(p) + Len(b) : (p \o b)[j] = IF j <= Len(p) THEN p[j] ELSE b[j - Len(p)]
    BY <2>1, <2>2, ConcatProperties, Zenon
  <2>4. Len(p) + Len(b) = Len(s) + 1
    BY <1>0, <2>1, <2>2
  <2>5. /\ p \o b \in Seq(S) /\ Len(p \o b) = Len(s) + 1
        /\ \A j \in 1 .. Len(s) + 1 : (p \o b)[j] = IF j <= i THEN p[j] ELSE b[j - i]
    BY <2>1, <2>3, <2>4, Zenon
  <2> QED BY <2>5 DEF p
<1>7. ASSUME NEW j \in 1 .. Len(s) + 1, j < i PROVE ((a \o <<e>>) \o b)[j] = s[j]
  BY <1>0, <1>1, <1>5, <1>6, <1>7
<1>8. ((a \o <<e>>) \o b)[i] = e
  BY <1>0, <1>4, <1>5, <1>6
<1>9. ASSUME NEW j \in 1 .. Len(s) + 1, j > i PROVE ((a \o <<e>>) \o b)[j] = s[j - 1]
  <2>1. j - i \in 1 .. Len(s) - i + 1 /\ i + (j - i) - 1 = j - 1 /\ ~(j <= i)
    BY <1>0, <1>9
  <2>2. b[j - i] = s[j - 1]
    BY <1>2, <2>1, Zenon
  <2>3. ((a \o <<e>>) \o b)[j] = b[j - i]
    BY <1>6, <2>1, Zenon
  <2> QED BY <2>2, <2>3, Zenon
<1> QED BY <1>3, <1>6, <1>7, <1>8, <1>9, Zenon DEF Inserted

\* A letter taken out leaves what stood before, and what stood after one place earlier.
LEMMA RemoveIs ==
  ASSUME NEW S, NEW s \in Seq(S), NEW i \in 1 .. Len(s)
  PROVE  /\ RemoveAt(s, i) \in Seq(S) /\ Len(RemoveAt(s, i)) = Len(s) - 1
         /\ \A j \in 1 .. Len(s) - 1 : RemoveAt(s, i)[j] = IF j < i THEN s[j] ELSE s[j + 1]
<1> DEFINE a == SubSeq(s, 1, i - 1)
           b == SubSeq(s, i + 1, Len(s))
<1>0. Len(s) \in Nat /\ i \in Nat /\ i >= 1
  BY LenProperties
<1>1. a \in Seq(S) /\ Len(a) = i - 1 /\ \A j \in 1 .. i - 1 : a[j] = s[j]
  <2>1. i - 1 \in Int /\ \A j \in 1 .. i - 1 : s[j] \in S
    BY <1>0, ElementOfSeq
  <2> QED BY <1>0, <2>1, SubSeqProperties
<1>2. b \in Seq(S) /\ Len(b) = Len(s) - i /\ \A j \in 1 .. Len(s) - i : b[j] = s[i + j]
  <2>1. i + 1 \in Int /\ \A j \in i + 1 .. Len(s) : s[j] \in S
    BY <1>0, ElementOfSeq
  <2>2. /\ b \in Seq(S) /\ Len(b) = IF i + 1 <= Len(s) THEN Len(s) - (i + 1) + 1 ELSE 0
        /\ \A j \in 1 .. Len(s) - (i + 1) + 1 : b[j] = s[(i + 1) + j - 1]
    BY <1>0, <2>1, SubSeqProperties
  <2> HIDE DEF b
  <2> QED BY <1>0, <2>2
<1>3. RemoveAt(s, i) = a \o b
  BY DEF RemoveAt
<1> HIDE DEF a, b
<1>4. /\ a \o b \in Seq(S) /\ Len(a \o b) = Len(s) - 1
      /\ \A j \in 1 .. Len(s) - 1 : (a \o b)[j] = IF j <= i - 1 THEN a[j] ELSE b[j - (i - 1)]
  <2>1. /\ a \o b \in Seq(S) /\ Len(a \o b) = Len(a) + Len(b)
        /\ \A j \in 1 .. Len(a) + Len(b) : (a \o b)[j] = IF j <= Len(a) THEN a[j] ELSE b[j - Len(a)]
    BY <1>1, <1>2, ConcatProperties, Zenon
  <2>2. Len(a) = i - 1 /\ Len(a) + Len(b) = Len(s) - 1
    BY <1>0, <1>1, <1>2
  <2> QED BY <2>1, <2>2, Zenon
<1>5. ASSUME NEW j \in 1 .. Len(s) - 1 PROVE (a \o b)[j] = IF j < i THEN s[j] ELSE s[j + 1]
  <2>1. CASE j < i
    BY <1>0, <1>1, <1>4, <2>1
  <2>2. CASE j >= i
    <3>1. j - (i - 1) \in 1 .. Len(s) - i /\ i + (j - (i - 1)) = j + 1 /\ ~(j <= i - 1) /\ ~(j < i)
      BY <1>0, <2>2
    <3>2. b[j - (i - 1)] = s[j + 1]
      BY <1>2, <3>1, Zenon
    <3>3. (a \o b)[j] = b[j - (i - 1)]
      BY <1>4, <3>1, Zenon
    <3>4. (a \o b)[j] = s[j + 1]
      BY <3>2, <3>3, Zenon
    <3> QED BY <3>1, <3>4
  <2>3. j < i \/ j >= i
    BY <1>0
  <2> QED BY <2>1, <2>2, <2>3
<1> QED BY <1>3, <1>4, <1>5

\* The three kinds of edit, and that all yield letters.
LEMMA OneEditIs ==
  ASSUME NEW s \in Seq(Letters), NEW u \in OneEdit(s)
  PROVE  /\ u \in Seq(Letters)
         /\ \/ \E i \in 1 .. Len(s) + 1, c \in Letters : u = InsertAt(s, i, c)
            \/ \E i \in 1 .. Len(s), c \in Letters : u = ReplaceAt(s, i, c)
            \/ \E i \in 1 .. Len(s) : u = RemoveAt(s, i)
<1>1. DOMAIN s = 1 .. Len(s)
  BY LenProperties
<1>2. \/ \E i \in 1 .. Len(s) + 1, c \in Letters : u = InsertAt(s, i, c)
      \/ \E i \in 1 .. Len(s), c \in Letters : u = ReplaceAt(s, i, c)
      \/ \E i \in 1 .. Len(s) : u = RemoveAt(s, i)
  BY <1>1 DEF OneEdit
<1>3. \A i \in 1 .. Len(s) + 1, c \in Letters : InsertAt(s, i, c) \in Seq(Letters)
  BY InsertIs
<1>4. \A i \in 1 .. Len(s), c \in Letters : ReplaceAt(s, i, c) \in Seq(Letters)
  BY ExceptSeq DEF ReplaceAt
<1>5. \A i \in 1 .. Len(s) : RemoveAt(s, i) \in Seq(Letters)
  BY RemoveIs
<1> QED BY <1>2, <1>3, <1>4, <1>5

\* An edit of a text is an edit of the text with one more letter.
LEMMA EditAppend ==
  ASSUME NEW s \in Seq(Letters), NEW u \in OneEdit(s), NEW d \in Letters
  PROVE  Append(u, d) \in OneEdit(Append(s, d))
<1> DEFINE t == Append(s, d)
           v == Append(u, d)
<1>0. u \in Seq(Letters) /\ Len(s) \in Nat /\ Len(u) \in Nat
  BY OneEditIs, LenProperties
<1>1. /\ t \in Seq(Letters) /\ Len(t) = Len(s) + 1 /\ DOMAIN t = 1 .. Len(t)
      /\ t[Len(s) + 1] = d /\ \A j \in 1 .. Len(s) : t[j] = s[j]
  BY <1>0, AppendProperties, LenProperties
<1>2. /\ v \in Seq(Letters) /\ Len(v) = Len(u) + 1
      /\ v[Len(u) + 1] = d /\ \A j \in 1 .. Len(u) : v[j] = u[j]
  BY <1>0, AppendProperties
<1> HIDE DEF t, v
<1>3. ASSUME NEW i \in 1 .. Len(s) + 1, NEW c \in Letters, u = InsertAt(s, i, c) PROVE v \in OneEdit(t)
  <2>1. i \in 1 .. Len(t) + 1
    BY <1>0, <1>1
  <2> DEFINE w == InsertAt(t, i, c)
  <2>2. /\ w \in Seq(Letters) /\ Len(w) = Len(t) + 1
        /\ w[i] = c /\ \A j \in 1 .. Len(t) + 1 : (j < i => w[j] = t[j]) /\ (j > i => w[j] = t[j - 1])
    <3>1. w \in Seq(Letters) /\ Inserted(w, t, i, c)
      BY <1>1, <2>1, InsertIs, Zenon
    <3> QED BY <3>1, Zenon DEF Inserted
  <2>3. /\ Len(u) = Len(s) + 1
        /\ u[i] = c /\ \A j \in 1 .. Len(s) + 1 : (j < i => u[j] = s[j]) /\ (j > i => u[j] = s[j - 1])
    <3>1. Inserted(u, s, i, c)
      BY <1>3, InsertIs, Zenon
    <3> QED BY <3>1, Zenon DEF Inserted
  <2>4. w \in OneEdit(t)
    BY <2>1 DEF OneEdit
  <2> HIDE DEF w
  <2>5. Len(w) = Len(v)
    BY <1>0, <1>1, <1>2, <2>2, <2>3
  <2>6. ASSUME NEW j \in 1 .. Len(v) PROVE v[j] = w[j]
    <3>1. CASE j = Len(u) + 1
      BY <1>0, <1>1, <1>2, <2>2, <2>3, <3>1
    <3>2. CASE j \in 1 .. Len(u)
      <4>1. v[j] = u[j] /\ j \in 1 .. Len(s) + 1 /\ j \in 1 .. Len(t) + 1
        BY <1>0, <1>1, <1>2, <2>3, <3>2
      <4>2. CASE j < i
        <5>1. j \in 1 .. Len(s)
          BY <1>0, <4>1, <4>2
        <5> QED BY <1>1, <2>2, <2>3, <4>1, <4>2, <5>1, Zenon
      <4>3. CASE j = i
        BY <2>2, <2>3, <4>1, <4>3, Zenon
      <4>4. CASE j > i
        <5>1. j - 1 \in 1 .. Len(s)
          BY <1>0, <4>1, <4>4
        <5> QED BY <1>1, <2>2, <2>3, <4>1, <4>4, <5>1, Zenon
      <4>5. j < i \/ j = i \/ j > i
        BY <4>1
      <4> QED BY <4>2, <4>3, <4>4, <4>5
    <3> QED BY <1>0, <1>2, <3>1, <3>2
  <2>7. v = w
    BY <1>2, <2>2, <2>5, <2>6, SeqEqual
  <2> QED BY <2>4, <2>7
<1>4. ASSUME NEW i \in 1 .. Len(s), NEW c \in Letters, u = ReplaceAt(s, i, c) PROVE v \in OneEdit(t)
  <2>1. i \in 1 .. Len(t)
    BY <1>0, <1>1
  <2> DEFINE w == ReplaceAt(t, i, c)
  <2>2. /\ w \in Seq(Letters) /\ Len(w) = Len(t)
        /\ \A j \in 1 .. Len(t) : w[j] = IF j = i THEN c ELSE t[j]
    BY <1>1, <2>1, ExceptSeq DEF ReplaceAt
  <2>3. Len(u) = Len(s) /\ \A j \in 1 .. Len(s) : u[j] = IF j = i THEN c ELSE s[j]
    BY <1>4, ExceptSeq DEF ReplaceAt
  <2>4. w \in OneEdit(t)
    BY <1>1, <2>1 DEF OneEdit
  <2> HIDE DEF w
  <2>5. Len(w) = Len(v)
    BY <1>0, <1>1, <1>2, <2>2, <2>3
  <2>6. ASSUME NEW j \in 1 .. Len(v) PROVE v[j] = w[j]
    <3>1. CASE j = Len(u) + 1
      BY <1>0, <1>1, <1>2, <2>2, <2>3, <3>1
    <3>2. CASE j \in 1 .. Len(u)
      BY <1>0, <1>1, <1>2, <2>2, <2>3, <3>2
    <3> QED BY <1>0, <1>2, <3>1, <3>2
  <2>7. v = w
    BY <1>2, <2>2, <2>5, <2>6, SeqEqual
  <2> QED BY <2>4, <2>7
<1>5. ASSUME NEW i \in 1 .. Len(s), u = RemoveAt(s, i) PROVE v \in OneEdit(t)
  <2>1. i \in 1 .. Len(t)
    BY <1>0, <1>1
  <2> DEFINE w == RemoveAt(t, i)
  <2>2. /\ w \in Seq(Letters) /\ Len(w) = Len(t) - 1
        /\ \A j \in 1 .. Len(t) - 1 : w[j] = IF j < i THEN t[j] ELSE t[j + 1]
    BY <1>1, <2>1, RemoveIs
  <2>3. Len(u) = Len(s) - 1 /\ \A j \in 1 .. Len(s) - 1 : u[j] = IF j < i THEN s[j] ELSE s[j + 1]
    BY <1>5, RemoveIs
  <2>4. w \in OneEdit(t)
    BY <1>1, <2>1 DEF OneEdit
  <2> HIDE DEF w
  <2>5. Len(w) = Len(v)
    BY <1>0, <1>1, <1>2, <2>2, <2>3
  <2>6. ASSUME NEW j \in 1 .. Len(v) PROVE v[j] = w[j]
    <3>1. CASE j = Len(u) + 1
      BY <1>0, <1>1, <1>2, <2>2, <2>3, <3>1
    <3>2. CASE j \in 1 .. Len(u)
      <4>1. /\ v[j] = u[j] /\ j \in 1 .. Len(s) - 1 /\ j \in 1 .. Len(t) - 1
            /\ j \in 1 .. Len(s) /\ j + 1 \in 1 .. Len(s)
        BY <1>0, <1>1, <1>2, <2>3, <3>2
      <4> QED BY <1>1, <2>2, <2>3, <4>1
    <3> QED BY <1>0, <1>2, <3>1, <3>2
  <2>7. v = w
    BY <1>2, <2>2, <2>5, <2>6, SeqEqual
  <2> QED BY <2>4, <2>7
<1> QED BY <1>3, <1>4, <1>5, OneEditIs DEF t, v

\* One more letter, one letter less, and another last letter are edits.
LEMMA EditLast ==
  ASSUME NEW s \in Seq(Letters), NEW c \in Letters, NEW d \in Letters
  PROVE  /\ Append(s, c) \in OneEdit(s)
         /\ s \in OneEdit(Append(s, c))
         /\ Append(s, d) \in OneEdit(Append(s, c))
<1> DEFINE t == Append(s, c)
           v == Append(s, d)
<1>0. Len(s) \in Nat
  BY LenProperties
<1>1. /\ t \in Seq(Letters) /\ Len(t) = Len(s) + 1 /\ DOMAIN t = 1 .. Len(t)
      /\ t[Len(s) + 1] = c /\ \A j \in 1 .. Len(s) : t[j] = s[j]
  BY <1>0, AppendProperties, LenProperties
<1>2. /\ v \in Seq(Letters) /\ Len(v) = Len(s) + 1
      /\ v[Len(s) + 1] = d /\ \A j \in 1 .. Len(s) : v[j] = s[j]
  BY <1>0, AppendProperties
<1> HIDE DEF t, v
<1>3. t \in OneEdit(s)
  <2> DEFINE w == InsertAt(s, Len(s) + 1, c)
  <2>1. Len(s) + 1 \in 1 .. Len(s) + 1
    BY <1>0
  <2>2. /\ w \in Seq(Letters) /\ Len(w) = Len(s) + 1
        /\ w[Len(s) + 1] = c /\ \A j \in 1 .. Len(s) + 1 : j < Len(s) + 1 => w[j] = s[j]
    <3> DEFINE i == Len(s) + 1
    <3>1. i \in 1 .. Len(s) + 1
      BY <2>1
    <3> HIDE DEF i
    <3>2. InsertAt(s, i, c) \in Seq(Letters) /\ Inserted(InsertAt(s, i, c), s, i, c)
      BY <3>1, InsertIs, Zenon
    <3>3. /\ InsertAt(s, i, c) \in Seq(Letters) /\ Len(InsertAt(s, i, c)) = Len(s) + 1
          /\ InsertAt(s, i, c)[i] = c /\ \A j \in 1 .. Len(s) + 1 : j < i => InsertAt(s, i, c)[j] = s[j]
      BY <3>2, Zenon DEF Inserted
    <3> QED BY <3>3, Zenon DEF i
  <2>3. w \in OneEdit(s)
    BY <2>1 DEF OneEdit
  <2> HIDE DEF w
  <2>4. \A j \in 1 .. Len(t) : t[j] = w[j]
    BY <1>0, <1>1, <2>2
  <2>5. t = w
    BY <1>1, <2>2, <2>4, SeqEqual
  <2> QED BY <2>3, <2>5
<1>4. s \in OneEdit(t)
  <2> DEFINE w == RemoveAt(t, Len(s) + 1)
  <2>1. Len(s) + 1 \in 1 .. Len(t)
    BY <1>0, <1>1
  <2>2. /\ w \in Seq(Letters) /\ Len(w) = Len(t) - 1
        /\ \A j \in 1 .. Len(t) - 1 : w[j] = IF j < Len(s) + 1 THEN t[j] ELSE t[j + 1]
    BY <1>1, <2>1, RemoveIs
  <2>3. w \in OneEdit(t)
    BY <1>1, <2>1 DEF OneEdit
  <2> HIDE DEF w
  <2>4. Len(s) = Len(w) /\ \A j \in 1 .. Len(s) : s[j] = w[j]
    BY <1>0, <1>1, <2>2
  <2>5. s = w
    BY <2>2, <2>4, SeqEqual
  <2> QED BY <2>3, <2>5
<1>5. v \in OneEdit(t)
  <2> DEFINE w == ReplaceAt(t, Len(s) + 1, d)
  <2>1. Len(s) + 1 \in 1 .. Len(t)
    BY <1>0, <1>1
  <2>2. /\ w \in Seq(Letters) /\ Len(w) = Len(t)
        /\ \A j \in 1 .. Len(t) : w[j] = IF j = Len(s) + 1 THEN d ELSE t[j]
    BY <1>1, <2>1, ExceptSeq DEF ReplaceAt
  <2>3. w \in OneEdit(t)
    BY <1>1, <2>1 DEF OneEdit
  <2> HIDE DEF w
  <2>4. Len(v) = Len(w) /\ \A j \in 1 .. Len(v) : v[j] = w[j]
    BY <1>0, <1>1, <1>2, <2>2
  <2>5. v = w
    BY <1>2, <2>2, <2>4, SeqEqual
  <2> QED BY <2>3, <2>5
<1> QED BY <1>3, <1>4, <1>5 DEF t, v

----------------------------------------------------------------------------
(* ocr_score: one round of the loop. *)

\* What the comparison of two letters costs.
Differs(c, d) == IF c = d THEN 0 ELSE 1

\* The rows of the table: the costs for each prefix of the term.
CostRow(term) == [0 .. Len(term) -> Nat]

\* A round of the loop is what its code says: the least of three costs at each letter of the
\* term.
LEMMA EditRowIs ==
  ASSUME NEW term \in Seq(Letters), NEW p \in CostRow(term), NEW c
  PROVE  LET r == EditRow(term, p, c) IN
         /\ r \in CostRow(term) /\ r[0] = 0
         /\ \A i \in 1 .. Len(term) :
              r[i] = Min({p[i] + 1, r[i - 1] + 1, p[i - 1] + Differs(c, term[i])})
<1> DEFINE m == Len(term)
           Least(i, x) == Min({p[i] + 1, x + 1, p[i - 1] + Differs(c, term[i])})
           F == [i \in Nat |-> [x \in Nat |-> IF i \in 1 .. m THEN Least(i, x) ELSE x]]
<1>0. m \in Nat
  BY LenProperties
<1> HIDE DEF m
<1>1. ASSUME NEW i \in 1 .. m, NEW x \in Nat PROVE Least(i, x) \in Nat
  <2>1. p[i] + 1 \in Nat /\ x + 1 \in Nat /\ p[i - 1] + Differs(c, term[i]) \in Nat
    BY <1>0 DEF CostRow, Differs, m
  <2> QED BY <2>1, LeastOfThree
<1> HIDE DEF Least
<1>2. F \in Rounds(Nat)
  BY <1>1 DEF Rounds
<1>3. PICK h : IsTable(h, Nat, 0, m, F)
  <2>1. 0 \in Nat
    OBVIOUS
  <2> HIDE DEF F
  <2> QED BY <1>0, <1>2, <2>1, TableUpTo, Zenon
<1>4. ASSUME NEW i \in 0 .. m, i # 0 PROVE F[i][h[i - 1]] = Least(i, h[i - 1])
  <2>1. i \in Nat /\ i \in 1 .. m /\ i - 1 \in 0 .. m
    BY <1>0, <1>4
  <2>2. h[i - 1] \in Nat
    BY <1>3, <2>1 DEF IsTable
  <2> QED BY <2>1, <2>2
<1>5. 0 \in 0 .. m
  BY <1>0
<1>6. h = [i \in 0 .. m |-> IF i = 0 THEN 0 ELSE Least(i, h[i - 1])]
  <2> HIDE DEF F
  <2> QED BY <1>3, <1>4 DEF IsTable
<1> DEFINE r == EditRow(term, p, c)
<1>7. r = [i \in 0 .. m |-> IF i = 0 THEN 0 ELSE Least(i, r[i - 1])]
  <2>1. \E current : current = [i \in 0 .. m |-> IF i = 0 THEN 0 ELSE Least(i, current[i - 1])]
    BY <1>6
  <2> QED BY <2>1, Zenon DEF EditRow, Least, m, Differs
<1> HIDE DEF r
<1>8. r[0] = 0
  BY <1>5, <1>7
<1>9. ASSUME NEW i \in 1 .. m PROVE r[i] = Least(i, r[i - 1])
  <2>1. i \in 0 .. m /\ i # 0
    BY <1>0
  <2> QED BY <1>7, <2>1
<1>10. ASSUME NEW i \in 0 .. m PROVE r[i] \in Nat
  <2> DEFINE N == {k \in Nat : k \in 0 .. m => r[k] \in Nat}
  <2>1. 0 \in N
    BY <1>8
  <2>2. ASSUME NEW k \in Nat, k \in N PROVE k + 1 \in N
    <3>1. SUFFICES ASSUME k + 1 \in 0 .. m PROVE r[k + 1] \in Nat
      OBVIOUS
    <3>2. k + 1 \in 1 .. m /\ k \in 0 .. m /\ (k + 1) - 1 = k
      BY <1>0, <3>1
    <3>3. r[k] \in Nat
      BY <2>2, <3>2
    <3>4. r[k + 1] = Least(k + 1, r[k])
      BY <1>9, <3>2
    <3> QED BY <1>1, <3>2, <3>3, <3>4
  <2>3. Nat \subseteq N
    <3> HIDE DEF N
    <3> QED BY <2>1, <2>2, NumberInduction
  <2> QED BY <1>0, <2>3
<1>11. r = [i \in 0 .. m |-> r[i]]
  BY <1>7
<1>12. r \in CostRow(term)
  BY <1>10, <1>11 DEF CostRow, m
<1> QED BY <1>8, <1>9, <1>12 DEF r, Least, m

\* Each cost of a round is one of three, and no more than any of them.
LEMMA EditRowCosts ==
  ASSUME NEW term \in Seq(Letters), NEW p \in CostRow(term), NEW c
  PROVE  LET r == EditRow(term, p, c) IN
         /\ r \in CostRow(term) /\ r[0] = 0
         /\ \A i \in 1 .. Len(term) :
              /\ r[i] \in Nat /\ r[i - 1] \in Nat /\ p[i] \in Nat /\ p[i - 1] \in Nat
              /\ Differs(c, term[i]) \in {0, 1}
              /\ r[i] <= p[i] + 1 /\ r[i] <= r[i - 1] + 1 /\ r[i] <= p[i - 1] + Differs(c, term[i])
              /\ r[i] = p[i] + 1 \/ r[i] = r[i - 1] + 1 \/ r[i] = p[i - 1] + Differs(c, term[i])
<1> DEFINE r == EditRow(term, p, c)
           m == Len(term)
<1>0. m \in Nat /\ p \in [0 .. m -> Nat]
  BY LenProperties DEF CostRow
<1>1. /\ r \in CostRow(term) /\ r[0] = 0
      /\ \A i \in 1 .. m : r[i] = Min({p[i] + 1, r[i - 1] + 1, p[i - 1] + Differs(c, term[i])})
  BY EditRowIs
<1>2. r \in [0 .. m -> Nat]
  BY <1>1 DEF CostRow
<1> HIDE DEF r, m
<1>3. ASSUME NEW i \in 1 .. m
      PROVE  /\ r[i] \in Nat /\ r[i - 1] \in Nat /\ p[i] \in Nat /\ p[i - 1] \in Nat
             /\ Differs(c, term[i]) \in {0, 1}
             /\ r[i] <= p[i] + 1 /\ r[i] <= r[i - 1] + 1 /\ r[i] <= p[i - 1] + Differs(c, term[i])
             /\ r[i] = p[i] + 1 \/ r[i] = r[i - 1] + 1 \/ r[i] = p[i - 1] + Differs(c, term[i])
  <2>1. i \in 0 .. m /\ i - 1 \in 0 .. m
    BY <1>0
  <2>2. r[i] \in Nat /\ r[i - 1] \in Nat /\ p[i] \in Nat /\ p[i - 1] \in Nat
    BY <1>0, <1>2, <2>1
  <2>3. Differs(c, term[i]) \in {0, 1}
    BY DEF Differs
  <2> DEFINE x == p[i] + 1
             y == r[i - 1] + 1
             z == p[i - 1] + Differs(c, term[i])
  <2>4. x \in Nat /\ y \in Nat /\ z \in Nat
    BY <2>2, <2>3
  <2>5. r[i] = Min({x, y, z})
    BY <1>1, Zenon
  <2> HIDE DEF x, y, z
  <2>6. r[i] <= x /\ r[i] <= y /\ r[i] <= z /\ (r[i] = x \/ r[i] = y \/ r[i] = z)
    BY <2>4, <2>5, LeastOfThree
  <2> QED BY <2>2, <2>3, <2>6 DEF x, y, z
<1> QED BY <1>1, <1>3 DEF r, m

\* A round keeps what rows are apart.
LEMMA RowApart ==
  ASSUME NEW term \in Seq(Letters), NEW p \in CostRow(term), NEW q \in CostRow(term), NEW k \in Nat, NEW c,
         \A i \in 0 .. Len(term) : p[i] <= q[i] + k
  PROVE  \A i \in 0 .. Len(term) : EditRow(term, p, c)[i] <= EditRow(term, q, c)[i] + k
<1> DEFINE r == EditRow(term, p, c)
           t == EditRow(term, q, c)
           m == Len(term)
           S == {i \in 0 .. m : r[i] <= t[i] + k}
<1>0. m \in Nat
  BY LenProperties
<1>1. r[0] = 0 /\ \A i \in 1 .. m :
              /\ r[i] \in Nat /\ r[i - 1] \in Nat /\ p[i] \in Nat /\ p[i - 1] \in Nat
              /\ Differs(c, term[i]) \in {0, 1}
              /\ r[i] <= p[i] + 1 /\ r[i] <= r[i - 1] + 1 /\ r[i] <= p[i - 1] + Differs(c, term[i])
  BY EditRowCosts
<1>2. t[0] = 0 /\ \A i \in 1 .. m :
              /\ t[i] \in Nat /\ t[i - 1] \in Nat /\ q[i] \in Nat /\ q[i - 1] \in Nat
              /\ t[i] = q[i] + 1 \/ t[i] = t[i - 1] + 1 \/ t[i] = q[i - 1] + Differs(c, term[i])
  BY EditRowCosts
<1>3. \A i \in 0 .. m : p[i] <= q[i] + k
  OBVIOUS
<1> HIDE DEF r, t, m
<1>4. 0 \in S
  BY <1>0, <1>1, <1>2
<1>5. ASSUME NEW i \in 1 .. m, i - 1 \in S PROVE i \in S
  <2>1. p[i] <= q[i] + k /\ p[i - 1] <= q[i - 1] + k /\ i \in 0 .. m
    BY <1>0, <1>3
  <2>2. r[i - 1] <= t[i - 1] + k
    BY <1>5
  <2> HIDE DEF S
  <2> DEFINE e == Differs(c, term[i])
  <2>3. /\ r[i] \in Nat /\ r[i - 1] \in Nat /\ p[i] \in Nat /\ p[i - 1] \in Nat /\ e \in {0, 1}
        /\ r[i] <= p[i] + 1 /\ r[i] <= r[i - 1] + 1 /\ r[i] <= p[i - 1] + e
    BY <1>1, Zenon
  <2>4. /\ t[i] \in Nat /\ t[i - 1] \in Nat /\ q[i] \in Nat /\ q[i - 1] \in Nat
        /\ t[i] = q[i] + 1 \/ t[i] = t[i - 1] + 1 \/ t[i] = q[i - 1] + e
    BY <1>2, Zenon
  <2> HIDE DEF e
  <2>5. r[i] <= t[i] + k
    <3> DEFINE ri == r[i]
               rj == r[i - 1]
               pi == p[i]
               pj == p[i - 1]
               ti == t[i]
               tj == t[i - 1]
               qi == q[i]
               qj == q[i - 1]
    <3>1. /\ ri \in Nat /\ pi \in Nat /\ qi \in Nat /\ ti \in Nat /\ ri <= pi + 1 /\ pi <= qi + k
          /\ rj \in Nat /\ tj \in Nat /\ ri <= rj + 1 /\ rj <= tj + k
          /\ pj \in Nat /\ qj \in Nat /\ ri <= pj + e /\ pj <= qj + k
          /\ e \in Nat /\ k \in Nat
      BY <2>1, <2>2, <2>3, <2>4
    <3>2. ti = qi + 1 \/ ti = tj + 1 \/ ti = qj + e
      BY <2>4
    <3> HIDE DEF ri, rj, pi, pj, ti, tj, qi, qj
    <3>3. ASSUME ti = qi + 1 PROVE ri <= ti + k
      BY <3>1, <3>3
    <3>4. ASSUME ti = tj + 1 PROVE ri <= ti + k
      BY <3>1, <3>4
    <3>5. ASSUME ti = qj + e PROVE ri <= ti + k
      BY <3>1, <3>5
    <3>6. ri <= ti + k
      BY <3>2, <3>3, <3>4, <3>5
    <3> QED BY <3>6 DEF ri, ti
  <2> QED BY <2>1, <2>5 DEF S
<1>6. 0 .. m \subseteq S
  <2> HIDE DEF S
  <2> QED BY <1>0, <1>4, <1>5, RangeInduction
<1> QED BY <1>6 DEF r, t, m

\* Each cost of one row is at most that of another and some more.
Within(term, p, q, k) == \A i \in 0 .. Len(term) : p[i] <= q[i] + k

\* The same, named.
LEMMA RowMonotone ==
  ASSUME NEW term \in Seq(Letters), NEW p \in CostRow(term), NEW q \in CostRow(term), NEW k \in Nat, NEW c,
         Within(term, p, q, k)
  PROVE  Within(term, EditRow(term, p, c), EditRow(term, q, c), k)
  BY RowApart, Zenon DEF Within

\* A round that reads another letter costs at most one more.
LEMMA RowReplace ==
  ASSUME NEW term \in Seq(Letters), NEW p \in CostRow(term), NEW c, NEW d
  PROVE  Within(term, EditRow(term, p, c), EditRow(term, p, d), 1)
<1> DEFINE r == EditRow(term, p, c)
           t == EditRow(term, p, d)
           m == Len(term)
           S == {i \in 0 .. m : r[i] <= t[i] + 1}
<1>0. m \in Nat
  BY LenProperties
<1>1. r[0] = 0 /\ \A i \in 1 .. m :
              /\ r[i] \in Nat /\ r[i - 1] \in Nat /\ p[i] \in Nat /\ p[i - 1] \in Nat
              /\ Differs(c, term[i]) \in {0, 1}
              /\ r[i] <= p[i] + 1 /\ r[i] <= r[i - 1] + 1 /\ r[i] <= p[i - 1] + Differs(c, term[i])
  BY EditRowCosts
<1>2. t[0] = 0 /\ \A i \in 1 .. m :
              /\ t[i] \in Nat /\ t[i - 1] \in Nat /\ Differs(d, term[i]) \in {0, 1}
              /\ t[i] = p[i] + 1 \/ t[i] = t[i - 1] + 1 \/ t[i] = p[i - 1] + Differs(d, term[i])
  BY EditRowCosts
<1> HIDE DEF r, t, m
<1>3. 0 \in S
  BY <1>0, <1>1, <1>2
<1>4. ASSUME NEW i \in 1 .. m, i - 1 \in S PROVE i \in S
  <2>1. r[i - 1] <= t[i - 1] + 1 /\ i \in 0 .. m
    BY <1>0, <1>4
  <2>2. r[i] <= t[i] + 1
    <3> DEFINE e == Differs(c, term[i])
               f == Differs(d, term[i])
    <3>1. /\ r[i] \in Nat /\ r[i - 1] \in Nat /\ p[i] \in Nat /\ p[i - 1] \in Nat /\ e \in {0, 1}
          /\ r[i] <= p[i] + 1 /\ r[i] <= r[i - 1] + 1 /\ r[i] <= p[i - 1] + e
      BY <1>1, Zenon
    <3>2. /\ t[i] \in Nat /\ t[i - 1] \in Nat /\ f \in {0, 1}
          /\ t[i] = p[i] + 1 \/ t[i] = t[i - 1] + 1 \/ t[i] = p[i - 1] + f
      BY <1>2, Zenon
    <3> DEFINE ri == r[i]
               rj == r[i - 1]
               pi == p[i]
               pj == p[i - 1]
               ti == t[i]
               tj == t[i - 1]
    <3>3. /\ ri \in Nat /\ rj \in Nat /\ pi \in Nat /\ pj \in Nat /\ ti \in Nat /\ tj \in Nat
          /\ e \in {0, 1} /\ f \in {0, 1} /\ rj <= tj + 1
          /\ ri <= pi + 1 /\ ri <= rj + 1 /\ ri <= pj + e
          /\ ti = pi + 1 \/ ti = tj + 1 \/ ti = pj + f
      BY <2>1, <3>1, <3>2, Zenon
    <3> HIDE DEF e, f, ri, rj, pi, pj, ti, tj
    <3>4. ri <= ti + 1
      BY <3>3
    <3> QED BY <3>4 DEF ri, ti
  <2> QED BY <2>1, <2>2
<1>5. 0 .. m \subseteq S
  <2> HIDE DEF S
  <2> QED BY <1>0, <1>3, <1>4, RangeInduction
<1> QED BY <1>5 DEF Within, r, t, m

\* One more letter of the term costs at most one more.
SteadyRow(term) ==
  {p \in CostRow(term) : p[0] = 0 /\ \A i \in 1 .. Len(term) : p[i] <= p[i - 1] + 1}

\* A round changes no cost by more than one, either way.
LEMMA RowNear ==
  ASSUME NEW term \in Seq(Letters), NEW p \in SteadyRow(term), NEW c
  PROVE  /\ EditRow(term, p, c) \in SteadyRow(term)
         /\ Within(term, EditRow(term, p, c), p, 1) /\ Within(term, p, EditRow(term, p, c), 1)
<1> DEFINE r == EditRow(term, p, c)
           m == Len(term)
           S == {i \in 0 .. m : r[i] <= p[i] + 1 /\ p[i] <= r[i] + 1}
<1>0. m \in Nat
  BY LenProperties
<1>1. p \in CostRow(term) /\ p[0] = 0 /\ \A i \in 1 .. m : p[i] <= p[i - 1] + 1
  BY DEF SteadyRow
<1>2. r \in CostRow(term) /\ r[0] = 0 /\ \A i \in 1 .. m :
              /\ r[i] \in Nat /\ r[i - 1] \in Nat /\ p[i] \in Nat /\ p[i - 1] \in Nat
              /\ Differs(c, term[i]) \in {0, 1}
              /\ r[i] <= p[i] + 1 /\ r[i] <= r[i - 1] + 1 /\ r[i] <= p[i - 1] + Differs(c, term[i])
              /\ r[i] = p[i] + 1 \/ r[i] = r[i - 1] + 1 \/ r[i] = p[i - 1] + Differs(c, term[i])
  BY <1>1, EditRowCosts
<1> HIDE DEF r, m
<1>3. 0 \in S
  BY <1>0, <1>1, <1>2
<1>4. ASSUME NEW i \in 1 .. m, i - 1 \in S PROVE i \in S
  <2>1. p[i - 1] <= r[i - 1] + 1 /\ p[i] <= p[i - 1] + 1 /\ i \in 0 .. m
    BY <1>0, <1>1, <1>4
  <2>2. r[i] <= p[i] + 1 /\ p[i] <= r[i] + 1
    <3> DEFINE e == Differs(c, term[i])
               ri == r[i]
               rj == r[i - 1]
               pi == p[i]
               pj == p[i - 1]
    <3>1. /\ ri \in Nat /\ rj \in Nat /\ pi \in Nat /\ pj \in Nat /\ e \in {0, 1}
          /\ ri <= pi + 1 /\ ri <= rj + 1 /\ ri <= pj + e
          /\ ri = pi + 1 \/ ri = rj + 1 \/ ri = pj + e
      BY <1>2, Zenon
    <3>2. pj <= rj + 1 /\ pi <= pj + 1
      BY <2>1, Zenon
    <3> HIDE DEF e, ri, rj, pi, pj
    <3>3. ri <= pi + 1 /\ pi <= ri + 1
      BY <3>1, <3>2
    <3> QED BY <3>3 DEF ri, pi
  <2> QED BY <2>1, <2>2
<1>5. 0 .. m \subseteq S
  <2> HIDE DEF S
  <2> QED BY <1>0, <1>3, <1>4, RangeInduction
<1>6. r \in SteadyRow(term)
  BY <1>2 DEF SteadyRow, m
<1> QED BY <1>5, <1>6 DEF Within, r, m

----------------------------------------------------------------------------
(* ocr_score: the table. *)

\* The first row.
FirstRow(term) == [i \in 0 .. Len(term) |-> i]

\* The costs of turning nothing into each prefix of the term are the prefixes' lengths.
LEMMA FirstRowSteady ==
  ASSUME NEW term \in Seq(Letters)
  PROVE  FirstRow(term) \in SteadyRow(term)
<1> DEFINE m == Len(term)
<1>1. m \in Nat
  BY LenProperties
<1> HIDE DEF m
<1>2. [i \in 0 .. m |-> i] \in [0 .. m -> Nat] /\ [i \in 0 .. m |-> i][0] = 0
  BY <1>1
<1>3. \A i \in 1 .. m : [j \in 0 .. m |-> j][i] <= [j \in 0 .. m |-> j][i - 1] + 1
  BY <1>1
<1> QED BY <1>2, <1>3 DEF FirstRow, SteadyRow, CostRow, m

\* The rows are what the loop computes, one round for each letter of the text.
LEMMA RowsAre ==
  ASSUME NEW term \in Seq(Letters), NEW text \in Seq(Letters)
  PROVE  /\ Rows(term, text)[0] = FirstRow(term)
         /\ \A n \in 1 .. Len(text) : Rows(term, text)[n] = EditRow(term, Rows(term, text)[n - 1], text[n])
         /\ \A n \in 0 .. Len(text) : Rows(term, text)[n] \in SteadyRow(term)
<1> DEFINE N == Len(text)
           F == [n \in Nat |-> [p \in SteadyRow(term) |-> IF n \in 1 .. N THEN EditRow(term, p, text[n]) ELSE p]]
<1>0. N \in Nat /\ FirstRow(term) \in SteadyRow(term)
  BY LenProperties, FirstRowSteady
<1> HIDE DEF N
<1>1. \A p \in SteadyRow(term), n \in Nat : EditRow(term, p, text[n]) \in SteadyRow(term)
  BY RowNear
<1>2. F \in Rounds(SteadyRow(term))
  BY <1>1 DEF Rounds
<1>3. PICK h : IsTable(h, SteadyRow(term), FirstRow(term), N, F)
  <2> HIDE DEF F
  <2> QED BY <1>0, <1>2, TableUpTo, Zenon
<1>4. ASSUME NEW n \in 0 .. N, n # 0 PROVE F[n][h[n - 1]] = EditRow(term, h[n - 1], text[n])
  <2>1. n \in Nat /\ n \in 1 .. N /\ n - 1 \in 0 .. N
    BY <1>0, <1>4
  <2>2. h[n - 1] \in SteadyRow(term)
    BY <1>3, <2>1 DEF IsTable
  <2> QED BY <2>1, <2>2
<1>5. h = [n \in 0 .. N |-> IF n = 0 THEN FirstRow(term) ELSE EditRow(term, h[n - 1], text[n])]
  <2> HIDE DEF F
  <2> QED BY <1>3, <1>4 DEF IsTable
<1> DEFINE r == Rows(term, text)
<1>6. r = [n \in 0 .. N |-> IF n = 0 THEN FirstRow(term) ELSE EditRow(term, r[n - 1], text[n])]
  <2>1. \E after : after = [n \in 0 .. N |-> IF n = 0 THEN FirstRow(term) ELSE EditRow(term, after[n - 1], text[n])]
    BY <1>5
  <2> QED BY <2>1, Zenon DEF Rows, FirstRow, N
<1> HIDE DEF r
<1>7. r[0] = FirstRow(term)
  <2>1. 0 \in 0 .. N
    BY <1>0
  <2> QED BY <1>6, <2>1
<1>8. ASSUME NEW n \in 1 .. N PROVE r[n] = EditRow(term, r[n - 1], text[n])
  <2>1. n \in 0 .. N /\ n # 0
    BY <1>0
  <2> QED BY <1>6, <2>1
<1> DEFINE S == {n \in 0 .. N : r[n] \in SteadyRow(term)}
<1>9. 0 \in S
  BY <1>0, <1>7
<1>10. ASSUME NEW n \in 1 .. N, n - 1 \in S PROVE n \in S
  <2>1. n \in 0 .. N /\ n \in Nat /\ r[n - 1] \in SteadyRow(term)
    BY <1>0, <1>10
  <2> QED BY <1>1, <1>8, <2>1
<1>11. 0 .. N \subseteq S
  <2> HIDE DEF S
  <2> QED BY <1>0, <1>9, <1>10, RangeInduction
<1> QED BY <1>7, <1>8, <1>11 DEF r, N

\* A cost of a row is a number, and no more than the letters of the term it is for.
LEMMA SteadyCosts ==
  ASSUME NEW term \in Seq(Letters), NEW p \in SteadyRow(term)
  PROVE  p \in CostRow(term) /\ \A i \in 0 .. Len(term) : p[i] \in Nat /\ p[i] <= i
<1> DEFINE m == Len(term)
           S == {i \in 0 .. m : p[i] \in Nat /\ p[i] <= i}
<1>0. m \in Nat
  BY LenProperties
<1>1. p \in CostRow(term) /\ p \in [0 .. m -> Nat] /\ p[0] = 0 /\ \A i \in 1 .. m : p[i] <= p[i - 1] + 1
  BY DEF SteadyRow, CostRow
<1> HIDE DEF m
<1>2. 0 \in S
  BY <1>0, <1>1
<1>3. ASSUME NEW i \in 1 .. m, i - 1 \in S PROVE i \in S
  <2>1. p[i - 1] \in Nat /\ p[i - 1] <= i - 1 /\ p[i] <= p[i - 1] + 1 /\ i \in 0 .. m
    BY <1>0, <1>1, <1>3
  <2>2. p[i] \in Nat
    BY <1>1, <2>1
  <2> QED BY <2>1, <2>2
<1>4. 0 .. m \subseteq S
  <2> HIDE DEF S
  <2> QED BY <1>0, <1>2, <1>3, RangeInduction
<1> QED BY <1>1, <1>4 DEF m

\* What rows are apart adds up.
LEMMA WithinAdds ==
  ASSUME NEW term \in Seq(Letters), NEW p \in CostRow(term), NEW q \in CostRow(term), NEW r \in CostRow(term),
         NEW k \in Nat, NEW l \in Nat, Within(term, p, q, k), Within(term, q, r, l)
  PROVE  Within(term, p, r, k + l)
<1>1. ASSUME NEW i \in 0 .. Len(term) PROVE p[i] <= r[i] + (k + l)
  <2>1. p[i] <= q[i] + k /\ q[i] <= r[i] + l
    BY DEF Within
  <2>2. p[i] \in Nat /\ q[i] \in Nat /\ r[i] \in Nat
    BY DEF CostRow
  <2>3. p[i] <= (r[i] + l) + k
    BY <2>1, <2>2
  <2> QED BY <2>2, <2>3
<1> QED BY <1>1, Zenon DEF Within

\* Along the same letters, the rows of two texts stay as close as they were.
LEMMA RowsAlong ==
  ASSUME NEW term \in Seq(Letters), NEW s \in Seq(Letters), NEW u \in Seq(Letters),
         NEW a \in Nat, NEW b \in Nat, NEW L \in Nat, NEW k \in Nat, a + L <= Len(s), b + L <= Len(u),
         \A j \in 1 .. L : s[a + j] = u[b + j],
         Within(term, Rows(term, u)[b], Rows(term, s)[a], k)
  PROVE  Within(term, Rows(term, u)[b + L], Rows(term, s)[a + L], k)
<1> DEFINE r == Rows(term, u)
           t == Rows(term, s)
           S == {j \in 0 .. L : Within(term, r[b + j], t[a + j], k)}
<1>0. Len(s) \in Nat /\ Len(u) \in Nat
  BY LenProperties
<1>1. /\ \A n \in 1 .. Len(u) : r[n] = EditRow(term, r[n - 1], u[n])
      /\ \A n \in 0 .. Len(u) : r[n] \in CostRow(term)
  BY RowsAre, SteadyCosts
<1>2. /\ \A n \in 1 .. Len(s) : t[n] = EditRow(term, t[n - 1], s[n])
      /\ \A n \in 0 .. Len(s) : t[n] \in CostRow(term)
  BY RowsAre, SteadyCosts
<1> HIDE DEF r, t
<1>3. 0 \in S
  <2>1. b + 0 = b /\ a + 0 = a /\ 0 \in 0 .. L
    OBVIOUS
  <2>2. Within(term, r[b], t[a], k)
    BY DEF r, t
  <2> QED BY <2>1, <2>2
<1>4. ASSUME NEW j \in 1 .. L, j - 1 \in S PROVE j \in S
  <2>1. /\ b + j \in 1 .. Len(u) /\ (b + j) - 1 = b + (j - 1) /\ b + (j - 1) \in 0 .. Len(u)
        /\ a + j \in 1 .. Len(s) /\ (a + j) - 1 = a + (j - 1) /\ a + (j - 1) \in 0 .. Len(s) /\ j \in 0 .. L
    BY <1>0
  <2> DEFINE p == r[b + (j - 1)]
             q == t[a + (j - 1)]
             c == u[b + j]
  <2>2. Within(term, p, q, k)
    BY <1>4
  <2>3. p \in CostRow(term) /\ q \in CostRow(term)
    BY <1>1, <1>2, <2>1
  <2>4. r[b + j] = EditRow(term, p, c) /\ t[a + j] = EditRow(term, q, c)
    BY <1>1, <1>2, <2>1
  <2> HIDE DEF p, q, c
  <2>5. Within(term, EditRow(term, p, c), EditRow(term, q, c), k)
    BY <2>2, <2>3, RowMonotone, Zenon
  <2> QED BY <2>1, <2>4, <2>5
<1>5. 0 .. L \subseteq S
  <2> HIDE DEF S
  <2> QED BY <1>3, <1>4, RangeInduction
<1>6. L \in 0 .. L
  OBVIOUS
<1> QED BY <1>5, <1>6 DEF r, t

\* Texts that begin alike have the same rows so far.
LEMMA RowsBegin ==
  ASSUME NEW term \in Seq(Letters), NEW s \in Seq(Letters), NEW u \in Seq(Letters),
         NEW L \in Nat, L <= Len(s), L <= Len(u), \A j \in 1 .. L : s[j] = u[j]
  PROVE  Within(term, Rows(term, u)[L], Rows(term, s)[L], 0)
<1> DEFINE z == 0
<1>1. z \in Nat /\ z = 0
  OBVIOUS
<1>2. Within(term, Rows(term, u)[z], Rows(term, s)[z], z)
  <2>1. /\ Rows(term, u)[0] = FirstRow(term) /\ Rows(term, s)[0] = FirstRow(term)
        /\ \A i \in 0 .. Len(term) : FirstRow(term)[i] \in Nat
    BY RowsAre, FirstRowSteady, SteadyCosts
  <2>2. \A i \in 0 .. Len(term) : FirstRow(term)[i] <= FirstRow(term)[i] + 0
    BY <2>1
  <2> QED BY <2>1, <2>2, Zenon DEF Within
<1> HIDE DEF z
<1>3. z + L <= Len(s) /\ z + L <= Len(u) /\ \A j \in 1 .. L : s[z + j] = u[z + j]
  BY <1>1
<1>4. Within(term, Rows(term, u)[z + L], Rows(term, s)[z + L], z)
  BY <1>1, <1>2, <1>3, RowsAlong
<1>5. z + L = L
  BY <1>1
<1> QED BY <1>1, <1>4, <1>5

\* The rows after the last letter.
LastRow(term, text) == Rows(term, text)[Len(text)]

\* From some place to the end.
LEMMA RowsEnd ==
  ASSUME NEW term \in Seq(Letters), NEW s \in Seq(Letters), NEW u \in Seq(Letters),
         NEW a \in Nat, NEW b \in Nat, a <= Len(s), b <= Len(u), Len(s) - a = Len(u) - b,
         \A j \in 1 .. Len(s) - a : s[a + j] = u[b + j],
         Within(term, Rows(term, u)[b], Rows(term, s)[a], 1)
  PROVE  Within(term, LastRow(term, u), LastRow(term, s), 1)
<1> DEFINE L == Len(s) - a
           k == 1
<1>0. Len(s) \in Nat /\ Len(u) \in Nat
  BY LenProperties
<1>1. /\ L \in Nat /\ a + L <= Len(s) /\ b + L <= Len(u) /\ a + L = Len(s) /\ b + L = Len(u)
      /\ k \in Nat /\ k = 1
  BY <1>0
<1>2. \A j \in 1 .. L : s[a + j] = u[b + j]
  OBVIOUS
<1>3. Within(term, Rows(term, u)[b], Rows(term, s)[a], k)
  OBVIOUS
<1> HIDE DEF L, k
<1>4. Within(term, Rows(term, u)[b + L], Rows(term, s)[a + L], k)
  BY <1>1, <1>2, <1>3, RowsAlong
<1> QED BY <1>1, <1>4 DEF LastRow

\* One edit of the text changes what the loop ends with by at most one.
LEMMA OneEditCost ==
  ASSUME NEW term \in Seq(Letters), NEW s \in Seq(Letters), NEW u \in OneEdit(s)
  PROVE  Within(term, LastRow(term, u), LastRow(term, s), 1)
<1> DEFINE r == Rows(term, u)
           t == Rows(term, s)
<1>0. u \in Seq(Letters) /\ Len(s) \in Nat /\ Len(u) \in Nat
  BY OneEditIs, LenProperties
<1>1. /\ \A n \in 1 .. Len(u) : r[n] = EditRow(term, r[n - 1], u[n])
      /\ \A n \in 0 .. Len(u) : r[n] \in SteadyRow(term) /\ r[n] \in CostRow(term)
  BY <1>0, RowsAre, SteadyCosts
<1>2. /\ \A n \in 1 .. Len(s) : t[n] = EditRow(term, t[n - 1], s[n])
      /\ \A n \in 0 .. Len(s) : t[n] \in SteadyRow(term) /\ t[n] \in CostRow(term)
  BY RowsAre, SteadyCosts
<1> HIDE DEF r, t
<1>3. ASSUME NEW x \in CostRow(term), NEW y \in CostRow(term), NEW w \in CostRow(term),
             Within(term, x, y, 0), Within(term, y, w, 1)
      PROVE  Within(term, x, w, 1)
  <2>1. 0 \in Nat /\ 1 \in Nat /\ 0 + 1 = 1
    OBVIOUS
  <2>2. Within(term, x, w, 0 + 1)
    BY <1>3, <2>1, WithinAdds, Zenon
  <2> QED BY <2>1, <2>2
<1>4. ASSUME NEW i \in 1 .. Len(s) + 1, i - 1 <= Len(u), \A j \in 1 .. i - 1 : s[j] = u[j]
      PROVE  /\ Within(term, r[i - 1], t[i - 1], 0) /\ r[i - 1] \in SteadyRow(term) /\ t[i - 1] \in SteadyRow(term)
             /\ r[i - 1] \in CostRow(term) /\ t[i - 1] \in CostRow(term)
  <2>1. i - 1 \in Nat /\ i - 1 <= Len(s) /\ i - 1 \in 0 .. Len(s) /\ i - 1 \in 0 .. Len(u)
    BY <1>0, <1>4
  <2>2. Within(term, Rows(term, u)[i - 1], Rows(term, s)[i - 1], 0)
    BY <1>0, <1>4, <2>1, RowsBegin
  <2> QED BY <1>1, <1>2, <2>1, <2>2 DEF r, t
<1>5. ASSUME NEW i \in 1 .. Len(s) + 1, NEW c \in Letters, u = InsertAt(s, i, c)
      PROVE  Within(term, LastRow(term, u), LastRow(term, s), 1)
  <2>1. /\ Len(u) = Len(s) + 1 /\ \A j \in 1 .. Len(s) + 1 : (j < i => u[j] = s[j]) /\ (j > i => u[j] = s[j - 1])
    <3>1. Inserted(u, s, i, c)
      BY <1>5, InsertIs, Zenon
    <3> QED BY <3>1, Zenon DEF Inserted
  <2>2. /\ i \in 1 .. Len(u) /\ i - 1 \in Nat /\ i \in Nat /\ i - 1 <= Len(s) /\ i \in 0 .. Len(u)
        /\ Len(s) - (i - 1) = Len(u) - i
    BY <1>0, <2>1
  <2>3. /\ Within(term, r[i - 1], t[i - 1], 0) /\ r[i - 1] \in SteadyRow(term)
        /\ r[i - 1] \in CostRow(term) /\ t[i - 1] \in CostRow(term)
    <3>1. i - 1 <= Len(u) /\ \A j \in 1 .. i - 1 : s[j] = u[j]
      BY <1>0, <2>1
    <3> QED BY <1>4, <3>1
  <2>4. Within(term, r[i], r[i - 1], 1)
    <3>1. r[i] = EditRow(term, r[i - 1], u[i])
      BY <1>1, <2>2
    <3> QED BY <2>3, <3>1, RowNear
  <2>5. Within(term, r[i], t[i - 1], 1)
    <3>1. r[i] \in CostRow(term)
      BY <1>1, <2>2
    <3>2. 1 \in Nat /\ 0 \in Nat /\ 1 + 0 = 1
      OBVIOUS
    <3>3. Within(term, r[i], t[i - 1], 1 + 0)
      BY <2>3, <2>4, <3>1, <3>2, WithinAdds, Zenon
    <3> QED BY <3>2, <3>3
  <2>6. \A j \in 1 .. Len(s) - (i - 1) : s[(i - 1) + j] = u[i + j]
    BY <1>0, <2>1
  <2> DEFINE a == i - 1
  <2>7. /\ a \in Nat /\ i \in Nat /\ a <= Len(s) /\ i <= Len(u) /\ Len(s) - a = Len(u) - i
        /\ Within(term, Rows(term, u)[i], Rows(term, s)[a], 1)
        /\ \A j \in 1 .. Len(s) - a : s[a + j] = u[i + j]
    BY <2>2, <2>5, <2>6 DEF r, t
  <2> HIDE DEF a
  <2> QED BY <1>0, <2>7, RowsEnd
<1>6. ASSUME NEW i \in 1 .. Len(s), NEW c \in Letters, u = ReplaceAt(s, i, c)
      PROVE  Within(term, LastRow(term, u), LastRow(term, s), 1)
  <2>1. Len(u) = Len(s) /\ \A j \in 1 .. Len(s) : j # i => u[j] = s[j]
    BY <1>6, ExceptSeq DEF ReplaceAt
  <2>2. /\ i \in 1 .. Len(u) /\ i \in Nat /\ i <= Len(s) /\ i <= Len(u) /\ Len(s) - i = Len(u) - i
        /\ i \in 0 .. Len(u) /\ i \in 0 .. Len(s) /\ i \in 1 .. Len(s) + 1
    BY <1>0, <2>1
  <2>3. /\ Within(term, r[i - 1], t[i - 1], 0) /\ r[i - 1] \in CostRow(term) /\ t[i - 1] \in CostRow(term)
    <3>1. i - 1 <= Len(u) /\ \A j \in 1 .. i - 1 : s[j] = u[j]
      BY <1>0, <2>1
    <3> QED BY <1>4, <2>2, <3>1
  <2>4. r[i] = EditRow(term, r[i - 1], u[i]) /\ t[i] = EditRow(term, t[i - 1], s[i])
    BY <1>1, <1>2, <2>2
  <2>5. Within(term, r[i], t[i], 1)
    <3> DEFINE x == EditRow(term, r[i - 1], u[i])
               y == EditRow(term, t[i - 1], u[i])
               w == EditRow(term, t[i - 1], s[i])
    <3>1. Within(term, x, y, 0)
      <4>1. 0 \in Nat
        OBVIOUS
      <4> QED BY <2>3, <4>1, RowMonotone, Zenon
    <3>2. Within(term, y, w, 1)
      BY <2>3, RowReplace, Zenon
    <3>3. x \in CostRow(term) /\ y \in CostRow(term) /\ w \in CostRow(term)
      BY <2>3, EditRowCosts
    <3> HIDE DEF x, y, w
    <3>4. Within(term, x, w, 1)
      BY <1>3, <3>1, <3>2, <3>3
    <3> QED BY <2>4, <3>4 DEF x, w
  <2>6. \A j \in 1 .. Len(s) - i : s[i + j] = u[i + j]
    BY <1>0, <2>1
  <2> QED BY <1>0, <2>2, <2>5, <2>6, RowsEnd DEF r, t
<1>7. ASSUME NEW i \in 1 .. Len(s), u = RemoveAt(s, i)
      PROVE  Within(term, LastRow(term, u), LastRow(term, s), 1)
  <2>1. Len(u) = Len(s) - 1 /\ \A j \in 1 .. Len(s) - 1 : u[j] = IF j < i THEN s[j] ELSE s[j + 1]
    <3>1. /\ Len(RemoveAt(s, i)) = Len(s) - 1
          /\ \A j \in 1 .. Len(s) - 1 : RemoveAt(s, i)[j] = IF j < i THEN s[j] ELSE s[j + 1]
      BY RemoveIs
    <3> QED BY <1>7, <3>1, Zenon
  <2>2. /\ i - 1 \in Nat /\ i \in Nat /\ i <= Len(s) /\ i - 1 <= Len(u) /\ Len(s) - i = Len(u) - (i - 1)
        /\ i \in 0 .. Len(s) /\ i \in 1 .. Len(s) + 1
    BY <1>0, <2>1
  <2>3. /\ Within(term, r[i - 1], t[i - 1], 0) /\ t[i - 1] \in SteadyRow(term)
        /\ r[i - 1] \in CostRow(term) /\ t[i - 1] \in CostRow(term)
    <3>1. i - 1 <= Len(u) /\ \A j \in 1 .. i - 1 : s[j] = u[j]
      BY <1>0, <2>1
    <3> QED BY <1>4, <2>2, <3>1
  <2>4. Within(term, t[i - 1], t[i], 1)
    <3>1. t[i] = EditRow(term, t[i - 1], s[i])
      BY <1>2, <2>2
    <3> QED BY <2>3, <3>1, RowNear
  <2>5. Within(term, r[i - 1], t[i], 1)
    <3>1. t[i] \in CostRow(term)
      BY <1>2, <2>2
    <3> QED BY <1>3, <2>3, <2>4, <3>1
  <2>6. \A j \in 1 .. Len(s) - i : s[i + j] = u[(i - 1) + j]
    BY <1>0, <2>1
  <2> QED BY <1>0, <2>2, <2>5, <2>6, RowsEnd DEF r, t
<1> QED BY <1>5, <1>6, <1>7, OneEditIs

----------------------------------------------------------------------------
(* The texts within some edits. *)

\* What one more edit makes of a set of texts.
Spread(x) == x \cup UNION {OneEdit(t) : t \in x}

\* They are texts, those there were and those an edit away.
LEMMA SpreadIs ==
  ASSUME NEW x \in SUBSET Seq(Letters)
  PROVE  Spread(x) \in SUBSET Seq(Letters) /\ \A u : u \in Spread(x) <=> u \in x \/ \E t \in x : u \in OneEdit(t)
<1>1. \A u : u \in Spread(x) <=> u \in x \/ \E t \in x : u \in OneEdit(t)
  BY DEF Spread
<1>2. ASSUME NEW u \in Spread(x) PROVE u \in Seq(Letters)
  <2>1. CASE u \in x
    BY <2>1
  <2>2. ASSUME NEW t \in x, u \in OneEdit(t) PROVE u \in Seq(Letters)
    BY <2>2, OneEditIs
  <2> QED BY <1>1, <2>1, <2>2
<1> QED BY <1>1, <1>2

\* The texts within so many edits are those within one less, and their edits.
LEMMA EditSteps ==
  ASSUME NEW s \in Seq(Letters)
  PROVE  /\ WithinEdits(s, 0) = {s}
         /\ \A n \in Nat :
              WithinEdits(s, n) \in SUBSET Seq(Letters) /\ WithinEdits(s, n + 1) = Spread(WithinEdits(s, n))
<1> DEFINE A == SUBSET Seq(Letters)
           F == [n \in Nat |-> [x \in A |-> Spread(x)]]
           near[k \in Nat] ==
             IF k = 0 THEN {s} ELSE LET before == near[k - 1] IN before \cup UNION {OneEdit(t) : t \in before}
<1>1. \A x \in A : Spread(x) \in A
  BY SpreadIs
<1>2. {s} \in A
  OBVIOUS
<1>3. F \in Rounds(A)
  <2> HIDE DEF A
  <2> QED BY <1>1 DEF Rounds
<1>4. PICK g \in [Nat -> A] : g[0] = {s} /\ \A n \in Nat \ {0} : g[n] = F[n][g[n - 1]]
  <2> DEFINE base == {s}
  <2>1. base \in A
    BY <1>2
  <2> HIDE DEF A, F, base
  <2>2. \E g \in [Nat -> A] : g[0] = base /\ \A n \in Nat \ {0} : g[n] = F[n][g[n - 1]]
    BY <1>3, <2>1, TableExists
  <2> QED BY <2>2 DEF base
<1> HIDE DEF A
<1>5. ASSUME NEW n \in Nat PROVE g[n] = IF n = 0 THEN {s} ELSE Spread(g[n - 1])
  <2>1. CASE n = 0
    BY <1>4, <2>1
  <2>2. CASE n # 0
    <3>1. n \in Nat \ {0} /\ n - 1 \in Nat
      BY <2>2
    <3>2. g[n] = F[n][g[n - 1]] /\ g[n - 1] \in A
      BY <1>4, <3>1
    <3> QED BY <2>2, <3>1, <3>2
  <2> QED BY <2>1, <2>2
<1>6. g = [k \in Nat |-> IF k = 0 THEN {s} ELSE Spread(g[k - 1])]
  BY <1>4, <1>5
<1>7. near = [k \in Nat |-> IF k = 0 THEN {s} ELSE Spread(near[k - 1])]
  <2>1. \E f : f = [k \in Nat |-> IF k = 0 THEN {s} ELSE Spread(f[k - 1])]
    BY <1>6, Zenon
  <2> QED BY <2>1, Zenon DEF Spread
<1>8. \A n \in Nat : WithinEdits(s, n) = near[n]
  BY Zenon DEF WithinEdits
<1> HIDE DEF near
<1>9. near[0] = {s}
  BY <1>7
<1>10. ASSUME NEW n \in Nat PROVE near[n + 1] = Spread(near[n])
  <2>1. n + 1 \in Nat /\ n + 1 # 0 /\ (n + 1) - 1 = n
    OBVIOUS
  <2> QED BY <1>7, <2>1
<1> DEFINE S == {n \in Nat : near[n] \in A}
<1>11. Nat \subseteq S
  <2>1. 0 \in S
    BY <1>2, <1>9
  <2>2. ASSUME NEW n \in Nat, n \in S PROVE n + 1 \in S
    <3>1. near[n] \in A
      BY <2>2
    <3>2. near[n + 1] \in A
      BY <1>1, <1>10, <3>1
    <3> QED BY <3>2
  <2> HIDE DEF S
  <2> QED BY <2>1, <2>2, NumberInduction
<1>12. WithinEdits(s, 0) = {s}
  <2>1. 0 \in Nat
    OBVIOUS
  <2> QED BY <1>8, <1>9, <2>1, Zenon
<1>13. ASSUME NEW n \in Nat PROVE WithinEdits(s, n) \in A /\ WithinEdits(s, n + 1) = Spread(WithinEdits(s, n))
  <2>1. n + 1 \in Nat /\ near[n] \in A
    BY <1>11
  <2> QED BY <1>8, <1>10, <2>1, Zenon
<1> QED BY <1>12, <1>13, Zenon DEF A

\* The same, text by text.
LEMMA NearSteps ==
  ASSUME NEW s \in Seq(Letters)
  PROVE  /\ \A u : u \in WithinEdits(s, 0) <=> u = s
         /\ \A n \in Nat : \A u : u \in WithinEdits(s, n) => u \in Seq(Letters)
         /\ \A n \in Nat : \A u :
              u \in WithinEdits(s, n + 1) <=> u \in WithinEdits(s, n) \/ \E t \in WithinEdits(s, n) : u \in OneEdit(t)
<1>1. \A u : u \in WithinEdits(s, 0) <=> u = s
  BY EditSteps
<1>2. \A n \in Nat : WithinEdits(s, n) \in SUBSET Seq(Letters)
  BY EditSteps
<1>3. ASSUME NEW n \in Nat, NEW u
      PROVE  u \in WithinEdits(s, n + 1) <=> u \in WithinEdits(s, n) \/ \E t \in WithinEdits(s, n) : u \in OneEdit(t)
  <2> DEFINE x == WithinEdits(s, n)
  <2>1. x \in SUBSET Seq(Letters) /\ WithinEdits(s, n + 1) = Spread(x)
    BY EditSteps
  <2> HIDE DEF x
  <2>2. u \in Spread(x) <=> u \in x \/ \E t \in x : u \in OneEdit(t)
    BY <2>1, SpreadIs
  <2> QED BY <2>1, <2>2, Zenon DEF x
<1> QED BY <1>1, <1>2, <1>3

\* An edit may come first.
LEMMA NearFirst ==
  ASSUME NEW s \in Seq(Letters), NEW t \in OneEdit(s), NEW k \in Nat, NEW u \in WithinEdits(t, k)
  PROVE  u \in WithinEdits(s, k + 1)
<1> DEFINE S == {n \in Nat : \A v \in WithinEdits(t, n) : v \in WithinEdits(s, n + 1)}
<1>0. t \in Seq(Letters)
  BY OneEditIs
<1>1. 0 \in S
  <2>1. s \in WithinEdits(s, 0) /\ 0 \in Nat /\ 0 + 1 = 1
    BY NearSteps
  <2>2. t \in WithinEdits(s, 0 + 1)
    BY <2>1, NearSteps
  <2>3. \A v \in WithinEdits(t, 0) : v = t
    BY <1>0, NearSteps
  <2> QED BY <2>1, <2>2, <2>3
<1>2. ASSUME NEW n \in Nat, n \in S PROVE n + 1 \in S
  <2>1. ASSUME NEW v \in WithinEdits(t, n + 1) PROVE v \in WithinEdits(s, (n + 1) + 1)
    <3>1. v \in WithinEdits(t, n) \/ \E w \in WithinEdits(t, n) : v \in OneEdit(w)
      BY <1>0, NearSteps
    <3>2. v \in WithinEdits(s, n + 1) \/ \E w \in WithinEdits(s, n + 1) : v \in OneEdit(w)
      BY <1>2, <3>1
    <3>3. n + 1 \in Nat
      OBVIOUS
    <3> QED BY <3>2, <3>3, NearSteps
  <2> QED BY <2>1
<1>3. Nat \subseteq S
  <2> HIDE DEF S
  <2> QED BY <1>1, <1>2, NumberInduction
<1> QED BY <1>3

\* More edits reach more.
LEMMA NearGrows ==
  ASSUME NEW s \in Seq(Letters), NEW k \in Nat, NEW l \in Nat, k <= l, NEW u \in WithinEdits(s, k)
  PROVE  u \in WithinEdits(s, l)
<1> DEFINE S == {n \in Nat : u \in WithinEdits(s, k + n)}
<1>1. 0 \in S
  OBVIOUS
<1>2. ASSUME NEW n \in Nat, n \in S PROVE n + 1 \in S
  <2>1. k + n \in Nat /\ (k + n) + 1 = k + (n + 1)
    OBVIOUS
  <2>2. u \in WithinEdits(s, (k + n) + 1)
    BY <1>2, <2>1, NearSteps
  <2> QED BY <2>1, <2>2
<1>3. Nat \subseteq S
  <2> HIDE DEF S
  <2> QED BY <1>1, <1>2, NumberInduction
<1>4. l - k \in Nat /\ k + (l - k) = l
  OBVIOUS
<1>5. u \in WithinEdits(s, k + (l - k))
  BY <1>3, <1>4
<1> QED BY <1>4, <1>5

\* And one more letter on both sides leaves the texts as near.
LEMMA NearAppend ==
  ASSUME NEW s \in Seq(Letters), NEW d \in Letters, NEW k \in Nat, NEW u \in WithinEdits(s, k)
  PROVE  Append(u, d) \in WithinEdits(Append(s, d), k)
<1> DEFINE t == Append(s, d)
           S == {n \in Nat : \A v \in WithinEdits(s, n) : Append(v, d) \in WithinEdits(t, n)}
<1>0. t \in Seq(Letters)
  OBVIOUS
<1>1. 0 \in S
  BY <1>0, NearSteps
<1>2. ASSUME NEW n \in Nat, n \in S PROVE n + 1 \in S
  <2>1. ASSUME NEW v \in WithinEdits(s, n + 1) PROVE Append(v, d) \in WithinEdits(t, n + 1)
    <3>1. v \in WithinEdits(s, n) \/ \E w \in WithinEdits(s, n) : v \in OneEdit(w)
      BY NearSteps
    <3>2. CASE v \in WithinEdits(s, n)
      BY <1>0, <1>2, <3>2, NearSteps
    <3>3. ASSUME NEW w \in WithinEdits(s, n), v \in OneEdit(w) PROVE Append(v, d) \in WithinEdits(t, n + 1)
      <4>1. w \in Seq(Letters)
        BY NearSteps
      <4>2. Append(v, d) \in OneEdit(Append(w, d))
        BY <3>3, <4>1, EditAppend
      <4>3. Append(w, d) \in WithinEdits(t, n)
        BY <1>2
      <4> HIDE DEF t
      <4> QED BY <1>0, <4>2, <4>3, NearSteps
    <3> QED BY <3>1, <3>2, <3>3
  <2> QED BY <2>1
<1>3. Nat \subseteq S
  <2> HIDE DEF S
  <2> QED BY <1>1, <1>2, NumberInduction
<1> QED BY <1>3

----------------------------------------------------------------------------
(* ocr_score: no stretch of the text is nearer than the loop says. *)

\* The whole term costs nothing after the term itself.
LEMMA TermCost ==
  ASSUME NEW term \in Seq(Letters)
  PROVE  LastRow(term, term)[Len(term)] = 0
<1> DEFINE m == Len(term)
           r == Rows(term, term)
           S == {n \in 0 .. m : r[n][n] = 0}
<1>0. m \in Nat
  BY LenProperties
<1>1. /\ r[0] = FirstRow(term) /\ FirstRow(term) \in SteadyRow(term)
      /\ \A n \in 1 .. m : r[n] = EditRow(term, r[n - 1], term[n])
      /\ \A n \in 0 .. m : r[n] \in CostRow(term)
  BY RowsAre, SteadyCosts, FirstRowSteady
<1> HIDE DEF r
<1>2. 0 \in S
  BY <1>0, <1>1 DEF SteadyRow
<1>3. ASSUME NEW n \in 1 .. m, n - 1 \in S PROVE n \in S
  <2> DEFINE p == r[n - 1]
             c == term[n]
  <2>1. n \in 0 .. m /\ n - 1 \in 0 .. m /\ p \in CostRow(term) /\ r[n] = EditRow(term, p, c) /\ p[n - 1] = 0
    BY <1>0, <1>1, <1>3
  <2>2. Differs(c, c) = 0
    BY DEF Differs
  <2> HIDE DEF p
  <2>3. /\ EditRow(term, p, c)[n] \in Nat
        /\ EditRow(term, p, c)[n] <= p[n - 1] + Differs(c, term[n])
    BY <2>1, EditRowCosts
  <2>4. EditRow(term, p, c)[n] = 0
    <3> HIDE DEF c
    <3>1. Differs(c, term[n]) = 0
      BY <2>2 DEF c
    <3> QED BY <2>1, <2>3, <3>1
  <2> QED BY <2>1, <2>4
<1>4. 0 .. m \subseteq S
  <2> HIDE DEF S
  <2> QED BY <1>0, <1>2, <1>3, RangeInduction
<1> QED BY <1>0, <1>4 DEF r, LastRow

\* A text within so many edits of the term costs no more.
LEMMA NearCost ==
  ASSUME NEW term \in Seq(Letters), NEW k \in Nat, NEW u \in WithinEdits(term, k)
  PROVE  LastRow(term, u)[Len(term)] \in Nat /\ LastRow(term, u)[Len(term)] <= k
<1> DEFINE m == Len(term)
           Cost(v) == LastRow(term, v)[m]
           S == {n \in Nat : \A v \in WithinEdits(term, n) : Cost(v) <= n}
<1>0. m \in Nat
  BY LenProperties
<1>1. ASSUME NEW v \in Seq(Letters) PROVE Cost(v) \in Nat
  <2>1. Len(v) \in Nat
    BY LenProperties
  <2>2. Rows(term, v)[Len(v)] \in SteadyRow(term)
    BY <2>1, RowsAre
  <2>3. Rows(term, v)[Len(v)][m] \in Nat
    BY <1>0, <2>2, SteadyCosts
  <2> QED BY <2>3 DEF LastRow
<1>2. ASSUME NEW v \in Seq(Letters), NEW w \in OneEdit(v) PROVE Cost(w) <= Cost(v) + 1
  BY <1>0, OneEditCost DEF Within
<1>3. Cost(term) = 0
  BY TermCost
<1> HIDE DEF Cost
<1>4. 0 \in S
  BY <1>3, NearSteps
<1>5. ASSUME NEW n \in Nat, n \in S PROVE n + 1 \in S
  <2>1. ASSUME NEW v \in WithinEdits(term, n + 1) PROVE Cost(v) <= n + 1
    <3>1. CASE v \in WithinEdits(term, n)
      <4>1. Cost(v) <= n /\ Cost(v) \in Nat
        BY <1>1, <1>5, <3>1, NearSteps
      <4> QED BY <4>1
    <3>2. ASSUME NEW w \in WithinEdits(term, n), v \in OneEdit(w) PROVE Cost(v) <= n + 1
      <4>1. w \in Seq(Letters) /\ v \in Seq(Letters)
        BY <3>2, NearSteps, OneEditIs
      <4>2. Cost(w) <= n /\ Cost(v) <= Cost(w) + 1 /\ Cost(v) \in Nat /\ Cost(w) \in Nat
        BY <1>1, <1>2, <1>5, <3>2, <4>1
      <4> QED BY <4>2
    <3> QED BY <3>1, <3>2, NearSteps
  <2> QED BY <2>1
<1>6. Nat \subseteq S
  <2> HIDE DEF S
  <2> QED BY <1>4, <1>5, NumberInduction
<1>7. u \in Seq(Letters)
  BY NearSteps
<1> QED BY <1>1, <1>6, <1>7 DEF Cost

\* best is the least cost of the whole term in any row.
LEMMA BestCostIs ==
  ASSUME NEW term \in Seq(Letters), NEW text \in Seq(Letters)
  PROVE  /\ BestCost(term, text) \in Nat /\ BestCost(term, text) <= Len(term)
         /\ \A n \in 0 .. Len(text) : BestCost(term, text) <= Rows(term, text)[n][Len(term)]
         /\ \E n \in 0 .. Len(text) : BestCost(term, text) = Rows(term, text)[n][Len(term)]
<1> DEFINE m == Len(term)
           N == Len(text)
           r == Rows(term, text)
           S == {r[n][m] : n \in 0 .. N}
<1>0. m \in Nat /\ N \in Nat /\ m \in 0 .. m /\ 0 \in 0 .. N
  BY LenProperties
<1>1. \A n \in 0 .. N : r[n][m] \in Nat /\ r[n][m] <= m
  BY <1>0, RowsAre, SteadyCosts
<1>2. BestCost(term, text) = Min(S)
  BY DEF BestCost
<1> HIDE DEF m, N, r
<1>3. S \subseteq Nat /\ S # {}
  BY <1>0, <1>1
<1>4. Min(S) \in S /\ \A x \in S : Min(S) <= x
  <2> HIDE DEF S
  <2> QED BY <1>3, MinIsLeast
<1> DEFINE b == Min(S)
<1>5. b \in S /\ \A x \in S : b <= x
  BY <1>4
<1> HIDE DEF b
<1>6. PICK n \in 0 .. N : b = r[n][m]
  BY <1>5
<1>7. \A j \in 0 .. N : b <= r[j][m]
  BY <1>5
<1>8. b \in Nat /\ b <= m
  BY <1>1, <1>6
<1>9. BestCost(term, text) = b
  BY <1>2 DEF b
<1> QED BY <1>6, <1>7, <1>8, <1>9 DEF m, N, r

\* A stretch of a text.
LEMMA StretchIs ==
  ASSUME NEW text \in Seq(Letters), NEW from \in 1 .. Len(text) + 1, NEW to \in 0 .. Len(text)
  PROVE  LET u == SubSeq(text, from, to) IN
         /\ u \in Seq(Letters) /\ Len(u) \in Nat /\ (from - 1) + Len(u) \in 0 .. Len(text)
         /\ \A j \in 1 .. Len(u) : u[j] = text[(from - 1) + j]
<1>0. Len(text) \in Nat
  BY LenProperties
<1>1. from \in Int /\ to \in Int
  BY <1>0
<1>2. \A i \in from .. to : text[i] \in Letters
  BY <1>0, ElementOfSeq
<1> DEFINE u == SubSeq(text, from, to)
<1>3. /\ u \in Seq(Letters) /\ Len(u) = IF from <= to THEN to - from + 1 ELSE 0
      /\ \A i \in 1 .. to - from + 1 : u[i] = text[from + i - 1]
  BY <1>1, <1>2, SubSeqProperties
<1> HIDE DEF u
<1>4. Len(u) \in Nat /\ (from - 1) + Len(u) \in 0 .. Len(text)
  BY <1>0, <1>3
<1>5. ASSUME NEW j \in 1 .. Len(u) PROVE u[j] = text[(from - 1) + j]
  <2>1. j \in 1 .. to - from + 1 /\ from + j - 1 = (from - 1) + j
    BY <1>0, <1>3
  <2> QED BY <1>3, <2>1
<1> QED BY <1>3, <1>4, <1>5 DEF u

\* Whatever stretch of the text is near the term, the loop finds one that is as near.
LEMMA StretchCost ==
  ASSUME NEW term \in Seq(Letters), NEW text \in Seq(Letters), NEW k \in Nat,
         NEW from \in 1 .. Len(text) + 1, NEW to \in 0 .. Len(text), SubSeq(text, from, to) \in WithinEdits(term, k)
  PROVE  BestCost(term, text) <= k
<1> DEFINE u == SubSeq(text, from, to)
           m == Len(term)
           b == from - 1
           z == 0
           L == Len(u)
<1>0. m \in Nat /\ Len(text) \in Nat /\ m \in 0 .. m
  BY LenProperties
<1>1. /\ u \in Seq(Letters) /\ L \in Nat /\ b + L \in 0 .. Len(text)
      /\ \A j \in 1 .. L : u[j] = text[b + j]
  BY StretchIs
<1>2. LastRow(term, u)[m] <= k /\ LastRow(term, u)[m] \in Nat
  BY NearCost
<1> HIDE DEF u, L
<1>3. b \in Nat /\ b \in 0 .. Len(text) /\ z \in Nat
  BY <1>0
<1>4. Within(term, Rows(term, text)[b], Rows(term, u)[z], z)
  <2>1. Rows(term, text)[b] \in SteadyRow(term) /\ Rows(term, u)[0] = FirstRow(term)
    BY <1>1, <1>3, RowsAre
  <2>2. \A i \in 0 .. m : Rows(term, text)[b][i] \in Nat /\ Rows(term, text)[b][i] <= i
    BY <2>1, SteadyCosts
  <2>3. \A i \in 0 .. m : FirstRow(term)[i] = i
    BY DEF FirstRow
  <2>4. ASSUME NEW i \in 0 .. m PROVE Rows(term, text)[b][i] <= FirstRow(term)[i] + 0
    BY <1>0, <2>2, <2>3
  <2> QED BY <2>1, <2>4, Zenon DEF Within
<1>5. z + L <= Len(u) /\ b + L <= Len(text) /\ \A j \in 1 .. L : u[z + j] = text[b + j]
  <2>1. L = Len(u)
    BY DEF L
  <2> QED BY <1>0, <1>1, <1>3, <2>1
<1>6. z + L = L
  BY <1>1
<1> HIDE DEF b, z
<1>7. Within(term, Rows(term, text)[b + L], Rows(term, u)[z + L], z)
  BY <1>1, <1>3, <1>4, <1>5, RowsAlong
<1>8. Rows(term, text)[b + L][m] <= Rows(term, u)[L][m] + z
  BY <1>0, <1>6, <1>7 DEF Within
<1>9. Rows(term, u)[L][m] <= k /\ Rows(term, u)[L][m] \in Nat /\ z = 0
  BY <1>2 DEF LastRow, L, z
<1>10. /\ BestCost(term, text) \in Nat /\ BestCost(term, text) <= Rows(term, text)[b + L][m]
       /\ Rows(term, text)[b + L][m] \in Nat
  BY <1>0, <1>1, BestCostIs, RowsAre, SteadyCosts
<1> QED BY <1>8, <1>9, <1>10

----------------------------------------------------------------------------
(* ocr_score: some stretch of the text is as near as the loop says. *)

\* The beginning of a term, one letter longer.
LEMMA PrefixIs ==
  ASSUME NEW s \in Seq(Letters), NEW i \in 1 .. Len(s)
  PROVE  /\ SubSeq(s, 1, i - 1) \in Seq(Letters) /\ s[i] \in Letters
         /\ SubSeq(s, 1, i) = Append(SubSeq(s, 1, i - 1), s[i])
<1>0. Len(s) \in Nat /\ i \in Nat /\ 1 \in 1 .. Len(s) /\ i \in 1 .. Len(s) /\ i - 1 \in 0 .. Len(s)
  BY LenProperties
<1>1. 1 \in 1 .. Len(s) + 1
  BY <1>0
<1>2. SubSeq(s, 1, i - 1) \in Seq(Letters)
  BY <1>0, <1>1, StretchIs
<1>3. SubSeq(s, 1, i) = SubSeq(s, 1, i - 1) \o <<s[i]>>
  BY <1>0, SubSeqRecursiveSecond
<1>4. s[i] \in Letters
  BY ElementOfSeq
<1>5. SubSeq(s, 1, i - 1) \o <<s[i]>> = Append(SubSeq(s, 1, i - 1), s[i])
  <2> DEFINE x == SubSeq(s, 1, i - 1)
             e == s[i]
  <2>1. x \in Seq(Letters) /\ e \in Letters
    BY <1>2, <1>4
  <2> HIDE DEF x, e
  <2>2. x \o <<e>> = Append(x, e)
    BY <2>1, AppendIsConcat
  <2> QED BY <2>2 DEF x, e
<1> QED BY <1>2, <1>3, <1>4, <1>5

\* Some stretch that ends after n letters of the text is within so many edits of the first i
\* letters of the term.
Reached(term, text, n, i, k) ==
  \E from \in 1 .. n + 1 : SubSeq(text, from, n) \in WithinEdits(SubSeq(term, 1, i), k)

\* The stretch reads one more letter.
LEMMA ReadsOne ==
  ASSUME NEW text \in Seq(Letters), NEW n \in 1 .. Len(text), NEW from \in 1 .. n
  PROVE  /\ SubSeq(text, from, n - 1) \in Seq(Letters) /\ text[n] \in Letters
         /\ SubSeq(text, from, n) = Append(SubSeq(text, from, n - 1), text[n])
<1>0. /\ Len(text) \in Nat /\ from \in 1 .. Len(text) /\ n \in from .. Len(text)
      /\ from \in 1 .. Len(text) + 1 /\ n - 1 \in 0 .. Len(text)
  BY LenProperties
<1> DEFINE x == SubSeq(text, from, n - 1)
           e == text[n]
<1>1. x \in Seq(Letters)
  BY <1>0, StretchIs
<1>2. e \in Letters
  BY ElementOfSeq
<1>3. SubSeq(text, from, n) = x \o <<e>>
  BY <1>0, SubSeqRecursiveSecond
<1> HIDE DEF x, e
<1>4. x \o <<e>> = Append(x, e)
  BY <1>1, <1>2, AppendIsConcat
<1> QED BY <1>1, <1>2, <1>3, <1>4 DEF x, e

\* previous[i] + 1: the letter of the text is put in.
LEMMA ReachedInsert ==
  ASSUME NEW term \in Seq(Letters), NEW text \in Seq(Letters), NEW n \in 1 .. Len(text), NEW i \in 0 .. Len(term),
         NEW k \in Nat, Reached(term, text, n - 1, i, k)
  PROVE  Reached(term, text, n, i, k + 1)
<1> DEFINE s == SubSeq(term, 1, i)
<1>0. Len(text) \in Nat /\ Len(term) \in Nat
  BY LenProperties
<1>1. s \in Seq(Letters)
  <2>1. 1 \in 1 .. Len(term) + 1
    BY <1>0
  <2> QED BY <2>1, StretchIs
<1>2. PICK from \in 1 .. n : SubSeq(text, from, n - 1) \in WithinEdits(s, k)
  <2>1. (n - 1) + 1 = n
    BY <1>0
  <2> QED BY <2>1 DEF Reached
<1> HIDE DEF s
<1> DEFINE x == SubSeq(text, from, n - 1)
           e == text[n]
<1>3. x \in Seq(Letters) /\ e \in Letters /\ SubSeq(text, from, n) = Append(x, e)
  BY ReadsOne
<1>4. x \in WithinEdits(s, k)
  BY <1>2
<1> HIDE DEF x, e
<1>5. Append(x, e) \in OneEdit(x)
  BY <1>3, EditLast
<1>6. Append(x, e) \in WithinEdits(s, k + 1)
  BY <1>1, <1>4, <1>5, NearSteps
<1>7. from \in 1 .. n + 1
  BY <1>0
<1> QED BY <1>3, <1>6, <1>7 DEF Reached, s

\* current[i - 1] + 1: the letter of the term is left out.
LEMMA ReachedRemove ==
  ASSUME NEW term \in Seq(Letters), NEW text \in Seq(Letters), NEW n \in 0 .. Len(text), NEW i \in 1 .. Len(term),
         NEW k \in Nat, Reached(term, text, n, i - 1, k)
  PROVE  Reached(term, text, n, i, k + 1)
<1> DEFINE s == SubSeq(term, 1, i - 1)
           c == term[i]
<1>1. s \in Seq(Letters) /\ c \in Letters /\ SubSeq(term, 1, i) = Append(s, c)
  BY PrefixIs
<1>2. PICK from \in 1 .. n + 1 : SubSeq(text, from, n) \in WithinEdits(s, k)
  BY DEF Reached
<1> HIDE DEF s, c
<1>3. s \in OneEdit(Append(s, c)) /\ Append(s, c) \in Seq(Letters)
  BY <1>1, EditLast
<1>4. SubSeq(text, from, n) \in WithinEdits(Append(s, c), k + 1)
  BY <1>2, <1>3, NearFirst
<1> QED BY <1>1, <1>4 DEF Reached

\* previous[i - 1] + (char != expected[i - 1]): the letters are matched, or one for the other.
LEMMA ReachedMatch ==
  ASSUME NEW term \in Seq(Letters), NEW text \in Seq(Letters), NEW n \in 1 .. Len(text), NEW i \in 1 .. Len(term),
         NEW k \in Nat, Reached(term, text, n - 1, i - 1, k)
  PROVE  Reached(term, text, n, i, k + Differs(text[n], term[i]))
<1> DEFINE s == SubSeq(term, 1, i - 1)
           c == term[i]
           e == text[n]
<1>0. Len(text) \in Nat /\ Len(term) \in Nat
  BY LenProperties
<1>1. s \in Seq(Letters) /\ c \in Letters /\ SubSeq(term, 1, i) = Append(s, c)
  BY PrefixIs
<1>2. PICK from \in 1 .. n : SubSeq(text, from, n - 1) \in WithinEdits(s, k)
  <2>1. (n - 1) + 1 = n
    BY <1>0
  <2> QED BY <2>1 DEF Reached
<1> HIDE DEF s, c
<1> DEFINE x == SubSeq(text, from, n - 1)
<1>3. x \in Seq(Letters) /\ e \in Letters /\ SubSeq(text, from, n) = Append(x, e)
  BY ReadsOne
<1>4. x \in WithinEdits(s, k)
  BY <1>2
<1> HIDE DEF x, e
<1>5. Append(x, e) \in WithinEdits(Append(s, e), k)
  BY <1>1, <1>3, <1>4, NearAppend
<1>6. Append(x, e) \in WithinEdits(Append(s, c), k + Differs(e, c))
  <2>1. CASE e = c
    <3>1. k + Differs(e, c) = k
      BY <2>1 DEF Differs
    <3> QED BY <1>5, <2>1, <3>1
  <2>2. CASE e # c
    <3>1. Append(s, e) \in OneEdit(Append(s, c)) /\ Append(s, c) \in Seq(Letters)
      BY <1>1, <1>3, EditLast
    <3>2. Append(x, e) \in WithinEdits(Append(s, c), k + 1)
      BY <1>5, <3>1, NearFirst
    <3>3. k + Differs(e, c) = k + 1
      BY <2>2 DEF Differs
    <3> QED BY <3>2, <3>3
  <2> QED BY <2>1, <2>2
<1>7. from \in 1 .. n + 1
  BY <1>0
<1>8. \E f \in 1 .. n + 1 : SubSeq(text, f, n) \in WithinEdits(SubSeq(term, 1, i), k + Differs(e, c))
  BY <1>1, <1>3, <1>6, <1>7
<1> QED BY <1>8, Zenon DEF Reached, e, c

\* Nothing of the text is nothing of the term.
LEMMA ReachedNothing ==
  ASSUME NEW term \in Seq(Letters), NEW text \in Seq(Letters), NEW n \in 0 .. Len(text)
  PROVE  Reached(term, text, n, 0, 0)
<1>0. Len(text) \in Nat
  BY LenProperties
<1>1. n + 1 \in 1 .. n + 1 /\ n \in Int /\ n + 1 \in Int /\ n < n + 1 /\ 0 \in Int /\ 1 \in Int /\ 0 < 1
  BY <1>0
<1>2. SubSeq(text, n + 1, n) = <<>> /\ SubSeq(term, 1, 0) = <<>>
  BY <1>1, SubSeqEmpty
<1>3. <<>> \in WithinEdits(<<>>, 0)
  <2> DEFINE e == <<>>
  <2>1. e \in Seq(Letters)
    OBVIOUS
  <2> HIDE DEF e
  <2>2. e \in WithinEdits(e, 0)
    BY <2>1, NearSteps
  <2> QED BY <2>2 DEF e
<1>4. SubSeq(text, n + 1, n) \in WithinEdits(SubSeq(term, 1, 0), 0)
  BY <1>2, <1>3, Zenon
<1> QED BY <1>1, <1>4, Zenon DEF Reached

\* What the loop counts can be done.
LEMMA RowsReached ==
  ASSUME NEW term \in Seq(Letters), NEW text \in Seq(Letters), NEW n \in 0 .. Len(text), NEW i \in 0 .. Len(term)
  PROVE  Reached(term, text, n, i, Rows(term, text)[n][i])
<1> DEFINE m == Len(term)
           N == Len(text)
           r == Rows(term, text)
           S == {j \in 0 .. N : \A l \in 0 .. m : Reached(term, text, j, l, r[j][l])}
<1>0. m \in Nat /\ N \in Nat
  BY LenProperties
<1>1. /\ r[0] = FirstRow(term)
      /\ \A j \in 1 .. N : r[j] = EditRow(term, r[j - 1], text[j])
      /\ \A j \in 0 .. N : r[j] \in CostRow(term)
  BY RowsAre, SteadyCosts
<1> HIDE DEF r
<1>2. 0 \in S
  <2> DEFINE T == {l \in 0 .. m : Reached(term, text, 0, l, l)}
  <2>1. 0 \in 0 .. N /\ 0 \in 0 .. m
    BY <1>0
  <2>2. 0 \in T
    BY <2>1, ReachedNothing
  <2>3. ASSUME NEW l \in 1 .. m, l - 1 \in T PROVE l \in T
    <3> DEFINE k == l - 1
    <3>1. k \in Nat /\ k + 1 = l /\ l \in 0 .. m
      BY <1>0
    <3>2. Reached(term, text, 0, l - 1, k)
      BY <2>3
    <3> HIDE DEF k
    <3>3. Reached(term, text, 0, l, k + 1)
      BY <2>1, <3>1, <3>2, ReachedRemove
    <3> QED BY <3>1, <3>3
  <2>4. 0 .. m \subseteq T
    <3> HIDE DEF T
    <3> QED BY <1>0, <2>2, <2>3, RangeInduction
  <2>5. \A l \in 0 .. m : r[0][l] = l
    BY <1>1 DEF FirstRow
  <2> QED BY <2>1, <2>4, <2>5
<1>3. ASSUME NEW j \in 1 .. N, j - 1 \in S PROVE j \in S
  <2> DEFINE p == r[j - 1]
             q == r[j]
             c == text[j]
             T == {l \in 0 .. m : Reached(term, text, j, l, q[l])}
  <2>1. j \in 0 .. N /\ j - 1 \in 0 .. N
    BY <1>0
  <2>2. p \in CostRow(term) /\ q = EditRow(term, p, c)
    BY <1>1, <2>1
  <2>3. \A l \in 0 .. m : Reached(term, text, j - 1, l, p[l])
    BY <1>3
  <2> HIDE DEF p, q
  <2>4. /\ q[0] = 0
        /\ \A l \in 1 .. m :
              /\ q[l] \in Nat /\ q[l - 1] \in Nat /\ p[l] \in Nat /\ p[l - 1] \in Nat
              /\ q[l] = p[l] + 1 \/ q[l] = q[l - 1] + 1 \/ q[l] = p[l - 1] + Differs(c, term[l])
    BY <2>2, EditRowCosts
  <2>5. 0 \in T
    BY <1>0, <2>1, <2>4, ReachedNothing
  <2>6. ASSUME NEW l \in 1 .. m, l - 1 \in T PROVE l \in T
    <3>1. l \in 0 .. m /\ l - 1 \in 0 .. m
      BY <1>0
    <3> DEFINE k1 == p[l]
               k2 == q[l - 1]
               k3 == p[l - 1]
    <3>2. k1 \in Nat /\ k2 \in Nat /\ k3 \in Nat
      BY <2>4
    <3>3. /\ Reached(term, text, j - 1, l, k1) /\ Reached(term, text, j, l - 1, k2)
          /\ Reached(term, text, j - 1, l - 1, k3)
      BY <2>3, <2>6, <3>1
    <3>4. q[l] = k1 + 1 \/ q[l] = k2 + 1 \/ q[l] = k3 + Differs(c, term[l])
      BY <2>4
    <3> HIDE DEF k1, k2, k3
    <3>5. Reached(term, text, j, l, k1 + 1)
      BY <3>1, <3>2, <3>3, ReachedInsert
    <3>6. Reached(term, text, j, l, k2 + 1)
      BY <2>1, <3>2, <3>3, ReachedRemove
    <3>7. Reached(term, text, j, l, k3 + Differs(c, term[l]))
      BY <3>2, <3>3, ReachedMatch
    <3>8. Reached(term, text, j, l, q[l])
      BY <3>4, <3>5, <3>6, <3>7, Zenon
    <3> QED BY <3>1, <3>8
  <2>7. 0 .. m \subseteq T
    <3> HIDE DEF T
    <3> QED BY <1>0, <2>5, <2>6, RangeInduction
  <2> QED BY <2>1, <2>7 DEF q
<1>4. 0 .. N \subseteq S
  <2> HIDE DEF S
  <2> QED BY <1>0, <1>2, <1>3, RangeInduction
<1> QED BY <1>4 DEF r

\* ocr_score: the least cost the loop finds is no more than k exactly when some stretch of the
\* text is within k insertions, deletions and substitutions of the term.
THEOREM BestCostExact ==
  ASSUME NEW term \in Seq(Letters), NEW text \in Seq(Letters), NEW k \in Nat
  PROVE  BestCost(term, text) <= k <=>
           \E from \in 1 .. Len(text) + 1, to \in 0 .. Len(text) : SubSeq(text, from, to) \in WithinEdits(term, k)
<1>0. Len(term) \in Nat /\ Len(text) \in Nat /\ Len(term) \in 0 .. Len(term)
  BY LenProperties
<1>1. ASSUME NEW from \in 1 .. Len(text) + 1, NEW to \in 0 .. Len(text),
             SubSeq(text, from, to) \in WithinEdits(term, k)
      PROVE  BestCost(term, text) <= k
  BY <1>1, StretchCost
<1>2. ASSUME BestCost(term, text) <= k
      PROVE  \E from \in 1 .. Len(text) + 1, to \in 0 .. Len(text) : SubSeq(text, from, to) \in WithinEdits(term, k)
  <2> DEFINE b == BestCost(term, text)
  <2>1. PICK n \in 0 .. Len(text) : b = Rows(term, text)[n][Len(term)]
    BY BestCostIs
  <2>2. b \in Nat /\ b <= k
    BY <1>2, BestCostIs
  <2>3. Reached(term, text, n, Len(term), b)
    BY <1>0, <2>1, RowsReached
  <2> HIDE DEF b
  <2>4. PICK from \in 1 .. n + 1 : SubSeq(text, from, n) \in WithinEdits(SubSeq(term, 1, Len(term)), b)
    BY <2>3 DEF Reached
  <2>5. SubSeq(term, 1, Len(term)) = term
    BY SubSeqFull
  <2>6. SubSeq(text, from, n) \in WithinEdits(term, k)
    BY <2>2, <2>4, <2>5, NearGrows
  <2>7. from \in 1 .. Len(text) + 1
    BY <1>0
  <2> QED BY <2>6, <2>7
<1> QED BY <1>1, <1>2

\* if term in normalized: return 1.0.  The loop would find so too, in that case and in no other;
\* so the early return, which the model leaves out, changes no score.
THEOREM ShortcutExact ==
  ASSUME NEW term \in Seq(Letters), NEW text \in Seq(Letters)
  PROVE  (\E from \in 1 .. Len(text) + 1, to \in 0 .. Len(text) : SubSeq(text, from, to) = term) <=>
           BestCost(term, text) = 0
<1>1. 0 \in Nat
  OBVIOUS
<1>2. BestCost(term, text) <= 0 <=>
        \E from \in 1 .. Len(text) + 1, to \in 0 .. Len(text) : SubSeq(text, from, to) \in WithinEdits(term, 0)
  BY <1>1, BestCostExact, Zenon
<1>3. \A u : u \in WithinEdits(term, 0) <=> u = term
  BY NearSteps
<1>4. BestCost(term, text) <= 0 <=> BestCost(term, text) = 0
  BY BestCostIs
<1>5. ASSUME NEW from \in 1 .. Len(text) + 1, NEW to \in 0 .. Len(text), SubSeq(text, from, to) = term
      PROVE  BestCost(term, text) = 0
  <2>1. SubSeq(text, from, to) \in WithinEdits(term, 0)
    BY <1>3, <1>5, Zenon
  <2> QED BY <1>2, <1>4, <2>1, Zenon
<1>6. ASSUME BestCost(term, text) = 0
      PROVE  \E from \in 1 .. Len(text) + 1, to \in 0 .. Len(text) : SubSeq(text, from, to) = term
  <2>1. PICK from \in 1 .. Len(text) + 1, to \in 0 .. Len(text) : SubSeq(text, from, to) \in WithinEdits(term, 0)
    BY <1>2, <1>4, <1>6, Zenon
  <2>2. SubSeq(text, from, to) = term
    BY <1>3, <2>1, Zenon
  <2> QED BY <2>2, Zenon
<1> QED BY <1>5, <1>6, Zenon

----------------------------------------------------------------------------
(* ocr_score: the texts, the share, and what the call answers. *)

\* What is left of a text is letters.
LEMMA NormalizedType ==
  ASSUME NEW text \in Seq(Characters)
  PROVE  Normalized(text) \in Seq(Letters)
<1> DEFINE N == Len(text)
           A == Seq(Letters)
           Kept(n, x) == IF text[n] \in Letters THEN Append(x, text[n]) ELSE x
           F == [n \in Nat |-> [x \in A |-> Kept(n, x)]]
           kept[n \in 0 .. N] ==
             IF n = 0 THEN <<>>
             ELSE IF text[n] \in Letters THEN Append(kept[n - 1], text[n]) ELSE kept[n - 1]
<1>0. N \in Nat
  BY LenProperties
<1>1. \A x \in A, n \in Nat : Kept(n, x) \in A
  OBVIOUS
<1>2. <<>> \in A
  OBVIOUS
<1>3. F \in Rounds(A)
  <2> HIDE DEF A, Kept
  <2> QED BY <1>1 DEF Rounds
<1> HIDE DEF A, N, Kept
<1>4. PICK h : IsTable(h, A, <<>>, N, F)
  <2> DEFINE e == <<>>
  <2>1. e \in A
    BY <1>2
  <2> HIDE DEF F, e
  <2>2. \E h : IsTable(h, A, e, N, F)
    BY <1>0, <1>3, <2>1, TableUpTo, Zenon
  <2> QED BY <2>2 DEF e
<1>5. ASSUME NEW n \in 0 .. N, n # 0 PROVE F[n][h[n - 1]] = Kept(n, h[n - 1]) /\ h[n - 1] \in A
  <2>1. n \in Nat /\ n - 1 \in 0 .. N
    BY <1>0, <1>5
  <2>2. h[n - 1] \in A
    BY <1>4, <2>1 DEF IsTable
  <2> QED BY <2>1, <2>2
<1>6. h = [n \in 0 .. N |-> IF n = 0 THEN <<>> ELSE Kept(n, h[n - 1])]
  <2> HIDE DEF F
  <2> QED BY <1>4, <1>5 DEF IsTable
<1>7. kept = [n \in 0 .. N |-> IF n = 0 THEN <<>> ELSE Kept(n, kept[n - 1])]
  <2>1. \E f : f = [n \in 0 .. N |-> IF n = 0 THEN <<>> ELSE Kept(n, f[n - 1])]
    BY <1>6
  <2> QED BY <2>1, Zenon DEF Kept
<1>8. Normalized(text) = kept[N]
  BY Zenon DEF Normalized, N
<1> HIDE DEF kept
<1> DEFINE S == {n \in 0 .. N : kept[n] \in A}
<1>9. 0 \in S
  BY <1>0, <1>2, <1>7
<1>10. ASSUME NEW n \in 1 .. N, n - 1 \in S PROVE n \in S
  <2>1. n \in 0 .. N /\ n # 0 /\ n \in Nat /\ kept[n - 1] \in A
    BY <1>0, <1>10
  <2>2. kept[n] = Kept(n, kept[n - 1])
    BY <1>7, <2>1
  <2> QED BY <1>1, <2>1, <2>2
<1>11. 0 .. N \subseteq S
  <2> HIDE DEF S
  <2> QED BY <1>0, <1>9, <1>10, RangeInduction
<1>12. N \in 0 .. N
  BY <1>0
<1> QED BY <1>8, <1>11, <1>12 DEF A

\* The pages' texts, one after the other, are a text.
LEMMA FlattenType ==
  ASSUME NEW S, NEW seqs \in Seq(Seq(S))
  PROVE  FlattenSeq(seqs) \in Seq(S)
<1> DEFINE N == Len(seqs)
           A == Seq(S)
           Join(n, x) == IF n = 1 THEN seqs[n] ELSE x \o seqs[n]
           F == [n \in Nat |-> [x \in A |-> IF n \in 1 .. N THEN Join(n, x) ELSE x]]
           flatten[i \in 1 .. N] == IF i = 1 THEN seqs[i] ELSE flatten[i - 1] \o seqs[i]
<1>0. N \in Nat
  BY LenProperties
<1>1. ASSUME NEW x \in A, NEW n \in 1 .. N PROVE Join(n, x) \in A
  <2>1. seqs[n] \in A
    BY ElementOfSeq
  <2> QED BY <2>1, ConcatProperties
<1>2. <<>> \in A
  OBVIOUS
<1>3. F \in Rounds(A)
  <2> HIDE DEF A, Join
  <2> QED BY <1>1 DEF Rounds
<1>4. PICK h : IsTable(h, A, <<>>, N, F)
  <2> DEFINE e == <<>>
  <2>1. e \in A
    BY <1>2
  <2> HIDE DEF F, e, A, N
  <2>2. \E h : IsTable(h, A, e, N, F)
    BY <1>0, <1>3, <2>1, TableUpTo, Zenon
  <2> QED BY <2>2 DEF e
<1>5. CASE N = 0
  <2>1. FlattenSeq(seqs) = seqs
    BY <1>5 DEF FlattenSeq
  <2>2. seqs = <<>>
    BY <1>5
  <2> QED BY <2>1, <2>2
<1>6. CASE N # 0
  <2> HIDE DEF A, N, Join
  <2>1. ASSUME NEW n \in 1 .. N PROVE h[n] = Join(n, h[n - 1])
    <3>1. n \in Nat /\ n # 0 /\ n \in 0 .. N /\ n - 1 \in 0 .. N
      BY <1>0
    <3>2. h[n] = F[n][h[n - 1]] /\ h[n - 1] \in A
      <4> HIDE DEF F
      <4> QED BY <1>4, <3>1 DEF IsTable
    <3> QED BY <3>1, <3>2
  <2> DEFINE g == [n \in 1 .. N |-> h[n]]
  <2>2. ASSUME NEW n \in 1 .. N PROVE g[n] = IF n = 1 THEN seqs[n] ELSE g[n - 1] \o seqs[n]
    <3>1. CASE n = 1
      BY <2>1, <3>1 DEF Join
    <3>2. CASE n # 1
      <4>1. n - 1 \in 1 .. N
        BY <1>0, <3>2
      <4>2. g[n] = h[n] /\ g[n - 1] = h[n - 1]
        BY <4>1
      <4>3. h[n] = h[n - 1] \o seqs[n]
        BY <2>1, <3>2 DEF Join
      <4> HIDE DEF g
      <4> QED BY <3>2, <4>2, <4>3
    <3> QED BY <3>1, <3>2
  <2>3. g = [n \in 1 .. N |-> g[n]]
    OBVIOUS
  <2> HIDE DEF g
  <2>4. g = [n \in 1 .. N |-> IF n = 1 THEN seqs[n] ELSE g[n - 1] \o seqs[n]]
    BY <2>2, <2>3
  <2>5. flatten = [n \in 1 .. N |-> IF n = 1 THEN seqs[n] ELSE flatten[n - 1] \o seqs[n]]
    <3>1. \E f : f = [n \in 1 .. N |-> IF n = 1 THEN seqs[n] ELSE f[n - 1] \o seqs[n]]
      BY <2>4, Zenon
    <3> QED BY <3>1, Zenon
  <2>6. FlattenSeq(seqs) = flatten[N]
    BY <1>6, Zenon DEF FlattenSeq, N
  <2> HIDE DEF flatten
  <2> DEFINE T == {n \in 0 .. N : n # 0 => flatten[n] \in A}
  <2>7. 0 \in T
    BY <1>0
  <2>8. ASSUME NEW n \in 1 .. N, n - 1 \in T PROVE n \in T
    <3>1. n \in 0 .. N /\ flatten[n] = IF n = 1 THEN seqs[n] ELSE flatten[n - 1] \o seqs[n]
      <4> DEFINE e(i) == IF i = 1 THEN seqs[i] ELSE flatten[i - 1] \o seqs[i]
      <4>1. flatten = [i \in 1 .. N |-> e(i)]
        BY <2>5, Zenon
      <4> HIDE DEF e
      <4>2. n \in 0 .. N /\ flatten[n] = e(n)
        BY <1>0, <4>1
      <4> QED BY <4>2, Zenon DEF e
    <3>2. CASE n = 1
      <4>1. flatten[n] = seqs[n] /\ seqs[n] \in A
        BY <3>1, <3>2, ElementOfSeq DEF A, N
      <4> QED BY <3>1, <4>1
    <3>3. CASE n # 1
      <4>1. flatten[n - 1] \in A
        BY <1>0, <2>8, <3>3
      <4>2. flatten[n] = Join(n, flatten[n - 1])
        BY <3>1, <3>3 DEF Join
      <4> QED BY <1>1, <3>1, <4>1, <4>2
    <3> QED BY <3>2, <3>3
  <2>9. 0 .. N \subseteq T
    <3> HIDE DEF T
    <3> QED BY <1>0, <2>7, <2>8, RangeInduction
  <2>10. N \in 0 .. N
    BY <1>0
  <2> QED BY <1>6, <2>6, <2>9, <2>10 DEF A
<1> QED BY <1>5, <1>6

\* The share of the term that must be right, in whole letters.
LEMMA ShareOf ==
  ASSUME NEW m \in Nat, NEW b \in Nat, NEW p \in 1 .. 100
  PROVE  /\ ((100 - p) * m) \div 100 \in Nat
         /\ (m - b) * 100 >= p * m <=> b <= ((100 - p) * m) \div 100
<1> DEFINE x == (100 - p) * m
           y == p * m
<1>1. x \in Int /\ y \in Int /\ x + y = 100 * m
  OBVIOUS
<1>2. x \in Nat
  OBVIOUS
<1> HIDE DEF x, y
<1>3. x \div 100 \in Nat /\ (b <= x \div 100 <=> 100 * b <= x)
  BY <1>2
<1>4. (m - b) * 100 >= y <=> 100 * b <= x
  BY <1>1, <1>2
<1> QED BY <1>3, <1>4 DEF x, y

\* score >= threshold says that some stretch of the text is near enough to the term.
THEOREM ScoreExact ==
  ASSUME NEW expected \in Seq(Characters), NEW text \in Seq(Characters)
  PROVE  ScoreReached(expected, text) <=>
           LET term == Normalized(expected)
               found == Normalized(text)
               near == WithinEdits(term, ((100 - Percent) * Len(term)) \div 100)
           IN \E from \in 1 .. Len(found) + 1, to \in 0 .. Len(found) : SubSeq(found, from, to) \in near
<1> DEFINE term == Normalized(expected)
           found == Normalized(text)
           k == ((100 - Percent) * Len(term)) \div 100
           b == BestCost(term, found)
<1>1. term \in Seq(Letters) /\ found \in Seq(Letters)
  BY NormalizedType
<1>2. ScoreReached(expected, text) <=> (Len(term) - b) * 100 >= Percent * Len(term)
  BY DEF ScoreReached
<1> HIDE DEF term, found
<1>3. Len(term) \in Nat /\ b \in Nat
  BY <1>1, LenProperties, BestCostIs
<1>4. Percent \in 1 .. 100
  BY SandboxAssumption
<1>5. k \in Nat /\ ((Len(term) - b) * 100 >= Percent * Len(term) <=> b <= k)
  BY <1>3, <1>4, ShareOf
<1> HIDE DEF k
<1>6. b <= k <=> \E from \in 1 .. Len(found) + 1, to \in 0 .. Len(found) :
                   SubSeq(found, from, to) \in WithinEdits(term, k)
  BY <1>1, <1>5, BestCostExact
<1> QED BY <1>2, <1>5, <1>6, Zenon DEF term, found, k

\* Each of the expected terms, and there is one, is near enough to some stretch of the pages'
\* letters.
TermsFound ==
  LET text == Normalized(FlattenSeq(texts)) IN
  /\ ocr # <<>>
  /\ \A i \in DOMAIN ocr :
       LET term == Normalized(ocr[i])
           near == WithinEdits(term, ((100 - Percent) * Len(term)) \div 100)
       IN \E from \in 1 .. Len(text) + 1, to \in 0 .. Len(text) : SubSeq(text, from, to) \in near

\* What the child says of the terms is so of the pages it read, from then on.
SimilarityInv ==
  /\ ocr = None \/ ocr \in Seq(Seq(Characters))
  /\ (answer # None /\ answer.ok /\ ocr # None) => (answer.matches <=> TermsFound)

\* What the child finds, when it compares the terms with the pages.
LEMMA TermsScored ==
  ASSUME ocr \in Seq(Seq(Characters)), texts \in Seq(PageTexts)
  PROVE  (ocr # <<>> /\ \A i \in DOMAIN ocr : ScoreReached(ocr[i], FlattenSeq(texts))) <=> TermsFound
<1> DEFINE text == FlattenSeq(texts)
           Found(i) == LET term == Normalized(ocr[i])
                           found == Normalized(text)
                           near == WithinEdits(term, ((100 - Percent) * Len(term)) \div 100)
                       IN \E from \in 1 .. Len(found) + 1, to \in 0 .. Len(found) : SubSeq(found, from, to) \in near
<1>1. text \in Seq(Characters)
  <2>1. PageTexts \subseteq Seq(Characters)
    BY SandboxAssumption
  <2>2. texts \in Seq(Seq(Characters))
    BY <2>1, SeqMonotonic
  <2> QED BY <2>2, FlattenType
<1> HIDE DEF text
<1>2. ASSUME NEW i \in DOMAIN ocr PROVE ScoreReached(ocr[i], text) <=> Found(i)
  <2> DEFINE e == ocr[i]
  <2>1. e \in Seq(Characters)
    BY LenProperties, ElementOfSeq
  <2> HIDE DEF e
  <2>2. ScoreReached(e, text) <=>
           LET term == Normalized(e)
               found == Normalized(text)
               near == WithinEdits(term, ((100 - Percent) * Len(term)) \div 100)
           IN \E from \in 1 .. Len(found) + 1, to \in 0 .. Len(found) : SubSeq(found, from, to) \in near
    BY <1>1, <2>1, ScoreExact, Zenon
  <2> QED BY <2>2, Zenon DEF e
<1>3. TermsFound <=> ocr # <<>> /\ \A i \in DOMAIN ocr : Found(i)
  BY Zenon DEF TermsFound, text
<1> HIDE DEF Found
<1>4. (ocr # <<>> /\ \A i \in DOMAIN ocr : ScoreReached(ocr[i], text)) <=> TermsFound
  BY <1>2, <1>3, Zenon
<1> QED BY <1>4, Zenon DEF text

\* A step that changes neither what is known of the pages nor the answer keeps what was said.
LEMMA SimilarityKept ==
  ASSUME SimilarityInv, UNCHANGED ocr,
         (UNCHANGED <<texts, answer>>) \/ answer' = None \/ (answer' # None /\ ~answer'.ok)
  PROVE  SimilarityInv'
<1>1. CASE UNCHANGED <<texts, answer>>
  <2>1. TermsFound' = TermsFound
    BY <1>1 DEF TermsFound
  <2> QED BY <1>1, <2>1 DEF SimilarityInv
<1>2. CASE answer' = None \/ (answer' # None /\ ~answer'.ok)
  BY <1>2 DEF SimilarityInv
<1> QED BY <1>1, <1>2

\* It holds when the call is made.
LEMMA SimilarityInit ==
  Init => SimilarityInv
<1> SUFFICES ASSUME Init PROVE SimilarityInv
  OBVIOUS
<1>1. PICK shape \in DOMAIN Requests : \E call \in Requests[shape] : file = call.file /\ ocr = call.expected
  BY DEF Init
<1>2. ocr = None \/ ocr \in Seq(Seq(Characters))
  BY <1>1, SandboxAssumption
<1>3. answer = None
  BY DEF Init
<1> QED BY <1>2, <1>3 DEF SimilarityInv

\* Every step of the child and of the parent keeps it, behind what the phases say.
LEMMA SimilarityStep ==
  SandboxInv /\ SimilarityInv /\ [Next]_vars => SimilarityInv'
<1> SUFFICES ASSUME SandboxInv, SimilarityInv, [Next]_vars PROVE SimilarityInv'
  OBVIOUS
<1>0. \A r \in Reasons \cup Refusals : Refused(r) # None /\ ~Refused(r).ok
  BY AnswersType
<1>1. CASE Gate
  <2>1. phase = "gate" /\ answer = None /\ UNCHANGED ocr
    BY <1>1 DEF Gate, SandboxInv
  <2>2. CASE Validate(file) # "accepted"
    <3>1. answer' = Refused(Validate(file))
      BY <1>1, <2>2 DEF Gate, Say
    <3>2. Validate(file) \in Refusals
      BY <2>2, GateExact DEF SandboxInv, Verdicts
    <3> QED BY <1>0, <2>1, <3>1, <3>2, SimilarityKept
  <2>3. CASE Validate(file) = "accepted" /\ ocr = None
    BY <2>1, <2>3 DEF SimilarityInv
  <2>4. CASE Validate(file) = "accepted" /\ ocr # None /\ Len(ocr) > MaxTerms
    <3>1. answer' = Refused("ocr_expected_term_limit")
      BY <1>1, <2>4 DEF Gate, Say
    <3>2. "ocr_expected_term_limit" \in Reasons
      BY DEF Reasons
    <3> QED BY <1>0, <2>1, <3>1, <3>2, SimilarityKept
  <2>5. CASE Validate(file) = "accepted" /\ ocr # None /\ ~(Len(ocr) > MaxTerms)
    <3>1. answer' = None
      BY <1>1, <2>1, <2>5 DEF Gate
    <3> QED BY <2>1, <3>1, SimilarityKept
  <2> QED BY <2>2, <2>3, <2>4, <2>5
<1>2. CASE ReadPage
  <2>1. answer' = None /\ UNCHANGED ocr
    BY <1>2 DEF ReadPage, SandboxInv
  <2> QED BY <2>1, SimilarityKept
<1>3. CASE ToolFails
  <2>1. answer' = Refused("tool") /\ UNCHANGED ocr
    BY <1>3 DEF ToolFails, Say
  <2>2. "tool" \in Reasons
    BY DEF Reasons
  <2> QED BY <1>0, <2>1, <2>2, SimilarityKept
<1>4. CASE Score
  <2> DEFINE m == ocr # <<>> /\ \A i \in DOMAIN ocr : ScoreReached(ocr[i], FlattenSeq(texts))
  <2>1. UNCHANGED <<ocr, texts>>
    BY <1>4 DEF Score
  <2>2. answer' = Refused("ocr_comparison_limit") \/ answer' = Accepted(m)
    BY <1>4 DEF Score, Say
  <2>3. CASE answer' = Refused("ocr_comparison_limit")
    <3>1. "ocr_comparison_limit" \in Reasons
      BY DEF Reasons
    <3> QED BY <1>0, <2>1, <2>3, <3>1, SimilarityKept
  <2>4. CASE answer' = Accepted(m)
    <3>1. CASE ocr = None
      BY <2>1, <3>1 DEF SimilarityInv
    <3>2. CASE ocr # None
      <4>1. ocr \in Seq(Seq(Characters)) /\ texts \in Seq(PageTexts)
        BY <3>2 DEF SimilarityInv, SandboxInv, TypeOK
      <4>2. m <=> TermsFound
        BY <4>1, TermsScored
      <4>3. TermsFound' = TermsFound
        BY <2>1 DEF TermsFound
      <4> HIDE DEF m
      <4>4. answer'.matches = m
        BY <2>4 DEF Accepted
      <4> QED BY <2>1, <4>1, <4>2, <4>3, <4>4 DEF SimilarityInv
    <3> QED BY <3>1, <3>2
  <2> QED BY <2>2, <2>3, <2>4
<1>5. CASE Die
  <2>1. UNCHANGED <<ocr, texts, answer>>
    BY <1>5 DEF Die
  <2> QED BY <2>1, SimilarityKept
<1>6. CASE Return
  <2>1. UNCHANGED <<ocr, texts, answer>>
    BY <1>6 DEF Return
  <2> QED BY <2>1, SimilarityKept
<1>7. CASE GiveUp
  <2>1. UNCHANGED <<ocr, texts, answer>>
    BY <1>7 DEF GiveUp
  <2> QED BY <2>1, SimilarityKept
<1>8. CASE UNCHANGED vars
  <2>1. UNCHANGED <<ocr, texts, answer>>
    BY <1>8 DEF vars
  <2> QED BY <2>1, SimilarityKept
<1> QED BY <1>1, <1>2, <1>3, <1>4, <1>5, <1>6, <1>7, <1>8 DEF Next

\* However the call ends, an answer that is accepted says the expected terms match exactly when
\* each of them is within the allowed share of edits of some stretch of the pages' letters.
THEOREM MatchIsSimilarityHolds ==
  Spec => []MatchIsSimilarity
<1>1. Init => SimilarityInv
  BY SimilarityInit
<1>2. SandboxInv /\ SimilarityInv /\ [Next]_vars => SimilarityInv'
  BY SimilarityStep
<1>3. SandboxInv /\ SimilarityInv => MatchIsSimilarity
  <2> SUFFICES ASSUME SandboxInv, SimilarityInv, result # None, result.ok, ocr # None
               PROVE  result.matches <=> TermsFound
    BY Zenon DEF MatchIsSimilarity, TermsFound
  <2>1. result = answer
    BY DEF SandboxInv, TypeOK
  <2> QED BY <2>1 DEF SimilarityInv
<1> QED BY <1>1, <1>2, <1>3, SandboxInvariant, PTL DEF Spec
============================================================================
