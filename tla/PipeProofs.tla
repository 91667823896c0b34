----------------------------- MODULE PipeProofs -----------------------------
(***************************************************************************)
(* Lemmas about the pipe between the client's master and a worker (Dispatch): *)
(* what fill_buffer_in puts into it, parse_buffer gets out again, wherever    *)
(* the reads cut it, for any length of a name and any size of the buffer.     *)
(***************************************************************************)
EXTENDS Dispatch, SequenceTheorems, FiniteSetTheorems, WellFoundedInduction, TLAPS

----------------------------------------------------------------------------
\* The bytes of whole messages, one behind the other.

Piece == [name : Name, piece : 1 .. Pieces]

Follows(x, y) == IF x.piece = Pieces THEN y.piece = 1
                 ELSE y = [name |-> x.name, piece |-> x.piece + 1]

\* From the start of a message on, up to anywhere.
Framed(s) ==
  /\ s \in Seq(Piece)
  /\ s # << >> => s[1].piece = 1
  /\ \A i \in 1 .. (Len(s) - 1) : Follows(s[i], s[i + 1])

\* ... up to the end of one.
Complete(s) == Framed(s) /\ (s # << >> => s[Len(s)].piece = Pieces)

----------------------------------------------------------------------------
\* A set of numbers has a least one: the form of induction used here.
LEMMA LeastNat ==
  ASSUME NEW T \in SUBSET Nat, T # {}
  PROVE  \E x \in T : \A y \in T : x <= y
<1>1. PICK x \in T : \A y \in T : ~ (<< y, x >> \in OpToRel(<, Nat))
  BY NatLessThanWellFounded, WFMin
<1>2. \A y \in T : ~ (y < x) BY <1>1 DEF OpToRel
<1>. QED BY <1>2

LEMMA Sizes == Pieces \in Nat /\ Pieces >= 2 /\ BufSize \in Nat /\ Pieces <= BufSize
BY DispatchAssumption

\* Position a of the bytes: which message it is of, and which piece of it.
LEMMA Divided ==
  ASSUME NEW P \in Nat, P >= 2, NEW a \in Nat
  PROVE  /\ a \div P \in Nat /\ a % P \in 0 .. (P - 1)
         /\ a < P => a \div P = 0 /\ a % P = a
         /\ \A n \in Nat : a < P * n => a \div P < n
         /\ IF a % P = P - 1 THEN (a + 1) % P = 0
            ELSE (a + 1) \div P = a \div P /\ (a + 1) % P = (a % P) + 1
<1>1. a \div P \in Nat /\ a % P \in 0 .. (P - 1) OBVIOUS
<1>2. a < P => a \div P = 0 /\ a % P = a OBVIOUS
<1>3. \A n \in Nat : a < P * n => a \div P < n OBVIOUS
<1>4. IF a % P = P - 1 THEN (a + 1) % P = 0
      ELSE (a + 1) \div P = a \div P /\ (a + 1) % P = (a % P) + 1
  OBVIOUS
<1>. QED BY <1>1, <1>2, <1>3, <1>4

LEMMA Multiple ==
  ASSUME NEW P \in Nat, P >= 2, NEW n \in Nat
  PROVE  /\ P * n \in Nat
         /\ n # 0 => (P * n - 1) % P = P - 1 /\ P * n >= 1
         /\ n = 0 => P * n = 0
OBVIOUS

\* What is before the marker of one name.
LEMMA TextIs ==
  ASSUME NEW f
  PROVE  /\ Len(Text(f)) = Pieces - 1 /\ DOMAIN Text(f) = 1 .. (Pieces - 1)
         /\ \A i \in 1 .. (Pieces - 1) : Text(f)[i] = [name |-> f, piece |-> i]
         /\ f \in Name => Text(f) \in Seq(Piece)
<1>. DEFINE b == Bytes(<< f >>)
<1>1. \A i \in 1 .. Pieces : b[i] = [name |-> f, piece |-> i]
  <2>1. TAKE i \in 1 .. Pieces
  <2>2. i - 1 \in Nat /\ i - 1 < Pieces /\ (i - 1) + 1 = i BY Sizes
  <2>3. (i - 1) \div Pieces = 0 /\ (i - 1) % Pieces = i - 1 BY <2>2, Sizes, Divided
  <2>4. Len(<< f >>) = 1 /\ Pieces * Len(<< f >>) = Pieces BY Sizes
  <2>5. << f >>[((i - 1) \div Pieces) + 1] = f BY <2>3
  <2>6. b = [j \in 1 .. Pieces |-> [name |-> << f >>[((j - 1) \div Pieces) + 1],
                                  piece |-> ((j - 1) % Pieces) + 1]]
    BY <2>4 DEF Bytes
  <2>. HIDE DEF b
  <2>. QED BY <2>2, <2>3, <2>5, <2>6
<1>. HIDE DEF b
<1>2. \A i \in 1 .. (Pieces - 1) : b[i] \in {[name |-> f, piece |-> k] : k \in 1 .. Pieces}
  <2>1. \A i \in 1 .. (Pieces - 1) : i \in 1 .. Pieces BY Sizes
  <2>. QED BY <1>1, <2>1
<1>3. Text(f) = SubSeq(b, 1, Pieces - 1) BY DEF Text, b
<1>4. /\ SubSeq(b, 1, Pieces - 1) \in Seq({[name |-> f, piece |-> k] : k \in 1 .. Pieces})
      /\ Len(SubSeq(b, 1, Pieces - 1)) = Pieces - 1
      /\ \A i \in 1 .. (Pieces - 1) : SubSeq(b, 1, Pieces - 1)[i] = b[i]
  <2>1. 1 \in Int /\ Pieces - 1 \in Int /\ 1 <= Pieces - 1 BY Sizes
  <2>2. \A i \in 1 .. (Pieces - 1 - 1 + 1) : 1 + i - 1 = i OBVIOUS
  <2>. QED BY <1>2, <2>1, <2>2, SubSeqProperties, Sizes
<1>5. DOMAIN Text(f) = 1 .. (Pieces - 1) BY <1>3, <1>4, LenProperties
<1>6. f \in Name => Text(f) \in Seq(Piece)
  <2>1. f \in Name => {[name |-> f, piece |-> k] : k \in 1 .. Pieces} \subseteq Piece BY DEF Piece
  <2>. QED BY <1>3, <1>4, <2>1, SeqMonotonic
<1>. QED BY <1>1, <1>3, <1>4, <1>5, <1>6, Sizes

LEMMA TextTellsName ==
  ASSUME NEW f, NEW g, Text(f) = Text(g)
  PROVE  f = g
<1>1. 1 \in 1 .. (Pieces - 1) BY Sizes
<1>2. [name |-> f, piece |-> 1] = [name |-> g, piece |-> 1] BY <1>1, TextIs
<1>. QED BY <1>2

\* What fill_buffer_in writes is whole messages.
LEMMA BytesComplete ==
  ASSUME NEW q \in Seq(Name)
  PROVE  /\ Complete(Bytes(q))
         /\ \A i \in DOMAIN Bytes(q) : \E k \in DOMAIN q : Bytes(q)[i].name = q[k]
<1>. DEFINE n == Len(q)
            b == Bytes(q)
            m(i) == ((i - 1) \div Pieces) + 1
            p(i) == ((i - 1) % Pieces) + 1
<1>1. n \in Nat /\ DOMAIN q = 1 .. n /\ \A k \in 1 .. n : q[k] \in Name
  BY LenProperties
<1>2. Pieces * n \in Nat /\ b = [i \in 1 .. (Pieces * n) |-> [name |-> q[m(i)], piece |-> p(i)]]
  BY <1>1, Sizes, Multiple DEF Bytes
<1>3. \A i \in 1 .. (Pieces * n) : m(i) \in 1 .. n /\ p(i) \in 1 .. Pieces
  <2>1. TAKE i \in 1 .. (Pieces * n)
  <2>2. i - 1 \in Nat /\ i - 1 < Pieces * n BY <1>2
  <2>3. (i - 1) \div Pieces \in Nat /\ (i - 1) \div Pieces < n /\ (i - 1) % Pieces \in 0 .. (Pieces - 1)
    BY <1>1, <2>2, Sizes, Divided
  <2>. QED BY <1>1, <2>3, Sizes
<1>4. /\ DOMAIN b = 1 .. (Pieces * n)
      /\ \A i \in 1 .. (Pieces * n) : b[i] = [name |-> q[m(i)], piece |-> p(i)]
  BY <1>2
<1>5. \A i \in 1 .. (Pieces * n) : b[i] \in Piece /\ b[i].name = q[m(i)] /\ b[i].piece = p(i)
  BY <1>1, <1>3, <1>4 DEF Piece
<1>6. b \in Seq(Piece) /\ Len(b) = Pieces * n
  <2>1. b \in [1 .. (Pieces * n) -> Piece] BY <1>2, <1>5
  <2>2. Pieces * n \in Nat BY <1>2
  <2>3. \A L \in Nat : \A s \in [1 .. L -> Piece] : s \in Seq(Piece) /\ Len(s) = L OBVIOUS
  <2>. HIDE DEF b
  <2>. QED BY <2>1, <2>2, <2>3
<1>7. \A i \in 1 .. (Pieces * n - 1) : Follows(b[i], b[i + 1])
  <2>1. TAKE i \in 1 .. (Pieces * n - 1)
  <2>2. i - 1 \in Nat /\ (i - 1) + 1 = (i + 1) - 1 /\ i \in 1 .. (Pieces * n)
        /\ i + 1 \in 1 .. (Pieces * n)
    BY <1>2
  <2>3. IF (i - 1) % Pieces = Pieces - 1 THEN ((i - 1) + 1) % Pieces = 0
        ELSE /\ ((i - 1) + 1) \div Pieces = (i - 1) \div Pieces
             /\ ((i - 1) + 1) % Pieces = ((i - 1) % Pieces) + 1
    BY <2>2, Sizes, Divided
  <2>4. (i - 1) % Pieces \in Nat BY <2>2, Sizes, Divided
  <2>5. IF p(i) = Pieces THEN p(i + 1) = 1 ELSE m(i + 1) = m(i) /\ p(i + 1) = p(i) + 1
    BY <2>2, <2>3, <2>4, Sizes
  <2>. HIDE DEF m, p
  <2>. QED BY <1>4, <1>5, <2>2, <2>5 DEF Follows
<1>8. b # << >> => b[1].piece = 1 /\ b[Len(b)].piece = Pieces
  <2>1. SUFFICES ASSUME b # << >> PROVE b[1].piece = 1 /\ b[Len(b)].piece = Pieces OBVIOUS
  <2>2. n # 0 BY <1>1, <1>6, <2>1, Multiple, Sizes, EmptySeq
  <2>3. (Pieces * n - 1) % Pieces = Pieces - 1 /\ Pieces * n >= 1 BY <1>1, <2>2, Multiple, Sizes
  <2>4. 0 % Pieces = 0 BY Sizes, Divided
  <2>5. p(1) = 1 /\ p(Pieces * n) = Pieces BY <2>3, <2>4, Sizes
  <2>. QED BY <1>2, <1>5, <1>6, <2>3, <2>5
<1>. QED BY <1>1, <1>3, <1>4, <1>5, <1>6, <1>7, <1>8 DEF Complete, Framed

----------------------------------------------------------------------------
\* One message.

\* a is the place of a marker, or before the first byte.
Boundary(s, a) == a = 0 \/ (a \in 1 .. Len(s) /\ s[a].piece = Pieces)

\* From a boundary on the pieces of one name follow in their order until a marker.
LEMMA Run ==
  ASSUME NEW s, Framed(s), NEW a \in 0 .. Len(s), Boundary(s, a), NEW b \in a .. Len(s),
         \A x \in (a + 1) .. (b - 1) : s[x].piece # Pieces
  PROVE  \A i \in 1 .. (b - a) : s[a + i] = [name |-> s[a + 1].name, piece |-> i]
<1>. DEFINE f == s[a + 1].name
            T == {i \in 1 .. (b - a) : s[a + i] # [name |-> f, piece |-> i]}
<1>1. Len(s) \in Nat /\ \A i \in 1 .. Len(s) : s[i] \in Piece BY LenProperties DEF Framed
<1>2. a \in Nat /\ b \in Nat /\ a <= b /\ b <= Len(s) BY <1>1
<1>3. SUFFICES ASSUME T # {} PROVE FALSE OBVIOUS
<1>4. PICK i \in T : \A j \in T : i <= j
  <2>1. T \in SUBSET Nat BY <1>2
  <2>. QED BY <1>3, <2>1, LeastNat
<1>5. i \in 1 .. (b - a) /\ s[a + i] # [name |-> f, piece |-> i] OBVIOUS
<1>6. CASE i = 1
  <2>1. a + 1 \in 1 .. Len(s) BY <1>2, <1>5, <1>6
  <2>2. s[a + 1] \in Piece BY <1>1, <2>1
  <2>3. s[a + 1].piece = 1
    <3>1. CASE a = 0
      <4>1. s # << >> BY <1>1, <2>1
      <4>. QED BY <3>1, <4>1 DEF Framed
    <3>2. CASE a # 0
      <4>1. a \in 1 .. (Len(s) - 1) /\ s[a].piece = Pieces BY <1>1, <1>2, <2>1, <3>2 DEF Boundary
      <4>. QED BY <4>1 DEF Framed, Follows
    <3>. QED BY <3>1, <3>2
  <2>. QED BY <1>5, <1>6, <2>2, <2>3 DEF Piece
<1>7. CASE i # 1
  <2>1. /\ i - 1 \in 1 .. (b - a) /\ i - 1 \in Nat /\ ~ (i <= i - 1)
        /\ a + (i - 1) \in 1 .. (Len(s) - 1) /\ (a + (i - 1)) + 1 = a + i
        /\ a + (i - 1) \in (a + 1) .. (b - 1)
    BY <1>1, <1>2, <1>5, <1>7
  <2>2. s[a + (i - 1)] = [name |-> f, piece |-> i - 1] BY <1>4, <2>1
  <2>3. s[a + (i - 1)].piece # Pieces BY <2>1
  <2>4. Follows(s[a + (i - 1)], s[(a + (i - 1)) + 1]) BY <2>1 DEF Framed
  <2>5. Follows([name |-> f, piece |-> i - 1], s[a + i]) BY <2>1, <2>2, <2>4
  <2>6. i - 1 # Pieces BY <2>2, <2>3
  <2>7. (i - 1) + 1 = i BY <2>1
  <2>. HIDE DEF f, T
  <2>8. s[a + i] = [name |-> f, piece |-> (i - 1) + 1] BY <2>5, <2>6 DEF Follows
  <2>. QED BY <1>5, <2>7, <2>8
<1>. QED BY <1>6, <1>7

\* Between two boundaries with none between them is the text of one name.
LEMMA OneMessage ==
  ASSUME NEW s, Framed(s), NEW a \in 0 .. Len(s), Boundary(s, a), NEW b \in 1 .. Len(s), a < b,
         s[b].piece = Pieces, \A x \in (a + 1) .. (b - 1) : s[x].piece # Pieces
  PROVE  s[a + 1].name \in Name /\ SubSeq(s, a + 1, b - 1) = Text(s[a + 1].name)
<1>. DEFINE f == s[a + 1].name
<1>1. Len(s) \in Nat /\ \A i \in 1 .. Len(s) : s[i] \in Piece BY LenProperties DEF Framed
<1>2. \A i \in 1 .. (b - a) : s[a + i] = [name |-> f, piece |-> i]
  <2>1. b \in a .. Len(s) BY <1>1
  <2>. HIDE DEF f
  <2>2. \A i \in 1 .. (b - a) : s[a + i] = [name |-> s[a + 1].name, piece |-> i]
    BY <2>1, Run
  <2>. QED BY <2>2, Zenon DEF f
<1>3. f \in Name
  <2>1. s[a + 1] \in Piece BY <1>1
  <2>. QED BY <2>1 DEF Piece
<1>4. b - a = Pieces
  <2>1. s[a + (b - a)] = [name |-> f, piece |-> b - a] BY <1>1, <1>2
  <2>2. a + (b - a) = b BY <1>1
  <2>. QED BY <2>1, <2>2
<1>. HIDE DEF f
<1>5. \A i \in (a + 1) .. (b - 1) : s[i] \in Piece BY <1>1
<1>. DEFINE t == SubSeq(s, a + 1, b - 1)
<1>6. /\ t \in Seq(Piece) /\ Len(t) = Pieces - 1
      /\ \A i \in 1 .. (Pieces - 1) : t[i] = s[a + i]
  <2>1. a + 1 \in Int /\ b - 1 \in Int /\ a + 1 <= b - 1 /\ (b - 1) - (a + 1) + 1 = Pieces - 1
    BY <1>1, <1>4, Sizes
  <2>2. /\ t \in Seq(Piece) /\ Len(t) = (b - 1) - (a + 1) + 1
        /\ \A i \in 1 .. ((b - 1) - (a + 1) + 1) : t[i] = s[(a + 1) + i - 1]
    BY <1>5, <2>1, SubSeqProperties
  <2>3. \A i \in 1 .. (Pieces - 1) : (a + 1) + i - 1 = a + i BY <1>1, Sizes
  <2>. HIDE DEF t
  <2>. QED BY <2>1, <2>2, <2>3
<1>. HIDE DEF t
<1>7. \A i \in 1 .. (Pieces - 1) : t[i] = [name |-> f, piece |-> i]
  <2>1. \A i \in 1 .. (Pieces - 1) : i \in 1 .. (b - a) BY <1>4, Sizes
  <2>. QED BY <1>2, <1>6, <2>1
<1>8. t = Text(f)
  <2>1. Text(f) \in Seq(Piece) /\ Len(Text(f)) = Len(t) BY <1>3, <1>6, TextIs
  <2>2. \A i \in 1 .. Len(t) : t[i] = Text(f)[i] BY <1>6, <1>7, TextIs
  <2>. QED BY <1>6, <2>1, <2>2, SeqEqual
<1>. QED BY <1>3, <1>8 DEF t, f

----------------------------------------------------------------------------
\* The markers of a buffer, in their order.

Upto(s, j)  == {x \in Ends(s) : x <= j}
Count(s, j) == Cardinality(Upto(s, j))
All(s)      == Cardinality(Ends(s))

LEMMA EndsFinite ==
  ASSUME NEW s \in Seq(Piece)
  PROVE  /\ Ends(s) \subseteq 1 .. Len(s) /\ Len(s) \in Nat
         /\ IsFiniteSet(Ends(s)) /\ All(s) \in Nat
         /\ \A j : IsFiniteSet(Upto(s, j)) /\ Count(s, j) \in Nat
<1>1. Len(s) \in Nat /\ DOMAIN s = 1 .. Len(s) BY LenProperties
<1>2. Ends(s) \subseteq 1 .. Len(s) BY <1>1 DEF Ends
<1>3. IsFiniteSet(1 .. Len(s)) BY <1>1, FS_Interval
<1>4. IsFiniteSet(Ends(s)) BY <1>2, <1>3, FS_Subset
<1>5. All(s) \in Nat BY <1>4, FS_CardinalityType DEF All
<1>6. ASSUME NEW j PROVE IsFiniteSet(Upto(s, j)) /\ Count(s, j) \in Nat
  <2>1. Upto(s, j) \in SUBSET Ends(s) BY DEF Upto
  <2>2. IsFiniteSet(Upto(s, j)) BY <1>4, <2>1, FS_Subset
  <2>. QED BY <2>2, FS_CardinalityType DEF Count
<1>. QED BY <1>1, <1>2, <1>4, <1>5, <1>6

LEMMA Counting ==
  ASSUME NEW s \in Seq(Piece)
  PROVE  /\ Count(s, 0) = 0 /\ Count(s, Len(s)) = All(s)
         /\ \A j \in Nat : Count(s, j + 1) = IF j + 1 \in Ends(s) THEN Count(s, j) + 1 ELSE Count(s, j)
         /\ \A j \in Nat : \A x \in Ends(s) : j < x => Count(s, j) < Count(s, x)
<1>0. Ends(s) \subseteq 1 .. Len(s) /\ Len(s) \in Nat BY EndsFinite
<1>1. Count(s, 0) = 0
  <2>1. Upto(s, 0) = {} BY <1>0 DEF Upto
  <2>. QED BY <2>1, FS_EmptySet DEF Count
<1>2. Count(s, Len(s)) = All(s)
  <2>1. Upto(s, Len(s)) = Ends(s) BY <1>0 DEF Upto
  <2>. QED BY <2>1 DEF Count, All
<1>3. ASSUME NEW j \in Nat
      PROVE  Count(s, j + 1) = IF j + 1 \in Ends(s) THEN Count(s, j) + 1 ELSE Count(s, j)
  <2>1. CASE j + 1 \in Ends(s)
    <3>1. Upto(s, j + 1) = Upto(s, j) \union {j + 1} /\ j + 1 \notin Upto(s, j)
      BY <1>0, <2>1 DEF Upto
    <3>2. IsFiniteSet(Upto(s, j)) BY EndsFinite
    <3>3. Cardinality(Upto(s, j) \union {j + 1}) = Cardinality(Upto(s, j)) + 1
      BY <3>1, <3>2, FS_AddElement
    <3>. QED BY <2>1, <3>1, <3>3 DEF Count
  <2>2. CASE j + 1 \notin Ends(s)
    <3>1. Upto(s, j + 1) = Upto(s, j) BY <1>0, <2>2 DEF Upto
    <3>. QED BY <2>2, <3>1 DEF Count
  <2>. QED BY <2>1, <2>2
<1>4. ASSUME NEW j \in Nat, NEW x \in Ends(s), j < x PROVE Count(s, j) < Count(s, x)
  <2>1. Upto(s, j) \union {x} \in SUBSET Upto(s, x) /\ x \notin Upto(s, j) BY <1>0, <1>4 DEF Upto
  <2>2. IsFiniteSet(Upto(s, j)) /\ IsFiniteSet(Upto(s, x)) BY EndsFinite
  <2>3. Cardinality(Upto(s, j) \union {x}) = Cardinality(Upto(s, j)) + 1
    BY <2>1, <2>2, FS_AddElement
  <2>4. Cardinality(Upto(s, j) \union {x}) <= Cardinality(Upto(s, x)) BY <2>1, <2>2, FS_Subset
  <2>5. Count(s, j) + 1 <= Count(s, x) BY <2>3, <2>4 DEF Count
  <2>6. Count(s, j) \in Nat /\ Count(s, x) \in Nat BY EndsFinite
  <2>. QED BY <2>5, <2>6
<1>. QED BY <1>1, <1>2, <1>3, <1>4

\* There is a k-th marker.
LEMMA EndIs ==
  ASSUME NEW s \in Seq(Piece), NEW k \in 1 .. All(s)
  PROVE  End(s, k) \in Ends(s) /\ Count(s, End(s, k)) = k
<1>0. Len(s) \in Nat /\ All(s) \in Nat /\ \A j : Count(s, j) \in Nat BY EndsFinite
<1>. DEFINE T == {j \in 0 .. Len(s) : Count(s, j) >= k}
<1>1. T \in SUBSET Nat /\ T # {}
  <2>1. Count(s, Len(s)) >= k BY <1>0, Counting
  <2>. QED BY <1>0, <2>1
<1>2. PICK j \in T : \A i \in T : j <= i BY <1>1, LeastNat
<1>3. j \in 0 .. Len(s) /\ Count(s, j) >= k OBVIOUS
<1>4. j # 0
  <2>1. Count(s, 0) = 0 BY Counting
  <2>. QED BY <1>0, <1>3, <2>1
<1>5. j - 1 \in Nat /\ j - 1 \in 0 .. Len(s) /\ (j - 1) + 1 = j /\ ~ (j <= j - 1)
  BY <1>0, <1>3, <1>4
<1>6. ~ (Count(s, j - 1) >= k) BY <1>2, <1>5
<1>. HIDE DEF T
<1>7. Count(s, j) = IF j \in Ends(s) THEN Count(s, j - 1) + 1 ELSE Count(s, j - 1)
  BY <1>5, Counting
<1>8. Count(s, j) \in Nat /\ Count(s, j - 1) \in Nat BY <1>0
<1>9. j \in Ends(s) /\ Count(s, j) = k BY <1>3, <1>6, <1>7, <1>8
<1>10. k # 0 BY <1>0
<1>11. End(s, k) = CHOOSE i \in Ends(s) : Count(s, i) = k BY <1>10, Zenon DEF End, Count, Upto
<1>. QED BY <1>9, <1>11

\* The markers before and behind the k-th message, with none between them.
LEMMA EndNext ==
  ASSUME NEW s \in Seq(Piece), NEW k \in 1 .. All(s)
  PROVE  /\ End(s, k - 1) \in 0 .. Len(s) /\ Boundary(s, End(s, k - 1))
         /\ End(s, k) \in 1 .. Len(s) /\ s[End(s, k)].piece = Pieces
         /\ End(s, k - 1) < End(s, k)
         /\ \A x \in (End(s, k - 1) + 1) .. (End(s, k) - 1) : s[x].piece # Pieces
<1>. DEFINE a == End(s, k - 1)
            b == End(s, k)
<1>0. /\ Len(s) \in Nat /\ All(s) \in Nat /\ Ends(s) \subseteq 1 .. Len(s)
      /\ \A j : Count(s, j) \in Nat
  BY EndsFinite
<1>1. b \in Ends(s) /\ Count(s, b) = k BY EndIs
<1>2. b \in 1 .. Len(s) /\ s[b].piece = Pieces BY <1>0, <1>1 DEF Ends
<1>3. a \in 0 .. Len(s) /\ Boundary(s, a) /\ Count(s, a) = k - 1
  <2>1. CASE k = 1
    <3>1. a = 0 BY <2>1 DEF End
    <3>. QED BY <1>0, <2>1, <3>1, Counting DEF Boundary
  <2>2. CASE k # 1
    <3>1. k - 1 \in 1 .. All(s) BY <1>0, <2>2
    <3>2. a \in Ends(s) /\ Count(s, a) = k - 1 BY <3>1, EndIs
    <3>. QED BY <1>0, <3>2 DEF Boundary, Ends
  <2>. QED BY <2>1, <2>2
<1>. HIDE DEF a, b
<1>4. a < b
  <2>1. SUFFICES ASSUME ~ (a < b) PROVE FALSE OBVIOUS
  <2>2. b < a \/ b = a BY <1>0, <1>2, <1>3, <2>1
  <2>3. b # a BY <1>0, <1>1, <1>3
  <2>4. a \in Ends(s) BY <1>0, <1>2, <1>3, <2>2, <2>3 DEF Boundary, Ends
  <2>5. Count(s, b) < Count(s, a) BY <1>0, <1>2, <2>2, <2>3, <2>4, Counting
  <2>. QED BY <1>0, <1>1, <1>3, <2>5
<1>5. ASSUME NEW x \in (a + 1) .. (b - 1), s[x].piece = Pieces PROVE FALSE
  <2>1. x \in Nat /\ a < x /\ x < b /\ x \in 1 .. Len(s) /\ a \in Nat BY <1>0, <1>2, <1>3
  <2>2. x \in Ends(s) BY <1>5, <2>1, LenProperties DEF Ends
  <2>3. Count(s, a) < Count(s, x) BY <2>1, <2>2, Counting
  <2>4. Count(s, x) < Count(s, b) BY <1>1, <2>1, Counting
  <2>. QED BY <1>0, <1>1, <1>3, <2>3, <2>4
<1>. QED BY <1>2, <1>3, <1>4, <1>5 DEF a, b

\* Behind the last marker there is none.
LEMMA EndLast ==
  ASSUME NEW s \in Seq(Piece)
  PROVE  /\ End(s, All(s)) \in 0 .. Len(s) /\ Boundary(s, End(s, All(s)))
         /\ \A x \in (End(s, All(s)) + 1) .. Len(s) : s[x].piece # Pieces
<1>. DEFINE a == End(s, All(s))
<1>0. /\ Len(s) \in Nat /\ All(s) \in Nat /\ Ends(s) \subseteq 1 .. Len(s)
      /\ \A j : Count(s, j) \in Nat
  BY EndsFinite
<1>1. a \in 0 .. Len(s) /\ Boundary(s, a) /\ Count(s, a) = All(s)
  <2>1. CASE All(s) = 0
    <3>1. a = 0 BY <2>1 DEF End
    <3>. QED BY <1>0, <2>1, <3>1, Counting DEF Boundary
  <2>2. CASE All(s) # 0
    <3>1. All(s) \in 1 .. All(s) BY <1>0, <2>2
    <3>2. a \in Ends(s) /\ Count(s, a) = All(s) BY <3>1, EndIs
    <3>. QED BY <1>0, <3>2 DEF Boundary, Ends
  <2>. QED BY <2>1, <2>2
<1>. HIDE DEF a
<1>2. ASSUME NEW x \in (a + 1) .. Len(s), s[x].piece = Pieces PROVE FALSE
  <2>1. x \in Nat /\ a < x /\ x \in 1 .. Len(s) /\ a \in Nat BY <1>0, <1>1
  <2>2. x \in Ends(s) BY <1>2, <2>1, LenProperties DEF Ends
  <2>3. Count(s, a) < Count(s, x) BY <2>1, <2>2, Counting
  <2>4. Count(s, x) <= All(s)
    <3>1. Upto(s, x) \in SUBSET Ends(s) /\ IsFiniteSet(Ends(s)) BY EndsFinite DEF Upto
    <3>. QED BY <3>1, FS_Subset DEF Count, All
  <2>. QED BY <1>0, <1>1, <2>3, <2>4
<1>. QED BY <1>1, <1>2 DEF a

----------------------------------------------------------------------------
\* parse_buffer.

\* What parse_buffer finds are the texts of names that were sent.
LEMMA ParsedNames ==
  ASSUME NEW s, Framed(s)
  PROVE  /\ Parsed(s) \in Seq(Seq(Piece))
         /\ \A k \in DOMAIN Parsed(s) :
              \E j \in DOMAIN s : s[j].name \in Name /\ Parsed(s)[k] = Text(s[j].name)
<1>0. s \in Seq(Piece) /\ Len(s) \in Nat /\ DOMAIN s = 1 .. Len(s) BY LenProperties DEF Framed
<1>1. All(s) \in Nat BY <1>0, EndsFinite
<1>2. Parsed(s) = [k \in 1 .. All(s) |-> SubSeq(s, End(s, k - 1) + 1, End(s, k) - 1)]
  BY DEF Parsed, All
<1>3. ASSUME NEW k \in 1 .. All(s)
      PROVE  \E j \in DOMAIN s : s[j].name \in Name /\ Parsed(s)[k] = Text(s[j].name)
  <2>. DEFINE a == End(s, k - 1)
              b == End(s, k)
  <2>1. /\ a \in 0 .. Len(s) /\ Boundary(s, a) /\ b \in 1 .. Len(s) /\ s[b].piece = Pieces
        /\ a < b /\ \A x \in (a + 1) .. (b - 1) : s[x].piece # Pieces
    BY <1>0, EndNext
  <2>2. Parsed(s)[k] = SubSeq(s, a + 1, b - 1) BY <1>2
  <2>. HIDE DEF a, b
  <2>3. s[a + 1].name \in Name /\ SubSeq(s, a + 1, b - 1) = Text(s[a + 1].name)
    BY <2>1, OneMessage
  <2>4. a + 1 \in DOMAIN s BY <1>0, <2>1
  <2>. QED BY <2>2, <2>3, <2>4
<1>4. \A k \in 1 .. All(s) : Parsed(s)[k] \in Seq(Piece)
  BY <1>3, TextIs
<1>5. Parsed(s) \in Seq(Seq(Piece)) /\ DOMAIN Parsed(s) = 1 .. All(s)
  <2>1. DOMAIN Parsed(s) = 1 .. All(s) BY <1>2
  <2>2. Parsed(s) \in [1 .. All(s) -> Seq(Piece)] BY <1>2, <1>4
  <2>3. \A L \in Nat : \A p \in [1 .. L -> Seq(Piece)] : p \in Seq(Seq(Piece)) OBVIOUS
  <2>. QED BY <1>1, <2>1, <2>2, <2>3
<1>. QED BY <1>3, <1>5

\* From a boundary on whole messages are whole messages.
LEMMA Suffix ==
  ASSUME NEW u, Complete(u), NEW a \in 0 .. Len(u), Boundary(u, a),
         NEW v \in Seq(Piece), Len(v) = Len(u) - a, \A i \in 1 .. Len(v) : v[i] = u[a + i]
  PROVE  Complete(v)
<1>0. /\ Len(u) \in Nat /\ Len(v) \in Nat /\ u \in Seq(Piece)
      /\ \A i \in 1 .. (Len(u) - 1) : Follows(u[i], u[i + 1])
  BY LenProperties DEF Complete, Framed
<1>1. \A i \in 1 .. (Len(v) - 1) : Follows(v[i], v[i + 1])
  <2>1. TAKE i \in 1 .. (Len(v) - 1)
  <2>2. /\ i \in 1 .. Len(v) /\ i + 1 \in 1 .. Len(v) /\ a + i \in 1 .. (Len(u) - 1)
        /\ a + (i + 1) = (a + i) + 1
    BY <1>0
  <2>3. v[i] = u[a + i] /\ v[i + 1] = u[(a + i) + 1] BY <2>2
  <2>. QED BY <1>0, <2>2, <2>3
<1>2. ASSUME v # << >> PROVE v[1].piece = 1 /\ v[Len(v)].piece = Pieces
  <2>1. Len(v) # 0 BY <1>0, <1>2, EmptySeq
  <2>2. /\ 1 \in 1 .. Len(v) /\ Len(v) \in 1 .. Len(v) /\ a + Len(v) = Len(u)
        /\ a + 1 \in 1 .. Len(u)
    BY <1>0, <2>1
  <2>3. v[1] = u[a + 1] /\ v[Len(v)] = u[Len(u)] BY <2>2
  <2>4. u # << >> BY <1>0, <2>2
  <2>5. u[Len(u)].piece = Pieces /\ u[1].piece = 1 BY <2>4 DEF Complete, Framed
  <2>6. u[a + 1].piece = 1
    <3>1. CASE a = 0 BY <2>5, <3>1
    <3>2. CASE a # 0
      <4>1. a \in 1 .. (Len(u) - 1) /\ u[a].piece = Pieces BY <1>0, <2>2, <3>2 DEF Boundary
      <4>. QED BY <1>0, <4>1 DEF Follows
    <3>. QED BY <3>1, <3>2
  <2>. QED BY <2>3, <2>5, <2>6
<1>. QED BY <1>1, <1>2 DEF Complete, Framed

\* What is left unparsed, with what has not been read yet, is whole messages, and
\* less than one message is left.
LEMMA UnparsedRest ==
  ASSUME NEW buf \in Seq(Piece), NEW rest \in Seq(Piece), Complete(buf \o rest)
  PROVE  /\ Framed(buf)
         /\ Unparsed(buf) \in Seq(Piece) /\ Len(Unparsed(buf)) < Pieces
         /\ Complete(Unparsed(buf) \o rest)
         /\ \A i \in DOMAIN (Unparsed(buf) \o rest) : \E j \in DOMAIN (buf \o rest) :
              (Unparsed(buf) \o rest)[i] = (buf \o rest)[j]
<1>. DEFINE u == buf \o rest
            a == End(buf, All(buf))
            b == Unparsed(buf)
            v == b \o rest
<1>1. /\ Len(buf) \in Nat /\ Len(rest) \in Nat /\ DOMAIN buf = 1 .. Len(buf)
      /\ \A i \in 1 .. Len(buf) : buf[i] \in Piece
  BY LenProperties
<1>2. /\ u \in Seq(Piece) /\ Len(u) = Len(buf) + Len(rest) /\ DOMAIN u = 1 .. Len(u)
      /\ \A i \in 1 .. Len(buf) : u[i] = buf[i]
      /\ \A i \in 1 .. Len(rest) : u[Len(buf) + i] = rest[i]
  OBVIOUS
<1>3. Framed(u) /\ (u # << >> => u[Len(u)].piece = Pieces) BY DEF Complete
<1>. HIDE DEF u
<1>4. Framed(buf)
  <2>1. ASSUME buf # << >> PROVE buf[1].piece = 1
    <3>1. Len(buf) # 0 BY <2>1, EmptySeq
    <3>2. 1 \in 1 .. Len(buf) /\ Len(u) # 0 BY <1>1, <1>2, <3>1
    <3>3. u # << >> BY <3>2
    <3>. QED BY <1>2, <1>3, <3>2, <3>3 DEF Framed
  <2>2. \A i \in 1 .. (Len(buf) - 1) : Follows(buf[i], buf[i + 1])
    <3>1. TAKE i \in 1 .. (Len(buf) - 1)
    <3>2. i \in 1 .. Len(buf) /\ i + 1 \in 1 .. Len(buf) /\ i \in 1 .. (Len(u) - 1)
      BY <1>1, <1>2
    <3>3. Follows(u[i], u[i + 1]) BY <1>3, <3>2 DEF Framed
    <3>. QED BY <1>2, <3>2, <3>3
  <2>. QED BY <2>1, <2>2 DEF Framed
<1>5. /\ a \in 0 .. Len(buf) /\ Boundary(buf, a)
      /\ \A x \in (a + 1) .. Len(buf) : buf[x].piece # Pieces
  BY EndLast
<1>6. b = SubSeq(buf, a + 1, Len(buf)) BY DEF Unparsed, All
<1>. HIDE DEF a, b
<1>a. Len(buf) \in Nat /\ a \in Nat /\ a <= Len(buf) BY <1>1, <1>5
<1>7. /\ b \in Seq(Piece) /\ Len(b) = Len(buf) - a
      /\ \A i \in 1 .. Len(b) : b[i] = buf[a + i]
  <2>1. a + 1 \in Int /\ Len(buf) \in Int /\ \A i \in (a + 1) .. Len(buf) : buf[i] \in Piece
    BY <1>1, <1>5
  <2>2. /\ b \in Seq(Piece) /\ Len(b) = IF a + 1 <= Len(buf) THEN Len(buf) - (a + 1) + 1 ELSE 0
        /\ \A i \in 1 .. (Len(buf) - (a + 1) + 1) : b[i] = buf[(a + 1) + i - 1]
    BY <1>6, <2>1, SubSeqProperties
  <2>3. Len(buf) - (a + 1) + 1 = Len(buf) - a /\ Len(b) = Len(buf) - a BY <1>a, <2>2
  <2>4. \A i \in 1 .. (Len(buf) - a) : (a + 1) + i - 1 = a + i BY <1>1, <1>5
  <2>. QED BY <2>2, <2>3, <2>4
<1>8. Len(b) < Pieces
  <2>. DEFINE c == Len(buf) - a
  <2>1. CASE c = 0 BY <1>7, <2>1, Sizes
  <2>2. CASE c # 0
    <3>1. /\ c \in 1 .. c /\ a + c = Len(buf) /\ Len(buf) \in a .. Len(buf)
          /\ Len(buf) \in (a + 1) .. Len(buf) /\ Len(buf) \in 1 .. Len(buf)
      BY <1>a, <2>2
    <3>2. \A x \in (a + 1) .. (Len(buf) - 1) : buf[x].piece # Pieces
      <4>1. \A x \in (a + 1) .. (Len(buf) - 1) : x \in (a + 1) .. Len(buf) BY <1>1
      <4>. QED BY <1>5, <4>1
    <3>3. \A i \in 1 .. c : buf[a + i] = [name |-> buf[a + 1].name, piece |-> i]
      BY <1>4, <1>5, <3>1, <3>2, Run
    <3>. HIDE DEF c
    <3>4. buf[Len(buf)] = [name |-> buf[a + 1].name, piece |-> c] BY <3>1, <3>3
    <3>5. buf[Len(buf)].piece # Pieces BY <1>5, <3>1
    <3>6. buf[Len(buf)] \in Piece BY <1>1, <3>1
    <3>7. c # Pieces /\ c \in 1 .. Pieces BY <3>4, <3>5, <3>6 DEF Piece
    <3>8. c < Pieces BY <3>7, Sizes
    <3>. QED BY <1>7, <3>8 DEF c
  <2>. QED BY <2>1, <2>2
<1>9. /\ v \in Seq(Piece) /\ Len(v) = Len(b) + Len(rest) /\ DOMAIN v = 1 .. Len(v)
      /\ \A i \in 1 .. Len(b) : v[i] = b[i]
      /\ \A i \in 1 .. Len(rest) : v[Len(b) + i] = rest[i]
  <2>1. \A p, r \in Seq(Piece) :
          /\ p \o r \in Seq(Piece) /\ Len(p \o r) = Len(p) + Len(r)
          /\ DOMAIN (p \o r) = 1 .. Len(p \o r)
          /\ \A i \in 1 .. Len(p) : (p \o r)[i] = p[i]
          /\ \A i \in 1 .. Len(r) : (p \o r)[Len(p) + i] = r[i]
    OBVIOUS
  <2>2. b \in Seq(Piece) BY <1>7
  <2>. QED BY <2>1, <2>2, Zenon
<1>. HIDE DEF v
<1>10. a \in 0 .. Len(u) /\ Len(v) = Len(u) - a BY <1>1, <1>2, <1>5, <1>7, <1>9
<1>11. \A i \in 1 .. Len(v) : a + i \in 1 .. Len(u) /\ v[i] = u[a + i]
  <2>1. TAKE i \in 1 .. Len(v)
  <2>2. a + i \in 1 .. Len(u) BY <1>1, <1>2, <1>10
  <2>3. CASE i <= Len(b)
    <3>1. i \in 1 .. Len(b) /\ a + i \in 1 .. Len(buf) BY <1>1, <1>5, <1>7, <1>9, <2>3
    <3>. QED BY <1>2, <1>7, <1>9, <2>2, <3>1
  <2>4. CASE ~ (i <= Len(b))
    <3>1. /\ i - Len(b) \in 1 .. Len(rest) /\ Len(b) + (i - Len(b)) = i
          /\ Len(buf) + (i - Len(b)) = a + i
      BY <1>1, <1>5, <1>7, <1>9, <2>4
    <3>2. v[Len(b) + (i - Len(b))] = rest[i - Len(b)] /\ u[Len(buf) + (i - Len(b))] = rest[i - Len(b)]
      BY <1>2, <1>9, <3>1
    <3>. QED BY <2>2, <3>1, <3>2
  <2>. QED BY <2>3, <2>4
<1>12. Boundary(u, a)
  <2>1. CASE a = 0 BY <2>1 DEF Boundary
  <2>2. CASE a # 0
    <3>1. a \in 1 .. Len(buf) /\ buf[a].piece = Pieces BY <1>5, <2>2 DEF Boundary
    <3>. QED BY <1>1, <1>2, <3>1 DEF Boundary
  <2>. QED BY <2>1, <2>2
<1>13. Complete(v)
  <2>1. Complete(u) BY <1>3 DEF Complete
  <2>. QED BY <1>9, <1>10, <1>11, <1>12, <2>1, Suffix
<1>14. \A i \in DOMAIN v : \E j \in DOMAIN u : v[i] = u[j]
  BY <1>2, <1>9, <1>11
<1>. QED BY <1>4, <1>7, <1>8, <1>13, <1>14 DEF b, u, v

\* Whole messages behind whole messages.
LEMMA CompleteConcat ==
  ASSUME NEW s, NEW t, Complete(s), Complete(t)
  PROVE  Complete(s \o t)
<1>. DEFINE u == s \o t
<1>1. s \in Seq(Piece) /\ t \in Seq(Piece) /\ Len(s) \in Nat /\ Len(t) \in Nat
  BY LenProperties DEF Complete, Framed
<1>2. /\ u \in Seq(Piece) /\ Len(u) = Len(s) + Len(t)
      /\ \A i \in 1 .. Len(s) : u[i] = s[i]
      /\ \A i \in 1 .. Len(t) : u[Len(s) + i] = t[i]
  BY <1>1
<1>. HIDE DEF u
<1>3. CASE s = << >>
  <2>1. u = t BY <1>1, <1>3, ConcatEmptySeq DEF u
  <2>. QED BY <2>1 DEF u
<1>4. CASE t = << >>
  <2>1. u = s BY <1>1, <1>4, ConcatEmptySeq DEF u
  <2>. QED BY <2>1 DEF u
<1>5. CASE s # << >> /\ t # << >>
  <2>1. Len(s) \in 1 .. Len(s) /\ 1 \in 1 .. Len(s) /\ Len(t) \in 1 .. Len(t) /\ 1 \in 1 .. Len(t)
    <3>1. Len(s) # 0 /\ Len(t) # 0 BY <1>1, <1>5, EmptySeq
    <3>. QED BY <1>1, <3>1
  <2>2. /\ s[1].piece = 1 /\ s[Len(s)].piece = Pieces /\ t[1].piece = 1 /\ t[Len(t)].piece = Pieces
        /\ \A i \in 1 .. (Len(s) - 1) : Follows(s[i], s[i + 1])
        /\ \A i \in 1 .. (Len(t) - 1) : Follows(t[i], t[i + 1])
    BY <1>5 DEF Complete, Framed
  <2>3. u[1].piece = 1 /\ u[Len(u)].piece = Pieces BY <1>2, <2>1, <2>2
  <2>4. ASSUME NEW i \in 1 .. (Len(u) - 1) PROVE Follows(u[i], u[i + 1])
    <3>0. i \in Nat /\ i >= 1 /\ i <= Len(s) + Len(t) - 1 BY <1>1, <1>2
    <3>1. CASE i < Len(s)
      <4>1. i \in 1 .. (Len(s) - 1) /\ i \in 1 .. Len(s) /\ i + 1 \in 1 .. Len(s)
        BY <1>1, <3>0, <3>1
      <4>. QED BY <1>2, <2>2, <4>1
    <3>2. CASE i = Len(s)
      <4>1. u[i] = s[Len(s)] /\ u[i + 1] = t[1] BY <1>2, <2>1, <3>2
      <4>. QED BY <2>2, <4>1 DEF Follows
    <3>3. CASE i > Len(s)
      <4>. DEFINE k == i - Len(s)
      <4>1. /\ k \in 1 .. (Len(t) - 1) /\ k \in 1 .. Len(t) /\ k + 1 \in 1 .. Len(t)
            /\ Len(s) + k = i /\ Len(s) + (k + 1) = i + 1
        BY <1>1, <3>0, <3>3
      <4>. HIDE DEF k
      <4>2. u[i] = t[k] /\ u[i + 1] = t[k + 1] BY <1>2, <4>1
      <4>. QED BY <2>2, <4>1, <4>2
    <3>. QED BY <1>1, <3>0, <3>1, <3>2, <3>3
  <2>5. Complete(u) BY <1>2, <2>3, <2>4 DEF Complete, Framed
  <2>. QED BY <2>5 DEF u
<1>. QED BY <1>3, <1>4, <1>5

\* The smaller one of two sizes.
LEMMA Smaller ==
  ASSUME NEW a \in Nat, NEW b \in Nat
  PROVE  Min({a, b}) \in Nat /\ Min({a, b}) <= a /\ Min({a, b}) <= b
<1>1. \E x \in {a, b} : \A y \in {a, b} : x <= y OBVIOUS
<1>2. Min({a, b}) \in {a, b} /\ \A y \in {a, b} : Min({a, b}) <= y BY <1>1 DEF Min
<1>. QED BY <1>2

\* fill_buffer_in takes messages from the front of the queue.
LEMMA TakenIs ==
  ASSUME NEW q \in Seq(Name)
  PROVE  Taken(q) \in 0 .. Len(q)
<1>1. Len(q) \in Nat BY LenProperties
<1>2. BufSize \div Pieces \in Nat BY Sizes, Divided
<1>3. Min({Len(q), BufSize \div Pieces}) \in 0 .. Len(q)
  <2>1. /\ Min({Len(q), BufSize \div Pieces}) \in Nat
        /\ Min({Len(q), BufSize \div Pieces}) <= Len(q)
    BY <1>1, <1>2, Smaller
  <2>. QED BY <1>1, <2>1
<1>. QED BY <1>1, <1>3 DEF Taken

\* A part of a sequence is made of its elements.
LEMMA Part ==
  ASSUME NEW S, NEW q \in Seq(S), NEW m \in Int, NEW n \in Int, 1 <= m, n <= Len(q)
  PROVE  /\ SubSeq(q, m, n) \in Seq(S)
         /\ \A i \in DOMAIN SubSeq(q, m, n) : \E k \in DOMAIN q : SubSeq(q, m, n)[i] = q[k]
<1>1. Len(q) \in Nat /\ DOMAIN q = 1 .. Len(q) /\ \A i \in 1 .. Len(q) : q[i] \in S
  BY LenProperties
<1>. DEFINE p == SubSeq(q, m, n)
<1>2. \A i \in m .. n : q[i] \in S BY <1>1
<1>3. /\ p \in Seq(S) /\ Len(p) = IF m <= n THEN n - m + 1 ELSE 0
      /\ \A i \in 1 .. (n - m + 1) : p[i] = q[m + i - 1]
  BY <1>2, SubSeqProperties
<1>. HIDE DEF p
<1>4. ASSUME NEW i \in DOMAIN p PROVE \E k \in DOMAIN q : p[i] = q[k]
  <2>1. i \in 1 .. Len(p) BY <1>3, LenProperties
  <2>2. m <= n /\ i \in 1 .. (n - m + 1) BY <1>3, <2>1
  <2>3. p[i] = q[m + i - 1] BY <1>3, <2>2
  <2>4. m + i - 1 \in DOMAIN q BY <1>1, <2>2
  <2>. QED BY <2>3, <2>4
<1>. QED BY <1>3, <1>4 DEF p

\* So is what is made of two.
LEMMA Joined ==
  ASSUME NEW S, NEW x \in Seq(S), NEW y \in Seq(S)
  PROVE  \A i \in DOMAIN (x \o y) : \/ \E k \in DOMAIN x : (x \o y)[i] = x[k]
                                    \/ \E k \in DOMAIN y : (x \o y)[i] = y[k]
<1>. DEFINE u == x \o y
<1>1. /\ Len(x) \in Nat /\ DOMAIN x = 1 .. Len(x) /\ Len(y) \in Nat /\ DOMAIN y = 1 .. Len(y)
      /\ u \in Seq(S) /\ Len(u) = Len(x) + Len(y) /\ DOMAIN u = 1 .. Len(u)
      /\ \A i \in 1 .. Len(x) : u[i] = x[i]
      /\ \A i \in 1 .. Len(y) : u[Len(x) + i] = y[i]
  BY LenProperties
<1>. HIDE DEF u
<1>2. ASSUME NEW i \in DOMAIN u
      PROVE  \/ \E k \in DOMAIN x : u[i] = x[k]
             \/ \E k \in DOMAIN y : u[i] = y[k]
  <2>1. i \in Nat /\ i >= 1 /\ i <= Len(x) + Len(y) BY <1>1
  <2>2. CASE i <= Len(x) BY <1>1, <2>1, <2>2
  <2>3. CASE ~ (i <= Len(x))
    <3>1. i - Len(x) \in 1 .. Len(y) /\ Len(x) + (i - Len(x)) = i BY <1>1, <2>1, <2>3
    <3>. QED BY <1>1, <3>1
  <2>. QED BY <2>2, <2>3
<1>. QED BY <1>2 DEF u

\* Cut in two and put together again.
LEMMA Cut ==
  ASSUME NEW S, NEW x \in Seq(S), NEW k \in 0 .. Len(x)
  PROVE  /\ SubSeq(x, 1, k) \in Seq(S) /\ SubSeq(x, k + 1, Len(x)) \in Seq(S)
         /\ SubSeq(x, 1, k) \o SubSeq(x, k + 1, Len(x)) = x
<1>. DEFINE u == SubSeq(x, 1, k)
            v == SubSeq(x, k + 1, Len(x))
<1>0. Len(x) \in Nat /\ k \in Nat /\ k <= Len(x) BY LenProperties
<1>1. u \in Seq(S) /\ Len(u) = k /\ \A i \in 1 .. k : u[i] = x[i] BY <1>0
<1>2. v \in Seq(S) /\ Len(v) = Len(x) - k /\ \A i \in 1 .. (Len(x) - k) : v[i] = x[k + i] BY <1>0
<1>. HIDE DEF u, v
<1>3. u \o v \in Seq(S) /\ Len(u \o v) = Len(x) BY <1>0, <1>1, <1>2
<1>4. ASSUME NEW i \in 1 .. Len(x) PROVE (u \o v)[i] = x[i]
  <2>1. CASE i <= k BY <1>0, <1>1, <1>2, <2>1
  <2>2. CASE ~ (i <= k)
    <3>1. i - k \in 1 .. (Len(x) - k) /\ k + (i - k) = i BY <1>0, <2>2
    <3>2. (u \o v)[i] = v[i - k] BY <1>0, <1>1, <1>2, <2>2
    <3>. QED BY <1>2, <3>1, <3>2
  <2>. QED BY <2>1, <2>2
<1>5. u \o v = x BY <1>3, <1>4, SeqEqual
<1>. QED BY <1>1, <1>2, <1>5 DEF u, v

\* What is behind the first message.
LEMMA Behind ==
  ASSUME NEW x \in Seq(Seq(Piece)), x # << >>
  PROVE  /\ Tail(x) \in Seq(Seq(Piece)) /\ Len(x) # 1 => Tail(x) # << >>
         /\ \A j \in DOMAIN Tail(x) : j + 1 \in DOMAIN x /\ Tail(x)[j] = x[j + 1]
<1>1. /\ Len(x) \in Nat \ {0} /\ DOMAIN x = 1 .. Len(x)
      /\ Tail(x) \in Seq(Seq(Piece)) /\ Len(Tail(x)) = Len(x) - 1
      /\ DOMAIN Tail(x) = 1 .. (Len(x) - 1)
      /\ \A j \in 1 .. (Len(x) - 1) : Tail(x)[j] = x[j + 1]
  BY LenProperties, HeadTailProperties, EmptySeq
<1>2. Len(x) # 1 => Tail(x) # << >>
  <2>. DEFINE t == Tail(x)
  <2>1. t \in Seq(Seq(Piece)) /\ Len(t) = Len(x) - 1 BY <1>1
  <2>. HIDE DEF t
  <2>2. t = << >> => Len(t) = 0 BY <2>1, EmptySeq
  <2>3. Len(x) # 1 => t # << >> BY <1>1, <2>1, <2>2
  <2>. QED BY <2>3 DEF t
<1>3. \A j \in 1 .. (Len(x) - 1) : j + 1 \in 1 .. Len(x) BY <1>1
<1>. QED BY <1>1, <1>2, <1>3

----------------------------------------------------------------------------
\* The order of the names.

\* The arithmetic of messages of P pieces each.
LEMMA Products ==
  ASSUME NEW P \in Nat, P >= 2, NEW k \in Nat
  PROVE  /\ P * k \in Nat
         /\ k # 0 => /\ P * (k - 1) \in Nat /\ P * k = P * (k - 1) + P
         /\ (P * k) \div P = k /\ (P * k) % P = 0
         /\ \A n \in Nat : P * (n + k) = P * n + P * k
         /\ \A a \in Nat : (P * k + a) \div P = k + (a \div P)
         /\ \A a \in Nat : k <= a \div P <=> P * k <= a
         /\ \A a \in Nat : a % P = 0 /\ a \div P = k => a = P * k
<1>1. P * k \in Nat OBVIOUS
<1>2. k # 0 => P * (k - 1) \in Nat /\ P * k = P * (k - 1) + P OBVIOUS
<1>3. (P * k) \div P = k /\ (P * k) % P = 0 OBVIOUS
<1>4. \A n \in Nat : P * (n + k) = P * n + P * k OBVIOUS
<1>5. \A a \in Nat : (P * k + a) \div P = k + (a \div P) OBVIOUS
<1>6. \A a \in Nat : k <= a \div P <=> P * k <= a OBVIOUS
<1>7. \A a \in Nat : a % P = 0 /\ a \div P = k => a = P * k OBVIOUS
<1>. QED BY <1>1, <1>2, <1>3, <1>4, <1>5, <1>6, <1>7

\* The pieces of a stream follow each other in their order, from its start on.
LEMMA PieceAt ==
  ASSUME NEW s, Framed(s), NEW j \in 1 .. Len(s)
  PROVE  s[j].piece = ((j - 1) % Pieces) + 1
<1>. DEFINE T == {i \in 1 .. Len(s) : s[i].piece # ((i - 1) % Pieces) + 1}
<1>0. Len(s) \in Nat /\ \A i \in 1 .. Len(s) : s[i] \in Piece BY LenProperties DEF Framed
<1>1. SUFFICES ASSUME T # {} PROVE FALSE OBVIOUS
<1>2. PICK i \in T : \A k \in T : i <= k
  <2>1. T \in SUBSET Nat BY <1>0
  <2>. QED BY <1>1, <2>1, LeastNat
<1>3. i \in 1 .. Len(s) /\ s[i].piece # ((i - 1) % Pieces) + 1 OBVIOUS
<1>4. CASE i = 1
  <2>1. s # << >> BY <1>0, <1>3
  <2>2. s[1].piece = 1 BY <2>1 DEF Framed
  <2>3. 0 % Pieces = 0 BY Sizes, Divided
  <2>. QED BY <1>3, <1>4, <2>2, <2>3
<1>5. CASE i # 1
  <2>. DEFINE h == i - 1
  <2>1. /\ h \in 1 .. Len(s) /\ h \in 1 .. (Len(s) - 1) /\ h + 1 = i /\ ~ (i <= h)
        /\ h - 1 \in Nat /\ (h - 1) + 1 = h
    BY <1>0, <1>3, <1>5
  <2>2. s[h].piece = ((h - 1) % Pieces) + 1 BY <1>2, <2>1
  <2>3. Follows(s[h], s[i]) BY <2>1 DEF Framed
  <2>. HIDE DEF T, h
  <2>4. s[h] \in Piece /\ s[i] \in Piece BY <1>0, <1>3, <2>1
  <2>5. IF s[h].piece = Pieces THEN s[i].piece = 1 ELSE s[i].piece = s[h].piece + 1
    BY <2>3, <2>4 DEF Follows, Piece
  <2>6. /\ (h - 1) % Pieces \in 0 .. (Pieces - 1)
        /\ IF (h - 1) % Pieces = Pieces - 1 THEN ((h - 1) + 1) % Pieces = 0
           ELSE ((h - 1) + 1) % Pieces = ((h - 1) % Pieces) + 1
    BY <2>1, Sizes, Divided
  <2>7. i - 1 = h BY <1>0, <1>3, <2>1
  <2>8. s[i].piece = (h % Pieces) + 1 BY <2>1, <2>2, <2>5, <2>6, Sizes
  <2>. QED BY <1>3, <2>7, <2>8
<1>. QED BY <1>4, <1>5

\* So every Pieces-th byte is a marker.
LEMMA CountAt ==
  ASSUME NEW s, Framed(s), NEW j \in 0 .. Len(s)
  PROVE  Count(s, j) = j \div Pieces
<1>. DEFINE T == {i \in 0 .. Len(s) : Count(s, i) # i \div Pieces}
<1>0. s \in Seq(Piece) /\ Len(s) \in Nat /\ DOMAIN s = 1 .. Len(s) BY LenProperties DEF Framed
<1>1. SUFFICES ASSUME T # {} PROVE FALSE OBVIOUS
<1>2. PICK i \in T : \A k \in T : i <= k
  <2>1. T \in SUBSET Nat BY <1>0
  <2>. QED BY <1>1, <2>1, LeastNat
<1>3. i \in 0 .. Len(s) /\ Count(s, i) # i \div Pieces OBVIOUS
<1>4. i # 0
  <2>1. Count(s, 0) = 0 /\ 0 \div Pieces = 0 BY <1>0, Counting, Sizes, Divided
  <2>. QED BY <1>3, <2>1
<1>5. PICK h \in Nat : h + 1 = i /\ h \in 0 .. Len(s) /\ ~ (i <= h)
  <2>1. i - 1 \in Nat /\ (i - 1) + 1 = i /\ i - 1 \in 0 .. Len(s) /\ ~ (i <= i - 1)
    BY <1>0, <1>3, <1>4
  <2>. QED BY <2>1
<1>6. Count(s, h) = h \div Pieces BY <1>2, <1>5
<1>. HIDE DEF T
<1>7. Count(s, i) = IF i \in Ends(s) THEN Count(s, h) + 1 ELSE Count(s, h)
  BY <1>0, <1>5, Counting
<1>8. i \in 1 .. Len(s) /\ i - 1 = h BY <1>0, <1>3, <1>4, <1>5
<1>9. i \in Ends(s) <=> h % Pieces = Pieces - 1
  <2>1. s[i].piece = (h % Pieces) + 1 BY <1>8, PieceAt
  <2>2. h % Pieces \in 0 .. (Pieces - 1) BY Sizes, Divided
  <2>. QED BY <1>0, <1>8, <2>1, <2>2, Sizes DEF Ends
<1>10. (h + 1) \div Pieces = IF h % Pieces = Pieces - 1 THEN (h \div Pieces) + 1 ELSE h \div Pieces
  BY Sizes
<1>. QED BY <1>3, <1>5, <1>6, <1>7, <1>9, <1>10

\* What parse_buffer finds: the k-th message of the stream.
LEMMA ParsedAt ==
  ASSUME NEW s, Framed(s), NEW n, n = Len(s) \div Pieces
  PROVE  /\ n \in Nat /\ Parsed(s) \in Seq(Seq(Piece)) /\ Len(Parsed(s)) = n
         /\ End(s, All(s)) = Pieces * n
         /\ \A k \in 1 .. n : /\ Pieces * (k - 1) + 1 \in 1 .. Len(s)
                              /\ Parsed(s)[k] = Text(s[Pieces * (k - 1) + 1].name)
<1>0. s \in Seq(Piece) /\ Len(s) \in Nat /\ DOMAIN s = 1 .. Len(s) BY LenProperties DEF Framed
<1>1. n \in Nat BY <1>0, Sizes, Divided
<1>2. All(s) = n
  <2>1. Len(s) \in 0 .. Len(s) BY <1>0
  <2>2. Count(s, Len(s)) = n BY <2>1, CountAt
  <2>. QED BY <1>0, <2>2, Counting
<1>3. ASSUME NEW k \in 0 .. n PROVE End(s, k) = Pieces * k
  <2>1. CASE k = 0 BY <2>1, Sizes DEF End
  <2>2. CASE k # 0
    <3>1. k \in 1 .. All(s) BY <1>1, <1>2, <2>2
    <3>. DEFINE e == End(s, k)
    <3>2. e \in Ends(s) /\ Count(s, e) = k BY <1>0, <3>1, EndIs
    <3>. HIDE DEF e
    <3>3. e \in 1 .. Len(s) /\ s[e].piece = Pieces BY <1>0, <3>2 DEF Ends
    <3>4. e \in 0 .. Len(s) /\ e \in Nat BY <1>0, <3>3
    <3>5. e \div Pieces = k BY <3>2, <3>4, CountAt
    <3>6. ((e - 1) % Pieces) + 1 = Pieces BY <3>3, PieceAt
    <3>7. e % Pieces = 0
      <4>1. e - 1 \in Nat /\ (e - 1) + 1 = e BY <1>0, <3>3
      <4>2. (e - 1) % Pieces \in 0 .. (Pieces - 1) BY <4>1, Sizes, Divided
      <4>3. (e - 1) % Pieces = Pieces - 1 BY <3>6, <4>2, Sizes
      <4>4. ((e - 1) + 1) % Pieces = 0 BY <4>1, <4>3, Sizes, Divided
      <4>. QED BY <4>1, <4>4
    <3>8. e = Pieces * k
      <4>1. k \in Nat BY <1>1
      <4>2. \A a \in Nat : a % Pieces = 0 /\ a \div Pieces = k => a = Pieces * k
        BY <4>1, Sizes, Products
      <4>. QED BY <3>4, <3>5, <3>7, <4>2
    <3>. QED BY <3>8 DEF e
  <2>. QED BY <2>1, <2>2
<1>4. Parsed(s) = [k \in 1 .. n |-> SubSeq(s, End(s, k - 1) + 1, End(s, k) - 1)]
  BY <1>2 DEF Parsed, All
<1>5. ASSUME NEW k \in 1 .. n
      PROVE  /\ Pieces * (k - 1) + 1 \in 1 .. Len(s)
             /\ Parsed(s)[k] = Text(s[Pieces * (k - 1) + 1].name)
  <2>. DEFINE a == End(s, k - 1)
              b == End(s, k)
  <2>1. k - 1 \in 0 .. n /\ k \in 1 .. All(s) BY <1>1, <1>2
  <2>2. /\ a \in 0 .. Len(s) /\ Boundary(s, a) /\ b \in 1 .. Len(s) /\ s[b].piece = Pieces
        /\ a < b /\ \A x \in (a + 1) .. (b - 1) : s[x].piece # Pieces
    BY <1>0, <2>1, EndNext
  <2>3. Parsed(s)[k] = SubSeq(s, a + 1, b - 1) BY <1>4
  <2>4. a = Pieces * (k - 1) BY <1>3, <2>1
  <2>. HIDE DEF a, b
  <2>5. SubSeq(s, a + 1, b - 1) = Text(s[a + 1].name) BY <2>2, OneMessage
  <2>6. a + 1 \in 1 .. Len(s) BY <1>0, <2>2
  <2>. QED BY <2>3, <2>4, <2>5, <2>6
<1>6. Parsed(s) \in Seq(Seq(Piece)) BY ParsedNames
<1>7. Len(Parsed(s)) = n
  <2>1. DOMAIN Parsed(s) = 1 .. n BY <1>4
  <2>2. \A L \in Nat : \A x \in Seq(Seq(Piece)) : DOMAIN x = 1 .. L => Len(x) = L BY LenProperties
  <2>. QED BY <1>1, <1>6, <2>1, <2>2
<1>8. End(s, All(s)) = Pieces * n BY <1>1, <1>2, <1>3
<1>. QED BY <1>1, <1>5, <1>6, <1>7, <1>8

\* Queues of texts, compared one by one.
LEMMA SameTexts ==
  ASSUME NEW x \in Seq(Seq(Piece)), NEW y \in Seq(Seq(Piece)), NEW z \in Seq(Seq(Piece)),
         Len(x) = Len(y) + Len(z),
         \A k \in 1 .. Len(y) : x[k] = y[k],
         \A k \in 1 .. Len(z) : x[Len(y) + k] = z[k]
  PROVE  x = y \o z
<1>. DEFINE S == Seq(Piece)
<1>0. x \in Seq(S) /\ y \in Seq(S) /\ z \in Seq(S) OBVIOUS
<1>. HIDE DEF S
<1>1. Len(y) \in Nat /\ Len(z) \in Nat BY <1>0, LenProperties
<1>. DEFINE u == y \o z
<1>2. /\ u \in Seq(S) /\ Len(u) = Len(y) + Len(z)
      /\ \A k \in 1 .. Len(y) : u[k] = y[k]
      /\ \A k \in 1 .. Len(z) : u[Len(y) + k] = z[k]
  <2>1. /\ u \in Seq(S) /\ Len(u) = Len(y) + Len(z)
        /\ \A i \in 1 .. Len(u) : u[i] = IF i <= Len(y) THEN y[i] ELSE z[i - Len(y)]
    BY <1>0, ConcatProperties
  <2>. HIDE DEF u
  <2>2. ASSUME NEW k \in 1 .. Len(y) PROVE u[k] = y[k]
    <3>1. k \in 1 .. Len(u) /\ k <= Len(y) BY <1>1, <2>1
    <3>. QED BY <2>1, <3>1
  <2>3. ASSUME NEW k \in 1 .. Len(z) PROVE u[Len(y) + k] = z[k]
    <3>1. /\ Len(y) + k \in 1 .. Len(u) /\ ~ (Len(y) + k <= Len(y))
          /\ (Len(y) + k) - Len(y) = k
      BY <1>1, <2>1
    <3>. QED BY <2>1, <3>1
  <2>. QED BY <2>1, <2>2, <2>3
<1>. HIDE DEF u
<1>3. ASSUME NEW k \in 1 .. Len(x) PROVE x[k] = u[k]
  <2>1. CASE k <= Len(y)
    <3>1. k \in 1 .. Len(y) BY <1>1, <2>1
    <3>. QED BY <1>2, <3>1
  <2>2. CASE ~ (k <= Len(y))
    <3>1. k - Len(y) \in 1 .. Len(z) /\ Len(y) + (k - Len(y)) = k BY <1>1, <2>2
    <3>2. x[Len(y) + (k - Len(y))] = z[k - Len(y)] /\ u[Len(y) + (k - Len(y))] = z[k - Len(y)]
      BY <1>2, <3>1
    <3>. QED BY <3>1, <3>2
  <2>. QED BY <2>1, <2>2
<1>4. x = u BY <1>0, <1>2, <1>3, SeqEqual
<1>. QED BY <1>4 DEF u

Texts(q) == [k \in DOMAIN q |-> Text(q[k])]

LEMMA TextsAre ==
  ASSUME NEW q \in Seq(Name)
  PROVE  /\ Texts(q) \in Seq(Seq(Piece)) /\ Len(Texts(q)) = Len(q)
         /\ \A k \in 1 .. Len(q) : Texts(q)[k] = Text(q[k])
<1>1. Len(q) \in Nat /\ DOMAIN q = 1 .. Len(q) /\ \A k \in 1 .. Len(q) : q[k] \in Name
  BY LenProperties
<1>2. Texts(q) = [k \in 1 .. Len(q) |-> Text(q[k])] BY <1>1 DEF Texts
<1>3. \A k \in 1 .. Len(q) : Text(q[k]) \in Seq(Piece) BY <1>1, TextIs
<1>4. Texts(q) \in [1 .. Len(q) -> Seq(Piece)] BY <1>2, <1>3
<1>5. \A L \in Nat : \A x \in [1 .. L -> Seq(Piece)] : x \in Seq(Seq(Piece)) /\ Len(x) = L
  OBVIOUS
<1>. QED BY <1>1, <1>2, <1>4, <1>5

\* The names that fill_buffer_in writes behind whole messages come out behind them, in
\* the order of the queue.
LEMMA WrittenInOrder ==
  ASSUME NEW s, Complete(s), NEW q \in Seq(Name)
  PROVE  Parsed(s \o Bytes(q)) = Parsed(s) \o Texts(q)
<1>. DEFINE b == Bytes(q)
            u == s \o b
            n == Len(s) \div Pieces
            m == Len(q)
<1>1. Complete(b) /\ Complete(u) BY BytesComplete, CompleteConcat
<1>2. Framed(s) /\ Framed(u) /\ s \in Seq(Piece) /\ b \in Seq(Piece) BY <1>1 DEF Complete, Framed
<1>3. Len(s) \in Nat /\ m \in Nat /\ DOMAIN q = 1 .. m BY <1>2, LenProperties
<1>4. Pieces * m \in Nat BY <1>3, Sizes, Products
<1>5. b = [j \in 1 .. (Pieces * m) |->
             [name |-> q[((j - 1) \div Pieces) + 1], piece |-> ((j - 1) % Pieces) + 1]]
  BY DEF Bytes
<1>6. Len(b) = Pieces * m
  <2>1. DOMAIN b = 1 .. (Pieces * m) BY <1>5
  <2>2. \A L \in Nat : \A x \in Seq(Piece) : DOMAIN x = 1 .. L => Len(x) = L BY LenProperties
  <2>. HIDE DEF b
  <2>. QED BY <1>2, <1>4, <2>1, <2>2
<1>7. ASSUME NEW k \in 1 .. m
      PROVE  /\ Pieces * (k - 1) + 1 \in 1 .. (Pieces * m)
             /\ b[Pieces * (k - 1) + 1].name = q[k]
  <2>. DEFINE c == Pieces * (k - 1)
  <2>1. k \in Nat /\ k - 1 \in Nat /\ k # 0 /\ k <= m /\ (k - 1) + 1 = k BY <1>3
  <2>2. c \in Nat /\ Pieces * k = c + Pieces /\ c \div Pieces = k - 1 BY <2>1, Sizes, Products
  <2>3. Pieces * k <= Pieces * m
    <3>1. \A P \in Nat : \A x, y \in Nat : x <= y => P * x <= P * y OBVIOUS
    <3>. QED BY <1>3, <2>1, <3>1, Sizes
  <2>. HIDE DEF c
  <2>4. c + 1 \in 1 .. (Pieces * m) /\ (c + 1) - 1 = c BY <1>4, <2>2, <2>3, Sizes
  <2>5. b[c + 1] = [name |-> q[(((c + 1) - 1) \div Pieces) + 1],
                    piece |-> (((c + 1) - 1) % Pieces) + 1]
    BY <1>5, <2>4
  <2>6. b[c + 1].name = q[(((c + 1) - 1) \div Pieces) + 1] BY <2>5
  <2>7. b[c + 1].name = q[k] BY <2>1, <2>2, <2>4, <2>6
  <2>. QED BY <2>4, <2>7 DEF c
<1>. HIDE DEF b
<1>8. /\ Len(u) = Len(s) + Pieces * m
      /\ \A i \in 1 .. Len(s) : u[i] = s[i]
      /\ \A i \in 1 .. (Pieces * m) : u[Len(s) + i] = b[i]
  BY <1>2, <1>3, <1>4, <1>6
<1>. HIDE DEF u
<1>9. n \in Nat /\ Len(s) = Pieces * n
  <2>1. n \in Nat BY <1>3, Sizes, Divided
  <2>2. CASE s = << >>
    <3>1. Len(s) = 0 BY <2>2
    <3>2. n = 0 BY <3>1, Sizes, Divided
    <3>. QED BY <2>1, <3>1, <3>2, Sizes
  <2>3. CASE s # << >>
    <3>1. Len(s) # 0 BY <1>2, <2>3, EmptySeq
    <3>2. Len(s) \in 1 .. Len(s) /\ Len(s) - 1 \in Nat /\ (Len(s) - 1) + 1 = Len(s)
      BY <1>3, <3>1
    <3>3. s[Len(s)].piece = Pieces BY <2>3 DEF Complete
    <3>4. s[Len(s)].piece = ((Len(s) - 1) % Pieces) + 1 BY <1>2, <3>2, PieceAt
    <3>5. (Len(s) - 1) % Pieces = Pieces - 1
      <4>1. (Len(s) - 1) % Pieces \in 0 .. (Pieces - 1) BY <3>2, Sizes, Divided
      <4>2. Pieces = ((Len(s) - 1) % Pieces) + 1 BY <3>3, <3>4, Zenon
      <4>. DEFINE r == (Len(s) - 1) % Pieces
      <4>. HIDE DEF r
      <4>3. r \in 0 .. (Pieces - 1) /\ Pieces = r + 1 BY <4>1, <4>2 DEF r
      <4>4. r = Pieces - 1 BY <4>3, Sizes
      <4>. QED BY <4>4 DEF r
    <3>6. ((Len(s) - 1) + 1) % Pieces = 0
      <4>1. \A a \in Nat : a % Pieces = Pieces - 1 => (a + 1) % Pieces = 0 BY Sizes, Divided
      <4>. QED BY <3>2, <3>5, <4>1, Zenon
    <3>7. Len(s) % Pieces = 0 BY <3>2, <3>6
    <3>8. \A a \in Nat : a % Pieces = 0 /\ a \div Pieces = n => a = Pieces * n
      BY <2>1, Sizes, Products
    <3>. QED BY <1>3, <2>1, <3>7, <3>8
  <2>. QED BY <2>2, <2>3
<1>. HIDE DEF n
<1>10. Len(u) \div Pieces = n + m
  <2>1. \A x \in Nat : Pieces * (x + m) = Pieces * x + Pieces * m BY <1>3, Sizes, Products
  <2>2. Len(u) = Pieces * (n + m) /\ n + m \in Nat BY <1>3, <1>8, <1>9, <2>1
  <2>. QED BY <2>2, Sizes, Products
<1>11. /\ Parsed(s) \in Seq(Seq(Piece)) /\ Len(Parsed(s)) = n
       /\ \A k \in 1 .. n : /\ Pieces * (k - 1) + 1 \in 1 .. Len(s)
                            /\ Parsed(s)[k] = Text(s[Pieces * (k - 1) + 1].name)
  BY <1>2, ParsedAt DEF n
<1>12. /\ Parsed(u) \in Seq(Seq(Piece)) /\ Len(Parsed(u)) = n + m
       /\ \A k \in 1 .. (n + m) : Parsed(u)[k] = Text(u[Pieces * (k - 1) + 1].name)
  BY <1>2, <1>10, ParsedAt
<1>13. /\ Texts(q) \in Seq(Seq(Piece)) /\ Len(Texts(q)) = m
       /\ \A k \in 1 .. m : Texts(q)[k] = Text(q[k])
  BY TextsAre
<1>14. ASSUME NEW k \in 1 .. n PROVE Parsed(u)[k] = Parsed(s)[k]
  <2>1. k \in 1 .. (n + m) BY <1>3, <1>9
  <2>. QED BY <1>8, <1>11, <1>12, <2>1
<1>15. ASSUME NEW k \in 1 .. m PROVE Parsed(u)[n + k] = Texts(q)[k]
  <2>1. n + k \in 1 .. (n + m) /\ (n + k) - 1 = n + (k - 1) /\ k - 1 \in Nat BY <1>3, <1>9
  <2>2. Pieces * (n + (k - 1)) = Pieces * n + Pieces * (k - 1) BY <1>9, <2>1, Sizes, Products
  <2>3. Pieces * (k - 1) + 1 \in 1 .. (Pieces * m) /\ b[Pieces * (k - 1) + 1].name = q[k] BY <1>7
  <2>4. Pieces * ((n + k) - 1) + 1 = Len(s) + (Pieces * (k - 1) + 1)
    <3>1. Pieces * (k - 1) \in Nat /\ Pieces * n \in Nat BY <1>9, <2>1, Sizes, Products
    <3>. QED BY <1>9, <2>1, <2>2, <3>1
  <2>5. u[Pieces * ((n + k) - 1) + 1].name = q[k] BY <1>8, <2>3, <2>4
  <2>. QED BY <1>12, <1>13, <2>1, <2>5
<1>16. Parsed(u) = Parsed(s) \o Texts(q)
  <2>. DEFINE x == Parsed(u)
              y == Parsed(s)
              z == Texts(q)
  <2>1. x \in Seq(Seq(Piece)) /\ y \in Seq(Seq(Piece)) /\ z \in Seq(Seq(Piece))
    BY <1>11, <1>12, <1>13
  <2>2. Len(y) = n /\ Len(z) = m /\ Len(x) = Len(y) + Len(z) BY <1>11, <1>12, <1>13
  <2>3. \A k \in 1 .. Len(y) : x[k] = y[k] BY <1>14, <2>2
  <2>4. \A k \in 1 .. Len(z) : x[Len(y) + k] = z[k] BY <1>15, <2>2
  <2>. HIDE DEF x, y, z
  <2>5. x = y \o z BY <2>1, <2>2, <2>3, <2>4, SameTexts
  <2>. QED BY <2>5 DEF x, y, z
<1>. QED BY <1>16 DEF u, b

\* Wherever a read ends: what is parsed of it, and then of the rest, is what would be
\* parsed of the whole.
LEMMA ReadInOrder ==
  ASSUME NEW buf \in Seq(Piece), NEW rest \in Seq(Piece), Complete(buf \o rest)
  PROVE  Parsed(buf \o rest) = Parsed(buf) \o Parsed(Unparsed(buf) \o rest)
<1>. DEFINE u == buf \o rest
            n == Len(buf) \div Pieces
            a == Pieces * n
            c == Unparsed(buf)
            v == c \o rest
            m == Len(v) \div Pieces
<1>1. Framed(buf) /\ c \in Seq(Piece) /\ Complete(v) /\ Framed(u) /\ Framed(v)
  BY UnparsedRest DEF Complete
<1>2. Len(buf) \in Nat /\ Len(rest) \in Nat /\ \A i \in 1 .. Len(buf) : buf[i] \in Piece
  BY LenProperties
<1>3. /\ n \in Nat /\ Parsed(buf) \in Seq(Seq(Piece)) /\ Len(Parsed(buf)) = n
      /\ End(buf, All(buf)) = a
      /\ \A k \in 1 .. n : /\ Pieces * (k - 1) + 1 \in 1 .. Len(buf)
                           /\ Parsed(buf)[k] = Text(buf[Pieces * (k - 1) + 1].name)
  BY <1>1, ParsedAt
<1>4. c = SubSeq(buf, a + 1, Len(buf)) BY <1>3 DEF Unparsed, All
<1>5. a \in Nat /\ a <= Len(buf)
  <2>1. End(buf, All(buf)) \in 0 .. Len(buf) BY EndLast
  <2>. QED BY <1>2, <1>3, <2>1
<1>6. /\ u \in Seq(Piece) /\ Len(u) = Len(buf) + Len(rest)
      /\ \A i \in 1 .. Len(buf) : u[i] = buf[i]
      /\ \A i \in 1 .. Len(rest) : u[Len(buf) + i] = rest[i]
  OBVIOUS
<1>. HIDE DEF a, c, u, n
<1>7. c \in Seq(Piece) /\ Len(c) = Len(buf) - a /\ \A i \in 1 .. (Len(buf) - a) : c[i] = buf[a + i]
  <2>1. \A x \in Seq(Piece) : \A k \in Nat : k <= Len(x) =>
          /\ Len(SubSeq(x, k + 1, Len(x))) = Len(x) - k
          /\ \A i \in 1 .. (Len(x) - k) : SubSeq(x, k + 1, Len(x))[i] = x[k + i]
    OBVIOUS
  <2>. QED BY <1>1, <1>4, <1>5, <2>1
<1>8. /\ Len(v) = Len(c) + Len(rest)
      /\ \A i \in 1 .. Len(c) : v[i] = c[i]
      /\ \A i \in 1 .. Len(rest) : v[Len(c) + i] = rest[i]
  <2>1. \A x, y \in Seq(Piece) :
          /\ Len(x \o y) = Len(x) + Len(y)
          /\ \A i \in 1 .. Len(x) : (x \o y)[i] = x[i]
          /\ \A i \in 1 .. Len(y) : (x \o y)[Len(x) + i] = y[i]
    OBVIOUS
  <2>. QED BY <1>7, <2>1, Zenon
<1>. HIDE DEF v
<1>9. Len(v) \in Nat /\ Len(u) = a + Len(v) BY <1>2, <1>5, <1>6, <1>7, <1>8
<1>10. ASSUME NEW i \in 1 .. Len(v) PROVE v[i] = u[a + i]
  <2>1. CASE i <= Len(c)
    <3>1. i \in 1 .. Len(c) /\ i \in 1 .. (Len(buf) - a) /\ a + i \in 1 .. Len(buf)
      BY <1>2, <1>5, <1>7, <1>9, <2>1
    <3>. QED BY <1>6, <1>7, <1>8, <3>1
  <2>2. CASE ~ (i <= Len(c))
    <3>1. /\ i - Len(c) \in 1 .. Len(rest) /\ Len(c) + (i - Len(c)) = i
          /\ Len(buf) + (i - Len(c)) = a + i
      BY <1>2, <1>5, <1>7, <1>8, <2>2
    <3>2. v[Len(c) + (i - Len(c))] = rest[i - Len(c)] /\ u[Len(buf) + (i - Len(c))] = rest[i - Len(c)]
      BY <1>6, <1>8, <3>1
    <3>. QED BY <3>1, <3>2
  <2>. QED BY <2>1, <2>2
<1>11. m \in Nat BY <1>9, Sizes, Divided
<1>12. Len(u) \div Pieces = n + m
  <2>1. \A x \in Nat : (Pieces * n + x) \div Pieces = n + (x \div Pieces)
    BY <1>3, Sizes, Products
  <2>. QED BY <1>9, <2>1 DEF a
<1>13. /\ Parsed(v) \in Seq(Seq(Piece)) /\ Len(Parsed(v)) = m
       /\ \A k \in 1 .. m : /\ Pieces * (k - 1) + 1 \in 1 .. Len(v)
                            /\ Parsed(v)[k] = Text(v[Pieces * (k - 1) + 1].name)
  BY <1>1, ParsedAt
<1>14. /\ Parsed(u) \in Seq(Seq(Piece)) /\ Len(Parsed(u)) = n + m
       /\ \A k \in 1 .. (n + m) : Parsed(u)[k] = Text(u[Pieces * (k - 1) + 1].name)
  BY <1>1, <1>12, ParsedAt
<1>. HIDE DEF m
<1>15. ASSUME NEW k \in 1 .. n PROVE Parsed(u)[k] = Parsed(buf)[k]
  <2>1. k \in 1 .. (n + m) BY <1>3, <1>11
  <2>. QED BY <1>3, <1>6, <1>14, <2>1
<1>16. ASSUME NEW k \in 1 .. m PROVE Parsed(u)[n + k] = Parsed(v)[k]
  <2>1. n + k \in 1 .. (n + m) /\ (n + k) - 1 = n + (k - 1) /\ k - 1 \in Nat BY <1>3, <1>11
  <2>2. Pieces * (n + (k - 1)) = Pieces * n + Pieces * (k - 1) BY <1>3, <2>1, Sizes, Products
  <2>3. Pieces * (k - 1) + 1 \in 1 .. Len(v) BY <1>13
  <2>4. Pieces * ((n + k) - 1) + 1 = a + (Pieces * (k - 1) + 1)
    <3>1. Pieces * (k - 1) \in Nat /\ Pieces * n \in Nat BY <1>3, <2>1, Sizes, Products
    <3>. QED BY <2>1, <2>2, <3>1 DEF a
  <2>5. u[Pieces * ((n + k) - 1) + 1] = v[Pieces * (k - 1) + 1] BY <1>10, <2>3, <2>4
  <2>. QED BY <1>13, <1>14, <2>1, <2>5
<1>17. Parsed(u) = Parsed(buf) \o Parsed(v)
  <2>. DEFINE x == Parsed(u)
              y == Parsed(buf)
              z == Parsed(v)
  <2>1. x \in Seq(Seq(Piece)) /\ y \in Seq(Seq(Piece)) /\ z \in Seq(Seq(Piece))
    BY <1>3, <1>13, <1>14
  <2>2. Len(y) = n /\ Len(z) = m /\ Len(x) = Len(y) + Len(z) BY <1>3, <1>13, <1>14
  <2>3. \A k \in 1 .. Len(y) : x[k] = y[k] BY <1>15, <2>2
  <2>4. \A k \in 1 .. Len(z) : x[Len(y) + k] = z[k] BY <1>16, <2>2
  <2>. HIDE DEF x, y, z
  <2>5. x = y \o z BY <2>1, <2>2, <2>3, <2>4, SameTexts
  <2>. QED BY <2>5 DEF x, y, z
<1>. QED BY <1>17 DEF u, v, c
=============================================================================
