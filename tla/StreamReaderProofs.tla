--------------------------- MODULE StreamReaderProofs ---------------------------
(* The stream readers of the three backends, for every body, every way to cut   *)
(* it into chunks and every capacity of the channel: what the receiver is told   *)
(* is what the server serves.                                                   *)
(* A reader that has been told so much, and reads on in what is buffered and     *)
(* what is still to come, is told the texts served (Exact).  A chunk that ends   *)
(* inside a character breaks this for good, but where both halves of a           *)
(* two-byte character are replaced anyhow, it does not matter where a chunk      *)
(* ends (Nearly).                                                               *)
EXTENDS StreamReader, SequenceLemmas

--------------------------------------------------------------------------------
(* Reading on                                                              *)

\* Where the reading of a body is.
Reading == [line : Seq(Char), texts : Seq(Seq(TextChar)), stop : BOOLEAN]

\* What a line says has a type.
LEMMA EventType ==
  ASSUME NEW who, NEW line \in Seq(Char)
  PROVE  EventOf(who, line).text \in Seq(TextChar) /\ EventOf(who, line).last \in BOOLEAN
<1>1. Nothing.text = << >> /\ Nothing.last = FALSE /\ << >> \in Seq(TextChar)
  BY EmptySeq DEF Nothing
<1>2. ASSUME IsEvent(line) PROVE TextOf(line) \in Seq(TextChar)
  <2>1. PICK n \in Nat : n = Len(line)
    BY LenProperties
  <2>2. \A i \in 2..(n - 1) : line[i] \in TextChar
    BY <1>2, <2>1 DEF IsEvent
  <2>3. TextOf(line) = SubSeq(line, 2, n - 1)
    BY <2>1 DEF TextOf
  <2>4. n \in 2..n /\ 2 \in Int /\ n - 1 \in Int
    BY <1>2, <2>1 DEF IsEvent
  <2>5. SubSeq(line, 2, n - 1) \in Seq(TextChar)
    BY <2>2, <2>4, SubSeqProperties
  <2> QED BY <2>3, <2>5
<1>3. CASE who = "ollama"
  <2>1. CASE IsEvent(line)
    BY <1>2, <1>3, <2>1 DEF EventOf, OllamaObject
  <2>2. CASE ~ IsEvent(line)
    BY <1>1, <1>3, <2>2 DEF EventOf, OllamaObject
  <2> QED BY <2>1, <2>2
<1>4. CASE who # "ollama"
  <2>1. EventOf(who, line) = SseEvent(line)
    BY <1>4 DEF EventOf
  <2>2. CASE line = <<"done">>
    BY <1>1, <2>1, <2>2 DEF SseEvent
  <2>3. CASE line # <<"done">> /\ IsEvent(line)
    BY <1>2, <2>1, <2>3 DEF SseEvent
  <2>4. CASE line # <<"done">> /\ ~ IsEvent(line)
    BY <1>1, <2>1, <2>4 DEF SseEvent
  <2> QED BY <2>2, <2>3, <2>4
<1> QED BY <1>3, <1>4

\* What a character makes of it.
LEMMA ReadCharType ==
  ASSUME NEW who, NEW st \in Reading, NEW c \in Char
  PROVE  ReadChar(who, st, c) \in Reading
<1>1. PICK line, texts, event : line = st.line /\ texts = st.texts /\ event = EventOf(who, line)
  OBVIOUS
<1>2. /\ line \in Seq(Char) /\ texts \in Seq(Seq(TextChar))
      /\ event.text \in Seq(TextChar) /\ event.last \in BOOLEAN
  BY <1>1, EventType DEF Reading
<1>3. << >> \in Seq(Char) /\ Append(line, c) \in Seq(Char) /\ Append(texts, event.text) \in Seq(Seq(TextChar))
  BY <1>2, EmptySeq, AppendProperties
<1>4. CASE st.stop
  BY <1>4 DEF ReadChar
<1>5. CASE ~ st.stop /\ c = "nl"
  <2>1. ReadChar(who, st, c) = [line |-> << >>, stop |-> event.last,
                           texts |-> IF event.text = << >> THEN texts ELSE Append(texts, event.text)]
    BY <1>1, <1>5 DEF ReadChar
  <2> QED BY <1>2, <1>3, <2>1 DEF Reading
<1>6. CASE ~ st.stop /\ c # "nl"
  <2>1. ReadChar(who, st, c) = [st EXCEPT !.line = Append(line, c)]
    BY <1>1, <1>6 DEF ReadChar
  <2> QED BY <1>3, <2>1 DEF Reading
<1> QED BY <1>4, <1>5, <1>6

\* Reading goes on from one state through more characters.
ReadOn(who, st, chars) == FoldLeft(LAMBDA s, c : ReadChar(who, s, c), st, chars)

\* The states on the way.
IsReading(who, f, st, chars) ==
  /\ f \in [0..Len(chars) -> Reading] /\ f[0] = st
  /\ \A k \in 1..Len(chars) : f[k] = ReadChar(who, f[k - 1], chars[k])
  /\ ReadOn(who, st, chars) = f[Len(chars)]

\* There are such states.
LEMMA ReadIsLast ==
  ASSUME NEW who, NEW st \in Reading, NEW chars \in Seq(Char)
  PROVE  \E f : IsReading(who, f, st, chars)
<1> DEFINE D == DOMAIN chars
           n == Len(chars)
           step == [k \in 1..n |-> [d \in Reading |-> ReadChar(who, d, chars[k])]]
           IsFold(iter) ==
             iter = [s \in SUBSET D |->
                       IF s = {} THEN st ELSE ReadChar(who, iter[s \ {Max(s)}], chars[Max(s)])]
           fold == CHOOSE iter : IsFold(iter)
           f == [k \in 0..n |-> fold[1..k]]
<1>1. D = 1..n /\ n \in Nat /\ \A k \in 1..n : chars[k] \in Char
  BY LenProperties, ElementOfSeq
<1>3. step \in [1..n -> [Reading -> Reading]]
  BY <1>1, ReadCharType
<1>4. PICK g \in [SUBSET (1..n) -> Reading] :
        \A s \in SUBSET (1..n) : g[s] = IF s = {} THEN st ELSE step[Max(s)][g[s \ {Max(s)}]]
  <2>1. PICK g : IsFoldOver(g, Reading, n, st, step)
    <3> HIDE DEF step, n
    <3> QED BY <1>1, <1>3, FoldExists
  <2> HIDE DEF step, n
  <2> QED BY <2>1 DEF IsFoldOver
<1>5. ASSUME NEW s \in SUBSET (1..n), s # {}
      PROVE  Max(s) \in 1..n /\ s \ {Max(s)} \in SUBSET (1..n)
  <2>1. Max(s) \in s
    BY <1>1, <1>5, Greatest
  <2> QED BY <2>1
<1>6. IsFold(g)
  <2>1. \A s \in SUBSET (1..n) :
          g[s] = IF s = {} THEN st ELSE ReadChar(who, g[s \ {Max(s)}], chars[Max(s)])
    BY <1>4, <1>5
  <2> QED BY <1>1, <1>4, <2>1
<1>7. IsFold(fold)
  <2> HIDE DEF IsFold
  <2> QED BY <1>6
<1>8. ReadOn(who, st, chars) = fold[D]
  BY DEF ReadOn, FoldLeft, MapThenFoldSet
<1> HIDE DEF fold
<1>9. f[0] = st /\ ReadOn(who, st, chars) = f[n]
  <2>1. 1..0 = {} /\ 0 \in 0..n /\ n \in 0..n
    BY <1>1
  <2>2. fold[{}] = st
    BY <1>7
  <2> QED BY <1>1, <1>8, <2>1, <2>2
<1>10. ASSUME NEW k \in 1..n PROVE f[k] = ReadChar(who, f[k - 1], chars[k])
  <2>1. 1..k # {} /\ Max(1..k) = k /\ (1..k) \ {Max(1..k)} = 1..(k - 1)
    BY <1>1, FoldPrefix
  <2>2. 1..k \in SUBSET D /\ k \in 0..n /\ k - 1 \in 0..n
    BY <1>1
  <2>3. fold[1..k] = ReadChar(who, fold[(1..k) \ {Max(1..k)}], chars[Max(1..k)])
    BY <1>7, <2>1, <2>2
  <2> QED BY <2>1, <2>2, <2>3
<1> DEFINE Odd == {k \in Nat : k <= n /\ f[k] \notin Reading}
<1>11. DOMAIN f = 0..n /\ f = [k \in 0..n |-> f[k]]
  OBVIOUS
<1> HIDE DEF f
<1>12. CASE Odd # {}
  <2>1. PICK k \in Odd : \A l \in Odd : k <= l
    BY <1>12, Least, Zenon
  <2>2. k \in Nat /\ k <= n /\ k # 0 /\ f[k] \notin Reading
    BY <1>9, <2>1
  <2>3. k - 1 \in Nat /\ k - 1 <= n /\ ~ (k <= k - 1) /\ k \in 1..n
    BY <1>1, <2>2
  <2>4. f[k - 1] \in Reading
    BY <2>1, <2>3
  <2>5. f[k] \in Reading
    BY <1>1, <1>10, <2>3, <2>4, ReadCharType
  <2> QED BY <2>2, <2>5
<1>13. CASE Odd = {}
  <2>1. \A k \in 0..n : k \in Nat /\ k <= n
    BY <1>1
  <2>2. \A k \in 0..n : f[k] \in Reading
    BY <1>13, <2>1
  <2>3. f \in [0..n -> Reading]
    BY <1>11, <2>2
  <2> QED BY <1>9, <1>10, <2>3 DEF IsReading
<1> QED BY <1>12, <1>13

\* Reading one text and then another is reading both.
LEMMA ReadConcat ==
  ASSUME NEW who, NEW st \in Reading, NEW x \in Seq(Char), NEW y \in Seq(Char)
  PROVE  ReadOn(who, st, x) \in Reading /\ ReadOn(who, st, x \o y) = ReadOn(who, ReadOn(who, st, x), y)
<1>1. PICK m \in Nat : m = Len(x) /\ DOMAIN x = 1..m
  BY LenProperties
<1>2. PICK n \in Nat : n = Len(y) /\ DOMAIN y = 1..n
  BY LenProperties
<1>3. PICK xy : xy = x \o y /\ xy \in Seq(Char) /\ Len(xy) = m + n
  BY <1>1, <1>2, ConcatProperties
<1>4. /\ \A k \in 1..m : xy[k] = x[k]
      /\ \A k \in 1..n : xy[m + k] = y[k]
  BY <1>1, <1>2, <1>3, InConcat
<1>5. PICK g : IsReading(who, g, st, x)
  BY ReadIsLast
<1>6. g \in [0..m -> Reading] /\ g[0] = st /\ ReadOn(who, st, x) = g[m] /\ g[m] \in Reading
      /\ \A k \in 1..m : g[k] = ReadChar(who, g[k - 1], x[k])
  <2>1. m \in 0..m
    OBVIOUS
  <2> QED BY <1>1, <1>5, <2>1 DEF IsReading
<1>7. PICK h : IsReading(who, h, g[m], y)
  BY <1>6, ReadIsLast
<1>8. h[0] = g[m] /\ ReadOn(who, g[m], y) = h[n] /\ \A k \in 1..n : h[k] = ReadChar(who, h[k - 1], y[k])
  BY <1>2, <1>7 DEF IsReading
<1>9. PICK f : IsReading(who, f, st, xy)
  BY <1>3, ReadIsLast
<1>10. f[0] = st /\ ReadOn(who, st, xy) = f[m + n] /\ \A k \in 1..(m + n) : f[k] = ReadChar(who, f[k - 1], xy[k])
  BY <1>3, <1>9 DEF IsReading
<1>11. \A k \in Nat : k <= m => f[k] = g[k]
  <2> DEFINE Odd == {k \in Nat : k <= m /\ f[k] # g[k]}
  <2>1. CASE Odd # {}
    <3>1. PICK k \in Odd : \A l \in Odd : k <= l
      BY <2>1, Least, Zenon
    <3>2. k \in Nat /\ k <= m /\ f[k] # g[k] /\ k # 0
      BY <1>6, <1>10, <3>1
    <3>3. k - 1 \in Nat /\ k - 1 <= m /\ ~ (k <= k - 1) /\ k \in 1..m /\ k \in 1..(m + n)
      BY <3>2
    <3>4. f[k - 1] = g[k - 1]
      BY <3>1, <3>3
    <3>5. f[k] = ReadChar(who, f[k - 1], xy[k]) /\ g[k] = ReadChar(who, g[k - 1], x[k]) /\ xy[k] = x[k]
      BY <1>4, <1>6, <1>10, <3>3
    <3> QED BY <3>2, <3>4, <3>5
  <2> QED BY <2>1
<1>12. \A k \in Nat : k <= n => f[m + k] = h[k]
  <2> DEFINE Odd == {k \in Nat : k <= n /\ f[m + k] # h[k]}
  <2>1. CASE Odd # {}
    <3>1. PICK k \in Odd : \A l \in Odd : k <= l
      BY <2>1, Least, Zenon
    <3>2. f[m + 0] = h[0]
      <4>1. m + 0 = m /\ m <= m
        OBVIOUS
      <4> QED BY <1>8, <1>11, <4>1
    <3>3. k \in Nat /\ k <= n /\ f[m + k] # h[k] /\ k # 0
      BY <3>1, <3>2
    <3>4. /\ k - 1 \in Nat /\ k - 1 <= n /\ ~ (k <= k - 1) /\ k \in 1..n
          /\ m + k \in 1..(m + n) /\ (m + k) - 1 = m + (k - 1)
      BY <3>3
    <3>5. f[m + (k - 1)] = h[k - 1]
      BY <3>1, <3>4
    <3>6. f[m + k] = ReadChar(who, f[m + (k - 1)], xy[m + k]) /\ h[k] = ReadChar(who, h[k - 1], y[k])
      BY <1>8, <1>10, <3>4
    <3>7. xy[m + k] = y[k]
      BY <1>4, <3>4
    <3> QED BY <3>3, <3>5, <3>6, <3>7
  <2> QED BY <2>1
<1>13. f[m + n] = h[n]
  <2>1. n <= n
    OBVIOUS
  <2> QED BY <1>12, <2>1
<1> QED BY <1>3, <1>6, <1>8, <1>10, <1>13

--------------------------------------------------------------------------------
(* Decoding                                                                *)

\* What each byte becomes.
PiecesOf(bytes) == [i \in DOMAIN bytes |-> CharAt(bytes, i)]

\* A byte becomes at most one character.
LEMMA LossyType ==
  ASSUME NEW bytes \in Seq(Byte)
  PROVE  /\ PiecesOf(bytes) \in Seq(Seq(Char)) /\ Len(PiecesOf(bytes)) = Len(bytes)
         /\ Lossy(bytes) = FlattenSeq(PiecesOf(bytes)) /\ Lossy(bytes) \in Seq(Char)
<1>1. PICK n \in Nat : n = Len(bytes) /\ DOMAIN bytes = 1..n /\ \A i \in 1..n : bytes[i] \in Byte
  BY LenProperties, ElementOfSeq
<1>2. ASSUME NEW i \in 1..n PROVE CharAt(bytes, i) \in Seq(Char)
  <2>1. << >> \in Seq(Char) /\ <<"u">> \in Seq(Char) /\ <<"r">> \in Seq(Char)
    BY EmptySeq DEF Char, TextChar
  <2>2. CASE bytes[i] \notin {"u1", "u2"}
    <3>1. bytes[i] \in Char
      BY <1>1, <2>2 DEF Byte, Char, TextChar
    <3> QED BY <2>2, <3>1 DEF CharAt
  <2>3. CASE bytes[i] \in {"u1", "u2"}
    BY <2>1, <2>3 DEF CharAt
  <2> QED BY <2>2, <2>3
<1>3. PiecesOf(bytes) \in [1..n -> Seq(Char)]
  BY <1>1, <1>2 DEF PiecesOf
<1>4. PiecesOf(bytes) \in Seq(Seq(Char)) /\ Len(PiecesOf(bytes)) = n
  <2>1. PICK p : p = PiecesOf(bytes)
    OBVIOUS
  <2> QED BY <1>3, <2>1
<1>5. Lossy(bytes) = FlattenSeq(PiecesOf(bytes))
  BY DEF Lossy, PiecesOf
<1> QED BY <1>1, <1>4, <1>5, FlattenedElements

\* What such a chunk becomes does not depend on what follows it.
LEMMA PiecesApart ==
  ASSUME NEW x \in Seq(Byte), NEW y \in Seq(Byte), Utf8(x)
  PROVE  PiecesOf(x \o y) = PiecesOf(x) \o PiecesOf(y)
<1>1. PICK m \in Nat : m = Len(x) /\ DOMAIN x = 1..m
  BY LenProperties
<1>2. PICK n \in Nat : n = Len(y) /\ DOMAIN y = 1..n
  BY LenProperties
<1>3. PICK xy : xy = x \o y /\ xy \in Seq(Byte) /\ Len(xy) = m + n
  BY <1>1, <1>2, ConcatProperties
<1>4. (\A k \in 1..m : xy[k] = x[k]) /\ (\A k \in 1..n : xy[m + k] = y[k])
  BY <1>1, <1>2, <1>3, InConcat
<1>5. ASSUME NEW i \in 1..m PROVE CharAt(xy, i) = CharAt(x, i)
  <2>1. xy[i] = x[i]
    BY <1>4
  <2>2. CASE x[i] \notin {"u1", "u2"}
    BY <2>1, <2>2 DEF CharAt
  <2>3. CASE x[i] \in {"u1", "u2"}
    <3>1. Paired(x, i)
      BY <1>1, <2>3 DEF Utf8
    <3>2. Paired(xy, i)
      <4>1. CASE x[i] = "u1"
        <5>1. i < m /\ x[i + 1] = "u2"
          BY <1>1, <3>1, <4>1 DEF Paired
        <5>2. i + 1 \in 1..m /\ i < m + n
          BY <5>1
        <5> QED BY <1>3, <1>4, <2>1, <4>1, <5>1, <5>2 DEF Paired
      <4>2. CASE x[i] = "u2"
        <5>1. i > 1 /\ x[i - 1] = "u1"
          BY <3>1, <4>2 DEF Paired
        <5>2. i - 1 \in 1..m
          BY <5>1
        <5> QED BY <1>4, <2>1, <4>2, <5>1, <5>2 DEF Paired
      <4> QED BY <2>3, <4>1, <4>2
    <3> QED BY <2>1, <2>3, <3>1, <3>2 DEF CharAt
  <2> QED BY <2>2, <2>3
<1>6. ASSUME NEW i \in 1..n PROVE CharAt(xy, m + i) = CharAt(y, i)
  <2>1. xy[m + i] = y[i]
    BY <1>4
  <2>2. Paired(xy, m + i) <=> Paired(y, i)
    <3>1. CASE y[i] = "u1"
      <4>1. m + i < m + n <=> i < n
        OBVIOUS
      <4>2. ASSUME i < n PROVE xy[(m + i) + 1] = y[i + 1]
        <5>1. i + 1 \in 1..n /\ (m + i) + 1 = m + (i + 1)
          BY <4>2
        <5> QED BY <1>4, <5>1
      <4> QED BY <1>2, <1>3, <2>1, <3>1, <4>1, <4>2 DEF Paired
    <3>2. CASE y[i] # "u1" /\ i > 1
      <4>1. i - 1 \in 1..n /\ (m + i) - 1 = m + (i - 1) /\ m + i > 1
        BY <3>2
      <4>2. xy[(m + i) - 1] = y[i - 1]
        BY <1>4, <4>1
      <4> QED BY <2>1, <3>2, <4>1, <4>2 DEF Paired
    <3>3. CASE y[i] # "u1" /\ ~ (i > 1)
      <4>1. i = 1 /\ (m + i) - 1 = m
        BY <3>3
      <4>2. ASSUME m + i > 1, xy[m] = "u1" PROVE FALSE
        <5>1. m \in 1..m
          BY <4>1, <4>2
        <5>2. x[m] = "u1"
          BY <1>4, <4>2, <5>1
        <5>3. Paired(x, m)
          BY <1>1, <5>1, <5>2 DEF Utf8
        <5> QED BY <1>1, <5>2, <5>3 DEF Paired
      <4> QED BY <2>1, <3>3, <4>1, <4>2 DEF Paired
    <3> QED BY <3>1, <3>2, <3>3
  <2> QED BY <2>1, <2>2 DEF CharAt
<1>7. PICK p \in Seq(Seq(Char)) : p = PiecesOf(x) /\ Len(p) = m /\ \A i \in 1..m : p[i] = CharAt(x, i)
  <2>1. PiecesOf(x) \in Seq(Seq(Char)) /\ Len(PiecesOf(x)) = Len(x)
    BY LossyType
  <2> QED BY <1>1, <2>1 DEF PiecesOf
<1>8. PICK q \in Seq(Seq(Char)) : q = PiecesOf(y) /\ Len(q) = n /\ \A i \in 1..n : q[i] = CharAt(y, i)
  <2>1. PiecesOf(y) \in Seq(Seq(Char)) /\ Len(PiecesOf(y)) = Len(y)
    BY LossyType
  <2> QED BY <1>2, <2>1 DEF PiecesOf
<1>9. PICK r \in Seq(Seq(Char)) : /\ r = PiecesOf(xy) /\ Len(r) = m + n
                                  /\ \A i \in 1..(m + n) : r[i] = CharAt(xy, i)
  <2>1. PiecesOf(xy) \in Seq(Seq(Char)) /\ Len(PiecesOf(xy)) = Len(xy)
    BY <1>3, LossyType
  <2>2. DOMAIN xy = 1..(m + n)
    BY <1>3, LenProperties
  <2> QED BY <1>3, <2>1, <2>2 DEF PiecesOf
<1>10. Joins(r, p, q)
  <2>1. ASSUME NEW k \in 1..m PROVE r[k] = p[k]
    <3>1. k \in 1..(m + n)
      OBVIOUS
    <3>2. r[k] = CharAt(xy, k)
      BY <1>9, <3>1
    <3> QED BY <1>5, <1>7, <3>2
  <2>2. ASSUME NEW k \in 1..n PROVE r[m + k] = q[k]
    <3>1. m + k \in 1..(m + n)
      OBVIOUS
    <3>2. r[m + k] = CharAt(xy, m + k)
      BY <1>9, <3>1
    <3> QED BY <1>6, <1>8, <3>2
  <2> QED BY <1>7, <1>8, <1>9, <2>1, <2>2 DEF Joins
<1>11. PICK W : W = Seq(Char)
  OBVIOUS
<1>12. p \in Seq(W) /\ q \in Seq(W) /\ r \in Seq(W)
  BY <1>11
<1>13. r = p \o q
  BY <1>10, <1>12, ConcatIs
<1> QED BY <1>3, <1>7, <1>8, <1>9, <1>13

\* Decoded together, a chunk that ends between characters and what follows it are
\* what they are decoded apart.
LEMMA LossyConcat ==
  ASSUME NEW x \in Seq(Byte), NEW y \in Seq(Byte), Utf8(x)
  PROVE  Lossy(x \o y) = Lossy(x) \o Lossy(y)
<1>1. PICK p \in Seq(Seq(Char)) : p = PiecesOf(x) /\ Lossy(x) = FlattenSeq(p)
  BY LossyType
<1>2. PICK q \in Seq(Seq(Char)) : q = PiecesOf(y) /\ Lossy(y) = FlattenSeq(q)
  BY LossyType
<1>3. x \o y \in Seq(Byte)
  BY ConcatProperties
<1>4. Lossy(x \o y) = FlattenSeq(PiecesOf(x \o y))
  BY <1>3, LossyType
<1>5. PiecesOf(x \o y) = p \o q
  BY <1>1, <1>2, PiecesApart
<1>6. FlattenSeq(p \o q) = FlattenSeq(p) \o FlattenSeq(q)
  BY FlattenedConcat
<1> QED BY <1>1, <1>2, <1>4, <1>5, <1>6

--------------------------------------------------------------------------------
(* Replacements                                                            *)

\* A character of two bytes becomes one for each byte when a chunk ends inside it.
\* With two in its place everywhere, it makes no difference where chunks end.
Widened == [c \in Char |-> IF c = "u" THEN <<"r", "r">> ELSE <<c>>]
Wide(text) == Spread(Widened, text)

\* The bytes, with those that a chunk may have cut apart replaced.
Replaced == [b \in Byte |-> IF b \in {"u1", "u2"} THEN <<"r">> ELSE <<b>>]
Plain(bytes) == Spread(Replaced, bytes)

\* What characters and bytes are replaced by.
LEMMA WidenedType ==
  /\ Widened \in [Char -> Seq(Char)] /\ Replaced \in [Byte -> Seq(Char)]
  /\ TextChar \subseteq Char /\ "r" \in TextChar /\ "u" \in TextChar /\ "r" \in Char /\ "u" \in Char
<1>1. "r" \in Char /\ "u" \in Char /\ "r" \in TextChar /\ "u" \in TextChar
  BY DEF Char, TextChar
<1>2. ASSUME NEW c \in Char PROVE <<"r", "r">> \in Seq(Char) /\ <<c>> \in Seq(Char)
  BY <1>1
<1>3. ASSUME NEW b \in Byte PROVE b \notin {"u1", "u2"} => b \in Char
  BY DEF Byte, Char, TextChar
<1>4. Widened \in [Char -> Seq(Char)]
  BY <1>2 DEF Widened
<1>5. ASSUME NEW b \in Byte PROVE Replaced[b] \in Seq(Char)
  BY <1>1, <1>2, <1>3 DEF Replaced
<1>6. Replaced \in [Byte -> Seq(Char)]
  BY <1>5 DEF Replaced
<1> QED BY <1>1, <1>4, <1>6 DEF Char

\* Widened texts, joined and alone.
LEMMA WideType == ASSUME NEW s \in Seq(Char) PROVE Wide(s) \in Seq(Char)
BY WidenedType, SpreadType DEF Wide

\* Of texts end to end.
LEMMA WideConcat ==
  ASSUME NEW s \in Seq(Char), NEW t \in Seq(Char)
  PROVE  Wide(s \o t) = Wide(s) \o Wide(t)
<1>1. Distributes(Widened, Char)
  BY WidenedType, SpreadConcat
<1> QED BY <1>1 DEF Wide, Distributes

\* Of nothing and of one character.
LEMMA WideOne == Wide(<< >>) = << >> /\ \A c \in Char : Wide(<<c>>) = Widened[c]
BY WidenedType, SpreadOne DEF Wide

\* The same for bytes.
LEMMA PlainType == ASSUME NEW bytes \in Seq(Byte) PROVE Plain(bytes) \in Seq(Char)
BY WidenedType, SpreadType DEF Plain

\* Of bytes end to end.
LEMMA PlainConcat ==
  ASSUME NEW x \in Seq(Byte), NEW y \in Seq(Byte)
  PROVE  Plain(x \o y) = Plain(x) \o Plain(y)
<1>1. Distributes(Replaced, Byte)
  BY WidenedType, SpreadConcat
<1> QED BY <1>1 DEF Plain, Distributes

\* With the replacements widened, what is decoded is as long as its bytes.
LEMMA WideLossy ==
  ASSUME NEW bytes \in Seq(Byte)
  PROVE  Wide(Lossy(bytes)) = Plain(bytes)
<1>1. PICK n \in Nat : n = Len(bytes) /\ DOMAIN bytes = 1..n /\ \A i \in 1..n : bytes[i] \in Byte
  BY LenProperties, ElementOfSeq
<1>2. PICK e : IsSpreading(e, Replaced, bytes, Char)
  BY WidenedType, SpreadTable
<1>3. /\ e \in [0..n -> Seq(Char)] /\ e[0] = << >> /\ e[n] = Plain(bytes)
      /\ \A i \in 1..n : e[i] = e[i - 1] \o (IF bytes[i] \in {"u1", "u2"} THEN <<"r">> ELSE <<bytes[i]>>)
  BY <1>1, <1>2 DEF IsSpreading, Replaced, Plain
<1>4. PICK f \in [0..n -> Seq(Char)] : /\ f[0] = << >>
                                       /\ \A i \in 1..n : f[i] = f[i - 1] \o CharAt(bytes, i)
                                       /\ Lossy(bytes) = f[n]
  <2>1. PICK q \in Seq(Seq(Char)) : /\ q = PiecesOf(bytes) /\ Len(q) = n /\ Lossy(bytes) = FlattenSeq(q)
                                    /\ \A i \in 1..n : q[i] = CharAt(bytes, i)
    <3>1. /\ PiecesOf(bytes) \in Seq(Seq(Char)) /\ Len(PiecesOf(bytes)) = Len(bytes)
          /\ Lossy(bytes) = FlattenSeq(PiecesOf(bytes))
      BY LossyType
    <3>2. \A i \in 1..n : PiecesOf(bytes)[i] = CharAt(bytes, i)
      BY <1>1 DEF PiecesOf
    <3> QED BY <1>1, <3>1, <3>2
  <2>2. PICK f \in [0..n -> Seq(Char)] : /\ f[0] = << >>
                                         /\ \A i \in 1..n : f[i] = f[i - 1] \o q[i]
                                         /\ FlattenSeq(q) = f[n]
    BY <2>1, Flattened
  <2>3. \A i \in 1..n : f[i] = f[i - 1] \o CharAt(bytes, i)
    BY <2>1, <2>2
  <2> QED BY <2>1, <2>2, <2>3
<1>5. ASSUME NEW i \in 1..n PROVE CharAt(bytes, i) \in Seq(Char)
  <2>1. PiecesOf(bytes) \in Seq(Seq(Char)) /\ Len(PiecesOf(bytes)) = Len(bytes)
    BY LossyType
  <2>2. PiecesOf(bytes)[i] \in Seq(Char)
    BY <1>1, <2>1, ElementOfSeq
  <2> QED BY <1>1, <2>2 DEF PiecesOf
<1> DEFINE Begun(i) == i # 0 /\ bytes[i] = "u1" /\ Paired(bytes, i)
           Upto(i) == IF Begun(i) THEN i + 1 ELSE i
<1>6. ASSUME NEW i \in 1..n, Wide(f[i - 1]) = e[Upto(i - 1)]
      PROVE  Wide(f[i]) = e[Upto(i)]
  <2>1. f[i - 1] \in Seq(Char) /\ CharAt(bytes, i) \in Seq(Char) /\ f[i] = f[i - 1] \o CharAt(bytes, i)
    <3>1. i - 1 \in 0..n
      BY <1>1
    <3> QED BY <1>4, <1>5, <3>1
  <2>2. PICK c \in Seq(Char) : c = CharAt(bytes, i)
    BY <2>1
  <2>3. Wide(f[i]) = e[Upto(i - 1)] \o Wide(c)
    BY <1>6, <2>1, <2>2, WideConcat
  <2>4. CASE Begun(i - 1)
    <3>1. bytes[i - 1] = "u1" /\ i - 1 < n /\ bytes[(i - 1) + 1] = "u2" /\ (i - 1) + 1 = i /\ i > 1
      BY <1>1, <2>4 DEF Paired
    <3>2. bytes[i] = "u2" /\ Paired(bytes, i)
      BY <3>1 DEF Paired
    <3>3. c = << >> /\ Upto(i - 1) = i /\ Upto(i) = i
      BY <2>2, <2>4, <3>1, <3>2 DEF CharAt
    <3>4. e[i] \in Seq(Char)
      <4>1. i \in 0..n
        OBVIOUS
      <4> QED BY <1>3, <4>1
    <3> QED BY <2>3, <3>3, <3>4, WideOne, ConcatEmptySeq
  <2>5. CASE ~ Begun(i - 1)
    <3>1. Upto(i - 1) = i - 1 /\ i - 1 \in 0..n /\ (i - 1) + 1 = i
      BY <1>1, <2>5
    <3>2. PICK b \in Seq(Char) : b = e[i - 1]
      BY <1>3, <3>1
    <3>3. Wide(f[i]) = b \o Wide(c)
      BY <2>3, <3>1, <3>2
    <3>4. CASE bytes[i] \notin {"u1", "u2"}
      <4>1. bytes[i] \in Char /\ bytes[i] # "u"
        BY <1>1, <3>4 DEF Byte, Char, TextChar
      <4>2. c = <<bytes[i]>> /\ e[i] = b \o <<bytes[i]>> /\ Upto(i) = i
        BY <1>3, <2>2, <3>2, <3>4 DEF CharAt
      <4>3. Wide(c) = <<bytes[i]>>
        BY <4>1, <4>2, WideOne DEF Widened
      <4> QED BY <3>3, <4>2, <4>3
    <3>5. ASSUME bytes[i] \in {"u1", "u2"}, ~ Paired(bytes, i)
          PROVE  Wide(f[i]) = e[Upto(i)]
      <4>1. c = <<"r">> /\ e[i] = b \o <<"r">> /\ Upto(i) = i
        BY <1>3, <2>2, <3>2, <3>5 DEF CharAt
      <4>2. Wide(<<"r">>) = <<"r">>
        BY WidenedType, WideOne DEF Widened
      <4> QED BY <3>3, <4>1, <4>2
    <3>6. CASE bytes[i] = "u2"
      <4>1. ASSUME Paired(bytes, i) PROVE FALSE
        <5>1. i > 1 /\ bytes[i - 1] = "u1"
          BY <3>6, <4>1 DEF Paired
        <5>2. i - 1 < n /\ bytes[(i - 1) + 1] = "u2"
          BY <3>1, <3>6
        <5>3. Paired(bytes, i - 1)
          BY <1>1, <5>1, <5>2 DEF Paired
        <5> QED BY <2>5, <5>1, <5>3
      <4> QED BY <3>5, <3>6, <4>1
    <3>7. CASE bytes[i] = "u1" /\ Paired(bytes, i)
      <4>1. i < n /\ bytes[i + 1] = "u2"
        BY <1>1, <3>7 DEF Paired
      <4>2. i + 1 \in 1..n /\ i # 0 /\ (i + 1) - 1 = i
        BY <1>1, <4>1
      <4>3. c = <<"u">> /\ e[i] = b \o <<"r">> /\ Upto(i) = i + 1
        BY <1>3, <2>2, <3>2, <3>7, <4>2 DEF CharAt
      <4>4. e[i + 1] = e[i] \o <<"r">>
        BY <1>3, <4>1, <4>2
      <4>5. Wide(<<"u">>) = <<"r", "r">>
        BY WidenedType, WideOne DEF Widened
      <4>6. <<"r">> \in Seq(Char) /\ <<"r", "r">> = <<"r">> \o <<"r">>
        BY WidenedType
      <4>7. Associates(Char)
        BY Reassociated
      <4>8. PICK R \in Seq(Char) : R = <<"r">>
        BY <4>6
      <4>9. (b \o R) \o R = b \o (R \o R)
        BY <4>7 DEF Associates
      <4> QED BY <3>3, <4>3, <4>4, <4>5, <4>6, <4>8, <4>9
    <3> QED BY <3>4, <3>5, <3>6, <3>7
  <2> QED BY <2>4, <2>5
<1>7. ~ Begun(0) /\ ~ Begun(n)
  BY <1>1 DEF Paired
<1>8. Upto(0) = 0 /\ Upto(n) = n
  BY <1>7
<1> HIDE DEF Upto
<1>9. Wide(f[0]) = e[0]
  BY <1>3, <1>4, WideOne
<1> DEFINE Odd == {i \in Nat : i <= n /\ Wide(f[i]) # e[Upto(i)]}
<1>10. CASE Odd # {}
  <2>1. PICK i \in Odd : \A j \in Odd : i <= j
    BY <1>10, Least, Zenon
  <2>2. i \in Nat /\ i <= n /\ Wide(f[i]) # e[Upto(i)] /\ i # 0
    BY <1>8, <1>9, <2>1
  <2>3. i - 1 \in Nat /\ i - 1 <= n /\ ~ (i <= i - 1) /\ i \in 1..n
    BY <2>2
  <2>4. Wide(f[i - 1]) = e[Upto(i - 1)]
    BY <2>1, <2>3
  <2> QED BY <1>6, <2>2, <2>3, <2>4
<1>11. CASE Odd = {}
  <2>1. n <= n
    OBVIOUS
  <2>2. Wide(f[n]) = e[n]
    BY <1>8, <1>11, <2>1
  <2> QED BY <1>3, <1>4, <2>2
<1> QED BY <1>10, <1>11

--------------------------------------------------------------------------------
(* Events of widened lines                                                 *)

Framed(line, c, mid, d) == line = (<<c>> \o mid) \o <<d>>

IsEventOf(line, c, mid, d) ==
  /\ IsEvent(line) <=> c = "open" /\ d \in {"close", "last"} /\ ToSet(mid) \subseteq TextChar
  /\ TextOf(line) = mid /\ Last(line) = d

\* A line of two characters or more, by its first, its last and what is between.
LEMMA FramedEvent ==
  ASSUME NEW c \in Char, NEW d \in Char, NEW mid \in Seq(Char), NEW line, Framed(line, c, mid, d)
  PROVE  IsEventOf(line, c, mid, d)
<1>1. PICK m \in Nat : m = Len(mid) /\ DOMAIN mid = 1..m /\ \A i \in 1..m : mid[i] \in Char
  BY LenProperties, ElementOfSeq
<1>2. PICK C \in Seq(Char) : C = <<c>> /\ Len(C) = 1 /\ C[1] = c
  <2>1. <<c>> \in Seq(Char)
    OBVIOUS
  <2> QED BY <2>1
<1>3. PICK D \in Seq(Char) : D = <<d>> /\ Len(D) = 1 /\ D[1] = d
  <2>1. <<d>> \in Seq(Char)
    OBVIOUS
  <2> QED BY <2>1
<1>4. PICK y \in Seq(Char) : y = C \o mid /\ Len(y) = m + 1 /\ Joins(y, C, mid)
  <2>1. PICK y \in Seq(Char) : y = C \o mid /\ Joins(y, C, mid)
    BY ConcatJoins
  <2>2. Len(y) = m + 1
    BY <1>1, <1>2, <2>1 DEF Joins
  <2> QED BY <2>1, <2>2
<1>5. line = y \o D /\ line \in Seq(Char) /\ Len(line) = m + 2
  <2>1. line = y \o D
    BY <1>2, <1>3, <1>4 DEF Framed
  <2>2. y \o D \in Seq(Char) /\ Len(y \o D) = Len(y) + Len(D)
    BY ConcatProperties
  <2> QED BY <1>3, <1>4, <2>1, <2>2
<1>6. y[1] = c /\ \A k \in 1..m : y[1 + k] = mid[k]
  <2>1. 1 \in 1..1
    OBVIOUS
  <2> QED BY <1>1, <1>2, <1>4, <2>1 DEF Joins
<1>7. /\ \A k \in 1..(m + 1) : line[k] = y[k]
      /\ line[(m + 1) + 1] = d
  <2>1. Joins(line, y, D)
    BY <1>5, ConcatJoins
  <2>2. 1 \in 1..1
    OBVIOUS
  <2> QED BY <1>3, <1>4, <2>1, <2>2 DEF Joins
<1>8. line[1] = c /\ line[m + 2] = d /\ \A k \in 1..m : line[k + 1] = mid[k]
  <2>1. 1 \in 1..(m + 1) /\ (m + 1) + 1 = m + 2
    OBVIOUS
  <2>2. ASSUME NEW k \in 1..m PROVE line[k + 1] = mid[k]
    <3>1. k + 1 \in 1..(m + 1) /\ k + 1 = 1 + k
      OBVIOUS
    <3> QED BY <1>6, <1>7, <3>1
  <2> QED BY <1>6, <1>7, <2>1, <2>2
<1>9. (\A i \in 2..(m + 1) : line[i] \in TextChar) <=> ToSet(mid) \subseteq TextChar
  <2>1. ASSUME \A i \in 2..(m + 1) : line[i] \in TextChar PROVE \A k \in 1..m : mid[k] \in TextChar
    <3>1. \A k \in 1..m : k + 1 \in 2..(m + 1)
      OBVIOUS
    <3> QED BY <1>8, <2>1, <3>1
  <2>2. ASSUME \A k \in 1..m : mid[k] \in TextChar PROVE \A i \in 2..(m + 1) : line[i] \in TextChar
    <3>1. \A i \in 2..(m + 1) : i - 1 \in 1..m /\ (i - 1) + 1 = i
      OBVIOUS
    <3> QED BY <1>8, <2>2, <3>1
  <2>3. ToSet(mid) \subseteq TextChar <=> \A k \in 1..m : mid[k] \in TextChar
    BY <1>1 DEF ToSet
  <2> QED BY <2>1, <2>2, <2>3
<1>10. IsEvent(line) <=> c = "open" /\ d \in {"close", "last"} /\ ToSet(mid) \subseteq TextChar
  <2>1. (m + 2) - 1 = m + 1 /\ m + 2 >= 2
    OBVIOUS
  <2> QED BY <1>5, <1>8, <1>9, <2>1 DEF IsEvent
<1>11. TextOf(line) = mid
  <2>1. TextOf(line) = SubSeq(line, 2, m + 1)
    BY <1>5 DEF TextOf
  <2>2. \A i \in 2..(m + 1) : line[i] \in Char
    <3>1. \A i \in 2..(m + 1) : i \in 1..Len(line)
      BY <1>5
    <3> QED BY <1>5, <3>1, ElementOfSeq
  <2>3. /\ SubSeq(line, 2, m + 1) \in Seq(Char)
        /\ Len(SubSeq(line, 2, m + 1)) = IF 2 <= m + 1 THEN (m + 1) - 2 + 1 ELSE 0
        /\ \A i \in 1 .. (m + 1) - 2 + 1 : SubSeq(line, 2, m + 1)[i] = line[2 + i - 1]
    BY <2>2, SubSeqProperties
  <2>4. PICK t \in Seq(Char) : t = SubSeq(line, 2, m + 1)
    BY <2>3
  <2>5. Len(t) = m /\ \A i \in 1..m : t[i] = mid[i]
    <3>1. \A i \in 1..m : t[i] = line[2 + i - 1] /\ 2 + i - 1 = i + 1
      BY <2>3, <2>4
    <3>2. \A i \in 1..m : t[i] = mid[i]
      BY <1>8, <3>1
    <3> QED BY <2>3, <2>4, <3>2
  <2>6. t = mid
    BY <1>1, <2>5, SeqEqual
  <2> QED BY <2>1, <2>4, <2>6
<1>12. Last(line) = d
  BY <1>5, <1>8 DEF Last
<1> QED BY <1>10, <1>11, <1>12 DEF IsEventOf

\* Every such line has them.
LEMMA FrameExists ==
  ASSUME NEW line \in Seq(Char), line # << >>
  PROVE  (\E c \in Char : line = <<c>>) \/ (\E c, d \in Char : \E mid \in Seq(Char) : Framed(line, c, mid, d))
<1>1. PICK s \in Seq(Char), d \in Char : line = Append(s, d)
  BY SequenceEmptyOrAppend
<1>2. line = s \o <<d>>
  BY <1>1, AppendIsConcat
<1>3. CASE s = << >>
  <2>1. line = <<d>>
    BY <1>1, <1>3
  <2> QED BY <2>1
<1>4. CASE s # << >>
  <2>1. Head(s) \in Char /\ Tail(s) \in Seq(Char)
    BY <1>4, HeadTailProperties
  <2>2. PICK c \in Char, mid \in Seq(Char) : c = Head(s) /\ mid = Tail(s)
    BY <2>1
  <2>3. s = <<c>> \o mid
    <3>1. << >> \in Seq(Char)
      BY EmptySeq
    <3>2. Append(<< >>, Head(s)) \o Tail(s) = << >> \o s
      BY <1>4, <3>1, MoveHead
    <3>3. << >> \o s = s /\ Append(<< >>, c) = <<c>>
      BY ConcatEmptySeq
    <3> QED BY <2>2, <3>2, <3>3
  <2>4. Framed(line, c, mid, d)
    BY <1>2, <2>3 DEF Framed
  <2> QED BY <2>4
<1> QED BY <1>3, <1>4

\* The characters of a widened text.
LEMMA WideElements ==
  ASSUME NEW s \in Seq(Char)
  PROVE  /\ ToSet(Wide(s)) \subseteq TextChar <=> ToSet(s) \subseteq TextChar
         /\ "nl" \in ToSet(Wide(s)) <=> "nl" \in ToSet(s)
<1>1. \A y : y \in ToSet(Wide(s)) <=> \E i \in DOMAIN s : y \in ToSet(Widened[s[i]])
  BY WidenedType, SpreadElements DEF Wide
<1>2. \A i \in DOMAIN s : s[i] \in Char
  BY LenProperties, ElementOfSeq
<1>3. ASSUME NEW c \in Char PROVE ToSet(Widened[c]) = {IF c = "u" THEN "r" ELSE c}
  BY <1>3 DEF Widened, ToSet
<1>4. \A y : y \in ToSet(Wide(s)) <=> \E i \in DOMAIN s : y = IF s[i] = "u" THEN "r" ELSE s[i]
  <2>1. ASSUME NEW i \in DOMAIN s PROVE ToSet(Widened[s[i]]) = {IF s[i] = "u" THEN "r" ELSE s[i]}
    BY <1>2, <1>3
  <2>2. ASSUME NEW y
        PROVE  (\E i \in DOMAIN s : y \in ToSet(Widened[s[i]]))
                 <=> \E i \in DOMAIN s : y = IF s[i] = "u" THEN "r" ELSE s[i]
    BY <2>1
  <2> QED BY <1>1, <2>2
<1>5. "u" \in TextChar /\ "r" \in TextChar /\ "u" # "nl" /\ "r" # "nl"
  BY DEF TextChar
<1> QED BY <1>4, <1>5 DEF ToSet

SameEvent(line) ==
  /\ IsEvent(Wide(line)) <=> IsEvent(line)
  /\ IsEvent(line) => TextOf(Wide(line)) = Wide(TextOf(line)) /\ Last(Wide(line)) = Last(line)

\* A line is an event when it is one with its replacements widened.
LEMMA WideEvent ==
  ASSUME NEW line \in Seq(Char)
  PROVE  SameEvent(line)
<1>1. CASE line = << >>
  <2>1. Len(<< >>) = 0
    OBVIOUS
  <2>2. ~ IsEvent(<< >>)
    BY <2>1 DEF IsEvent
  <2> QED BY <1>1, <2>2, WideOne DEF SameEvent
<1>2. ASSUME NEW c \in Char, line = <<c>> PROVE SameEvent(line)
  <2>1. Len(line) = 1
    BY <1>2
  <2>2. ~ IsEvent(line)
    BY <2>1 DEF IsEvent
  <2>3. Wide(line) = Widened[c]
    BY <1>2, WideOne
  <2>4. CASE c = "u"
    <3>1. Wide(line) = <<"r", "r">>
      BY <2>3, <2>4 DEF Widened
    <3>2. Wide(line)[1] = "r"
      BY <3>1
    <3>3. ~ IsEvent(Wide(line))
      BY <3>2 DEF IsEvent
    <3> QED BY <2>2, <3>3 DEF SameEvent
  <2>5. CASE c # "u"
    <3>1. Wide(line) = line
      BY <1>2, <2>3, <2>5 DEF Widened
    <3> QED BY <2>2, <3>1 DEF SameEvent
  <2> QED BY <2>4, <2>5
<1>3. ASSUME NEW c \in Char, NEW d \in Char, NEW mid \in Seq(Char), Framed(line, c, mid, d)
      PROVE  SameEvent(line)
  <2>1. IsEventOf(line, c, mid, d)
    BY <1>3, FramedEvent
  <2>2. PICK C \in Seq(Char) : C = Widened[c]
    BY WidenedType
  <2>3. PICK D \in Seq(Char) : D = Widened[d]
    BY WidenedType
  <2>4. PICK M \in Seq(Char) : M = Wide(mid)
    BY WideType
  <2>5. PICK y \in Seq(Char) : y = C \o M /\ Joins(y, C, M)
    BY ConcatJoins
  <2>6. PICK w \in Seq(Char) : w = y \o D /\ Joins(w, y, D)
    BY ConcatJoins
  <2>7. Wide(line) = w
    <3>1. <<c>> \in Seq(Char) /\ <<d>> \in Seq(Char)
      OBVIOUS
    <3>2. <<c>> \o mid \in Seq(Char)
      BY <3>1, ConcatProperties
    <3>3. Wide((<<c>> \o mid) \o <<d>>) = Wide(<<c>> \o mid) \o Wide(<<d>>)
      BY <3>1, <3>2, WideConcat
    <3>4. Wide(<<c>> \o mid) = Wide(<<c>>) \o Wide(mid)
      BY <3>1, WideConcat
    <3>5. Wide(<<c>>) = C /\ Wide(<<d>>) = D
      BY <2>2, <2>3, WideOne
    <3> QED BY <1>3, <2>4, <2>5, <2>6, <3>3, <3>4, <3>5 DEF Framed
  <2>8. PICK m \in Nat, n \in Nat : m = Len(y) /\ n = Len(M)
    BY LenProperties
  <2>9. CASE c = "u"
    <3>1. C = <<"r", "r">>
      BY <2>2, <2>9 DEF Widened
    <3>2. Len(C) = 2 /\ C[1] = "r" /\ 1 \in 1..2
      BY <3>1
    <3>3. y[1] = "r" /\ m = 2 + n
      BY <2>5, <2>8, <3>2 DEF Joins
    <3>4. 1 \in 1..m
      BY <3>3
    <3>5. w[1] = "r"
      BY <2>6, <2>8, <3>3, <3>4 DEF Joins
    <3>6. ~ IsEvent(w)
      BY <3>5 DEF IsEvent
    <3>7. ~ IsEvent(line)
      BY <2>1, <2>9 DEF IsEventOf
    <3> QED BY <2>7, <3>6, <3>7 DEF SameEvent
  <2>10. CASE d = "u"
    <3>1. D = <<"r", "r">>
      BY <2>3, <2>10 DEF Widened
    <3>2. Len(D) = 2 /\ D[2] = "r" /\ 2 \in 1..2
      BY <3>1
    <3>3. Len(w) = m + 2 /\ w[m + 2] = "r"
      BY <2>6, <2>8, <3>2 DEF Joins
    <3>4. ~ IsEvent(w)
      BY <3>3 DEF IsEvent
    <3>5. ~ IsEvent(line)
      BY <2>1, <2>10 DEF IsEventOf
    <3> QED BY <2>7, <3>4, <3>5 DEF SameEvent
  <2>11. CASE c # "u" /\ d # "u"
    <3>1. C = <<c>> /\ D = <<d>>
      BY <2>2, <2>3, <2>11 DEF Widened
    <3>2. Framed(w, c, M, d)
      BY <2>5, <2>6, <3>1 DEF Framed
    <3>3. IsEventOf(w, c, M, d)
      BY <3>2, FramedEvent
    <3>4. ToSet(M) \subseteq TextChar <=> ToSet(mid) \subseteq TextChar
      BY <2>4, WideElements
    <3> QED BY <2>1, <2>4, <2>7, <3>3, <3>4 DEF IsEventOf, SameEvent
  <2> QED BY <2>9, <2>10, <2>11
<1> QED BY <1>1, <1>2, <1>3, FrameExists

\* A text is empty when it is with its replacements widened.
LEMMA WideText ==
  ASSUME NEW text \in Seq(TextChar)
  PROVE  /\ text \in Seq(Char) /\ Wide(text) \in Seq(TextChar)
         /\ Wide(text) = << >> <=> text = << >>
<1>1. text \in Seq(Char)
  BY WidenedType, SeqMonotonic
<1>2. PICK w \in Seq(Char) : w = Wide(text)
  BY <1>1, WideType
<1>3. ToSet(text) \subseteq TextChar
  BY <1>1, SeqOver
<1>4. ToSet(w) \subseteq TextChar
  BY <1>1, <1>2, <1>3, WideElements
<1>5. w \in Seq(TextChar)
  BY <1>4, SeqOver
<1>6. CASE text = << >>
  BY <1>1, <1>2, <1>5, <1>6, WideOne
<1>7. CASE text # << >>
  <2>1. PICK s \in Seq(Char), c \in Char : text = Append(s, c)
    BY <1>1, <1>7, SequenceEmptyOrAppend
  <2>2. text = s \o <<c>> /\ <<c>> \in Seq(Char)
    BY <2>1, AppendIsConcat
  <2>3. PICK v \in Seq(Char), C \in Seq(Char) : v = Wide(s) /\ C = Widened[c] /\ w = v \o C
    <3>1. PICK v \in Seq(Char) : v = Wide(s)
      BY WideType
    <3>2. PICK C \in Seq(Char) : C = Widened[c]
      BY WidenedType
    <3>3. Wide(s \o <<c>>) = Wide(s) \o Wide(<<c>>)
      BY <2>2, WideConcat
    <3>4. Wide(<<c>>) = Widened[c]
      BY WideOne
    <3> QED BY <1>2, <2>2, <3>1, <3>2, <3>3, <3>4
  <2>4. Len(C) \in {1, 2}
    <3>1. C = <<"r", "r">> \/ C = <<c>>
      BY <2>3 DEF Widened
    <3>2. Len(<<"r", "r">>) = 2 /\ Len(<<c>>) = 1
      OBVIOUS
    <3> QED BY <3>1, <3>2
  <2>5. Len(w) = Len(v) + Len(C) /\ Len(v) \in Nat
    BY <2>3, ConcatProperties, LenProperties
  <2>6. w # << >>
    <3>1. PICK l \in Nat, k \in {1, 2} : l = Len(v) /\ k = Len(C) /\ Len(w) = l + k
      BY <2>4, <2>5
    <3>2. Len(w) # 0
      BY <3>1, SMTT(30)
    <3> QED BY <3>2
  <2> QED BY <1>1, <1>2, <1>5, <1>7, <2>6
<1> QED BY <1>6, <1>7

--------------------------------------------------------------------------------
(* Reading widened texts                                                   *)

\* One character, read alone.
LEMMA ReadOne ==
  ASSUME NEW who, NEW st \in Reading, NEW c \in Char
  PROVE  ReadOn(who, st, <<c>>) = ReadChar(who, st, c) /\ ReadOn(who, st, << >>) = st
<1>1. PICK x \in Seq(Char) : x = <<c>> /\ Len(x) = 1 /\ x[1] = c
  <2>1. <<c>> \in Seq(Char)
    OBVIOUS
  <2> QED BY <2>1
<1>2. PICK f : IsReading(who, f, st, x)
  BY ReadIsLast
<1>3. f[1] = ReadChar(who, f[1 - 1], c) /\ f[0] = st /\ ReadOn(who, st, x) = f[1]
  <2>1. 1 \in 1..1
    OBVIOUS
  <2> QED BY <1>1, <1>2, <2>1 DEF IsReading
<1>4. PICK e \in Seq(Char) : e = << >> /\ Len(e) = 0
  BY EmptySeq
<1>5. PICK g : IsReading(who, g, st, e)
  BY ReadIsLast
<1>6. ReadOn(who, st, e) = st
  BY <1>4, <1>5 DEF IsReading
<1> QED BY <1>1, <1>3, <1>4, <1>6

WideTexts(texts) == [i \in DOMAIN texts |-> Wide(texts[i])]
WideOf(st) == [line |-> Wide(st.line), texts |-> WideTexts(st.texts), stop |-> st.stop]

\* Texts widened.
LEMMA WideTextsType ==
  ASSUME NEW texts \in Seq(Seq(TextChar))
  PROVE  WideTexts(texts) \in Seq(Seq(TextChar)) /\ Len(WideTexts(texts)) = Len(texts)
<1>1. PICK n \in Nat : n = Len(texts) /\ DOMAIN texts = 1..n /\ \A i \in 1..n : texts[i] \in Seq(TextChar)
  BY LenProperties, ElementOfSeq
<1>2. PICK w : w = WideTexts(texts)
  OBVIOUS
<1>3. \A i \in 1..n : Wide(texts[i]) \in Seq(TextChar)
  BY <1>1, WideText
<1>4. w \in [1..n -> Seq(TextChar)]
  BY <1>1, <1>2, <1>3 DEF WideTexts
<1>5. w \in Seq(Seq(TextChar)) /\ Len(w) = n
  BY <1>4
<1> QED BY <1>1, <1>2, <1>5

\* With one more text.
LEMMA WideAppend ==
  ASSUME NEW texts \in Seq(Seq(TextChar)), NEW text \in Seq(TextChar)
  PROVE  WideTexts(Append(texts, text)) = Append(WideTexts(texts), Wide(text))
<1>1. PICK n \in Nat : n = Len(texts) /\ DOMAIN texts = 1..n
  BY LenProperties
<1>2. PICK T : T = Seq(TextChar)
  OBVIOUS
<1>3. texts \in Seq(T) /\ text \in T
  BY <1>2
<1>4. PICK more \in Seq(T) : /\ more = Append(texts, text) /\ Len(more) = n + 1
                             /\ \A i \in 1..n : more[i] = texts[i]
                             /\ more[n + 1] = text
  <2>1. /\ Append(texts, text) \in Seq(T) /\ Len(Append(texts, text)) = Len(texts) + 1
        /\ \A i \in 1..Len(texts) : Append(texts, text)[i] = texts[i]
        /\ Append(texts, text)[Len(texts) + 1] = text
    BY <1>3, AppendProperties
  <2>2. PICK more : more = Append(texts, text)
    OBVIOUS
  <2> QED BY <1>1, <2>1, <2>2
<1>5. PICK w \in Seq(T) : w = WideTexts(texts) /\ Len(w) = n /\ \A i \in 1..n : w[i] = Wide(texts[i])
  <2>1. WideTexts(texts) \in Seq(T) /\ Len(WideTexts(texts)) = n
    BY <1>1, <1>2, WideTextsType
  <2> QED BY <1>1, <2>1 DEF WideTexts
<1>6. PICK v \in T : v = Wide(text)
  BY <1>2, WideText
<1>7. PICK x \in Seq(T) : x = Append(w, v) /\ Len(x) = n + 1 /\ (\A i \in 1..n : x[i] = w[i]) /\ x[n + 1] = v
  <2>1. /\ Append(w, v) \in Seq(T) /\ Len(Append(w, v)) = Len(w) + 1
        /\ \A i \in 1..Len(w) : Append(w, v)[i] = w[i]
        /\ Append(w, v)[Len(w) + 1] = v
    BY AppendProperties
  <2>2. PICK x : x = Append(w, v)
    OBVIOUS
  <2> QED BY <1>5, <2>1, <2>2
<1>8. PICK y \in Seq(T) : y = WideTexts(more) /\ Len(y) = n + 1 /\ \A i \in 1..(n + 1) : y[i] = Wide(more[i])
  <2>1. WideTexts(more) \in Seq(T) /\ Len(WideTexts(more)) = Len(more)
    BY <1>2, <1>4, WideTextsType
  <2>2. DOMAIN more = 1..(n + 1)
    BY <1>4, LenProperties
  <2> QED BY <1>4, <2>1, <2>2 DEF WideTexts
<1>9. ASSUME NEW i \in 1..(n + 1) PROVE y[i] = x[i]
  <2>1. CASE i = n + 1
    BY <1>4, <1>6, <1>7, <1>8, <2>1
  <2>2. CASE i # n + 1
    <3>1. i \in 1..n
      BY <2>2
    <3> QED BY <1>4, <1>5, <1>7, <1>8, <3>1
  <2> QED BY <2>1, <2>2
<1>10. y = x
  BY <1>7, <1>8, <1>9, SeqEqual
<1> QED BY <1>4, <1>5, <1>6, <1>7, <1>8, <1>10

\* So is where the reading of a body is.
LEMMA WideOfType == ASSUME NEW st \in Reading PROVE WideOf(st) \in Reading
<1>1. st.line \in Seq(Char) /\ st.texts \in Seq(Seq(TextChar)) /\ st.stop \in BOOLEAN
  BY DEF Reading
<1> QED BY <1>1, WideType, WideTextsType DEF WideOf, Reading

\* An event of Ollama's is the event of the widened line.
LEMMA WideEventOf ==
  ASSUME NEW line \in Seq(Char)
  PROVE  /\ EventOf("ollama", Wide(line)).text = Wide(EventOf("ollama", line).text)
         /\ EventOf("ollama", Wide(line)).last = EventOf("ollama", line).last
<1>1. SameEvent(line)
  BY WideEvent
<1>2. \A l : EventOf("ollama", l) = OllamaObject(l)
  BY DEF EventOf
<1>3. CASE IsEvent(line)
  <2>1. /\ OllamaObject(line) = [text |-> TextOf(line), last |-> Last(line) = "last"]
        /\ OllamaObject(Wide(line)) = [text |-> TextOf(Wide(line)), last |-> Last(Wide(line)) = "last"]
    BY <1>1, <1>3 DEF OllamaObject, SameEvent
  <2> QED BY <1>1, <1>2, <1>3, <2>1 DEF SameEvent
<1>4. CASE ~ IsEvent(line)
  <2>1. OllamaObject(line) = Nothing /\ OllamaObject(Wide(line)) = Nothing
    BY <1>1, <1>4 DEF OllamaObject, SameEvent
  <2>2. Nothing.text = << >>
    BY DEF Nothing
  <2> QED BY <1>2, <2>1, <2>2, WideOne
<1> QED BY <1>3, <1>4

\* A reading that has stopped stays where it is.
LEMMA Stopped ==
  ASSUME NEW who, NEW st \in Reading, st.stop, NEW chars \in Seq(Char)
  PROVE  ReadOn(who, st, chars) = st
<1>1. PICK n \in Nat : n = Len(chars)
  BY LenProperties
<1>2. PICK f : IsReading(who, f, st, chars)
  BY ReadIsLast
<1>3. /\ f[0] = st /\ ReadOn(who, st, chars) = f[n]
      /\ \A k \in 1..n : f[k] = ReadChar(who, f[k - 1], chars[k])
  BY <1>1, <1>2 DEF IsReading
<1> DEFINE Odd == {k \in Nat : k <= n /\ f[k] # st}
<1>4. CASE Odd # {}
  <2>1. PICK k \in Odd : \A l \in Odd : k <= l
    BY <1>4, Least, Zenon
  <2>2. k \in Nat /\ k <= n /\ f[k] # st /\ k # 0
    BY <1>3, <2>1
  <2>3. k - 1 \in Nat /\ k - 1 <= n /\ ~ (k <= k - 1) /\ k \in 1..n
    BY <2>2
  <2>4. f[k - 1] = st
    BY <2>1, <2>3
  <2>5. f[k] = st
    BY <1>3, <2>3, <2>4 DEF ReadChar
  <2> QED BY <2>2, <2>5
<1>5. CASE Odd = {}
  <2>1. n <= n
    OBVIOUS
  <2> QED BY <1>3, <1>5, <2>1
<1> QED BY <1>4, <1>5

\* Widening commutes with reading a character ...
LEMMA WideReadChar ==
  ASSUME NEW st \in Reading, NEW c \in Char
  PROVE  ReadOn("ollama", WideOf(st), Widened[c]) = WideOf(ReadChar("ollama", st, c))
<1>1. PICK w \in Reading : w = WideOf(st)
  BY WideOfType
<1>2. PICK line \in Seq(Char), texts \in Seq(Seq(TextChar)), b \in BOOLEAN :
        line = st.line /\ texts = st.texts /\ b = st.stop
  BY DEF Reading
<1>3. w = [line |-> Wide(line), texts |-> WideTexts(texts), stop |-> b]
  BY <1>1, <1>2 DEF WideOf
<1>4. Widened[c] \in Seq(Char)
  BY WidenedType
<1>5. CASE b
  <2>1. ReadOn("ollama", w, Widened[c]) = w
    BY <1>3, <1>4, <1>5, Stopped
  <2>2. ReadChar("ollama", st, c) = st
    BY <1>2, <1>5 DEF ReadChar
  <2> QED BY <1>1, <2>1, <2>2
<1>6. CASE ~ b /\ c = "u"
  <2>1. PICK R \in Seq(Char) : R = <<"r">>
    <3>1. <<"r">> \in Seq(Char)
      BY WidenedType
    <3> QED BY <3>1
  <2>2. Widened[c] = R \o R
    <3>1. <<"r">> \in Seq(Char) /\ <<"r", "r">> = <<"r">> \o <<"r">>
      BY WidenedType
    <3> QED BY <1>6, <2>1, <3>1, WidenedType DEF Widened
  <2>3. ReadOn("ollama", w, R \o R) = ReadOn("ollama", ReadOn("ollama", w, R), R)
    BY ReadConcat
  <2>4. PICK l \in Seq(Char) : l = Wide(line)
    BY WideType
  <2>5. PICK v \in Reading : v = [line |-> Append(l, "r"), texts |-> WideTexts(texts), stop |-> FALSE]
    <3>1. Append(l, "r") \in Seq(Char) /\ WideTexts(texts) \in Seq(Seq(TextChar))
      BY WidenedType, AppendProperties, WideTextsType
    <3> QED BY <3>1 DEF Reading
  <2>6. ReadOn("ollama", w, R) = v
    <3>1. ReadOn("ollama", w, R) = ReadChar("ollama", w, "r")
      BY <2>1, WidenedType, ReadOne
    <3> QED BY <1>3, <1>6, <2>4, <2>5, <3>1 DEF ReadChar
  <2>7. ReadOn("ollama", v, R) = [line |-> Append(Append(l, "r"), "r"), texts |-> WideTexts(texts), stop |-> FALSE]
    <3>1. ReadOn("ollama", v, R) = ReadChar("ollama", v, "r")
      BY <2>1, WidenedType, ReadOne
    <3> QED BY <2>5, <3>1 DEF ReadChar
  <2>8. ReadChar("ollama", st, c) = [line |-> Append(line, "u"), texts |-> texts, stop |-> FALSE]
    BY <1>2, <1>6 DEF ReadChar, Reading
  <2>9. Wide(Append(line, "u")) = Append(Append(l, "r"), "r")
    <3>1. Append(line, "u") = line \o <<"u">> /\ <<"u">> \in Seq(Char)
      BY WidenedType, AppendIsConcat
    <3>2. Wide(line \o <<"u">>) = l \o Wide(<<"u">>)
      BY <2>4, <3>1, WideConcat
    <3>3. Wide(<<"u">>) = R \o R
      BY <1>6, <2>2, WideOne
    <3>4. l \o (R \o R) = (l \o R) \o R
      <4>1. Associates(Char)
        BY Reassociated
      <4> QED BY <4>1 DEF Associates
    <3>5. PICK lr \in Seq(Char) : lr = Append(l, "r") /\ lr = l \o R
      BY <2>1, WidenedType, AppendProperties, AppendIsConcat
    <3>6. Append(lr, "r") = lr \o R
      BY <2>1, WidenedType, AppendIsConcat
    <3> QED BY <3>1, <3>2, <3>3, <3>4, <3>5, <3>6
  <2>10. WideOf(ReadChar("ollama", st, c))
           = [line |-> Wide(Append(line, "u")), texts |-> WideTexts(texts), stop |-> FALSE]
    <3>1. PICK q : q = ReadChar("ollama", st, c)
      OBVIOUS
    <3>2. q.line = Append(line, "u") /\ q.texts = texts /\ q.stop = FALSE
      BY <2>8, <3>1
    <3> QED BY <3>1, <3>2 DEF WideOf
  <2> QED BY <1>1, <2>2, <2>3, <2>6, <2>7, <2>9, <2>10
<1>7. CASE ~ b /\ c # "u"
  <2>1. Widened[c] = <<c>>
    BY <1>7 DEF Widened
  <2>2. ReadOn("ollama", w, <<c>>) = ReadChar("ollama", w, c)
    BY ReadOne
  <2>3. CASE c = "nl"
    <3>1. PICK text \in Seq(TextChar), last \in BOOLEAN :
            text = EventOf("ollama", line).text /\ last = EventOf("ollama", line).last
      BY EventType
    <3>2. EventOf("ollama", Wide(line)).text = Wide(text) /\ EventOf("ollama", Wide(line)).last = last
      BY <3>1, WideEventOf
    <3>3. ReadChar("ollama", w, c)
            = [line |-> << >>, stop |-> last,
               texts |-> IF Wide(text) = << >> THEN WideTexts(texts) ELSE Append(WideTexts(texts), Wide(text))]
      BY <1>3, <1>7, <2>3, <3>2 DEF ReadChar
    <3>4. ReadChar("ollama", st, c)
            = [line |-> << >>, stop |-> last, texts |-> IF text = << >> THEN texts ELSE Append(texts, text)]
      BY <1>2, <1>7, <2>3, <3>1 DEF ReadChar
    <3>5. Wide(text) = << >> <=> text = << >>
      BY WideText
    <3>6. WideTexts(Append(texts, text)) = Append(WideTexts(texts), Wide(text))
      BY WideAppend
    <3>7. WideOf(ReadChar("ollama", st, c))
            = [line |-> Wide(<< >>), stop |-> last,
               texts |-> WideTexts(IF text = << >> THEN texts ELSE Append(texts, text))]
      <4>1. PICK all : all = IF text = << >> THEN texts ELSE Append(texts, text)
        OBVIOUS
      <4>2. PICK q : q = ReadChar("ollama", st, c)
        OBVIOUS
      <4>3. q = [line |-> << >>, stop |-> last, texts |-> all]
        BY <3>4, <4>1, <4>2
      <4>4. q.line = << >> /\ q.texts = all /\ q.stop = last
        BY <4>3
      <4> QED BY <4>1, <4>2, <4>4 DEF WideOf
    <3> QED BY <1>1, <2>1, <2>2, <3>3, <3>5, <3>6, <3>7, WideOne
  <2>4. CASE c # "nl"
    <3>1. ReadChar("ollama", w, c) = [line |-> Append(Wide(line), c), texts |-> WideTexts(texts), stop |-> FALSE]
      BY <1>3, <1>7, <2>4 DEF ReadChar
    <3>2. ReadChar("ollama", st, c) = [line |-> Append(line, c), texts |-> texts, stop |-> FALSE]
      BY <1>2, <1>7, <2>4 DEF ReadChar, Reading
    <3>3. Wide(Append(line, c)) = Append(Wide(line), c)
      <4>1. Append(line, c) = line \o <<c>> /\ <<c>> \in Seq(Char)
        BY AppendIsConcat
      <4>2. Wide(line \o <<c>>) = Wide(line) \o Wide(<<c>>)
        BY <4>1, WideConcat
      <4>3. Wide(<<c>>) = <<c>>
        BY <2>1, WideOne
      <4>4. Append(Wide(line), c) = Wide(line) \o <<c>>
        BY WideType, AppendIsConcat
      <4> QED BY <4>1, <4>2, <4>3, <4>4
    <3>4. WideOf(ReadChar("ollama", st, c))
            = [line |-> Wide(Append(line, c)), texts |-> WideTexts(texts), stop |-> FALSE]
      <4>1. PICK q : q = ReadChar("ollama", st, c)
        OBVIOUS
      <4>2. q.line = Append(line, c) /\ q.texts = texts /\ q.stop = FALSE
        BY <3>2, <4>1
      <4> QED BY <4>1, <4>2 DEF WideOf
    <3> QED BY <1>1, <2>1, <2>2, <3>1, <3>3, <3>4
  <2> QED BY <2>3, <2>4
<1> QED BY <1>5, <1>6, <1>7

\* ... and with reading many.
LEMMA WideRead ==
  ASSUME NEW st \in Reading, NEW chars \in Seq(Char)
  PROVE  ReadOn("ollama", WideOf(st), Wide(chars)) = WideOf(ReadOn("ollama", st, chars))
<1>1. PICK n \in Nat : n = Len(chars) /\ \A k \in 1..n : chars[k] \in Char
  BY LenProperties, ElementOfSeq
<1>2. PICK f : IsReading("ollama", f, st, chars)
  BY ReadIsLast
<1>3. /\ f \in [0..n -> Reading] /\ f[0] = st /\ ReadOn("ollama", st, chars) = f[n]
      /\ \A k \in 1..n : f[k] = ReadChar("ollama", f[k - 1], chars[k])
  BY <1>1, <1>2 DEF IsReading
<1>4. PICK e : IsSpreading(e, Widened, chars, Char)
  BY WidenedType, SpreadTable
<1>5. /\ e \in [0..n -> Seq(Char)] /\ e[0] = << >> /\ e[n] = Wide(chars)
      /\ \A k \in 1..n : e[k] = e[k - 1] \o Widened[chars[k]]
  BY <1>1, <1>4 DEF IsSpreading, Wide
<1>6. PICK w \in Reading : w = WideOf(st)
  BY WideOfType
<1> DEFINE Odd == {k \in Nat : k <= n /\ ReadOn("ollama", w, e[k]) # WideOf(f[k])}
<1>7. CASE Odd # {}
  <2>1. PICK k \in Odd : \A l \in Odd : k <= l
    BY <1>7, Least, Zenon
  <2>2. ReadOn("ollama", w, << >>) = w
    BY WidenedType, ReadOne
  <2>3. k \in Nat /\ k <= n /\ ReadOn("ollama", w, e[k]) # WideOf(f[k]) /\ k # 0
    BY <1>3, <1>5, <1>6, <2>1, <2>2
  <2>4. k - 1 \in Nat /\ k - 1 <= n /\ ~ (k <= k - 1) /\ k \in 1..n /\ k - 1 \in 0..n
    BY <2>3
  <2>5. ReadOn("ollama", w, e[k - 1]) = WideOf(f[k - 1])
    BY <2>1, <2>4
  <2>6. PICK c \in Char, s \in Reading, x \in Seq(Char) : c = chars[k] /\ s = f[k - 1] /\ x = e[k - 1]
    BY <1>1, <1>3, <1>5, <2>4
  <2>7. PICK C \in Seq(Char) : C = Widened[c]
    BY WidenedType
  <2>8. ReadOn("ollama", w, x \o C) = ReadOn("ollama", ReadOn("ollama", w, x), C)
    BY ReadConcat
  <2>9. ReadOn("ollama", WideOf(s), C) = WideOf(ReadChar("ollama", s, c))
    BY <2>7, WideReadChar
  <2>10. e[k] = x \o C /\ f[k] = ReadChar("ollama", s, c)
    BY <1>3, <1>5, <2>4, <2>6, <2>7
  <2> QED BY <2>3, <2>5, <2>6, <2>8, <2>9, <2>10
<1>8. CASE Odd = {}
  <2>1. n <= n
    OBVIOUS
  <2> QED BY <1>3, <1>5, <1>6, <1>8, <2>1
<1> QED BY <1>7, <1>8

--------------------------------------------------------------------------------
(* Lines and what they add                                                 *)

At(line, texts, b) == [line |-> line, texts |-> texts, stop |-> b]

\* A character in a line.
LEMMA ReadCharLine ==
  ASSUME NEW who, NEW st \in Reading, NEW c \in Char, ~ st.stop, c # "nl"
  PROVE  ReadChar(who, st, c) = At(Append(st.line, c), st.texts, FALSE)
<1>1. PICK line \in Seq(Char), texts \in Seq(Seq(TextChar)), b \in BOOLEAN :
        line = st.line /\ texts = st.texts /\ b = st.stop
  BY DEF Reading
<1>2. ReadChar(who, st, c) = [line |-> Append(line, c), texts |-> texts, stop |-> FALSE]
  BY <1>1 DEF ReadChar, Reading
<1> QED BY <1>1, <1>2 DEF At

\* Up to the end of a line nothing but the line changes ...
LEMMA LineRead ==
  ASSUME NEW who, NEW texts \in Seq(Seq(TextChar)), NEW line \in Seq(Char), "nl" \notin ToSet(line)
  PROVE  ReadOn(who, At(<< >>, texts, FALSE), line) = At(line, texts, FALSE)
<1>1. PICK n \in Nat : n = Len(line) /\ DOMAIN line = 1..n /\ \A k \in 1..n : line[k] \in Char
  BY LenProperties, ElementOfSeq
<1>2. \A k \in 1..n : line[k] # "nl"
  BY <1>1 DEF ToSet
<1>3. PICK st \in Reading : st = At(<< >>, texts, FALSE)
  <2>1. << >> \in Seq(Char)
    BY EmptySeq
  <2> QED BY <2>1 DEF At, Reading
<1>4. PICK f : IsReading(who, f, st, line)
  BY ReadIsLast
<1>5. /\ f[0] = st /\ ReadOn(who, st, line) = f[n] /\ f \in [0..n -> Reading]
      /\ \A k \in 1..n : f[k] = ReadChar(who, f[k - 1], line[k])
  BY <1>1, <1>4 DEF IsReading
<1> DEFINE Upto(k) == SubSeq(line, 1, k)
           Odd == {k \in Nat : k <= n /\ f[k] # At(Upto(k), texts, FALSE)}
<1>6. Upto(0) = << >> /\ Upto(n) = line
  <2>1. 1 \in Int /\ 0 \in Int /\ 0 < 1
    OBVIOUS
  <2>2. SubSeq(line, 1, 0) = << >>
    BY <2>1, SubSeqEmpty
  <2>3. SubSeq(line, 1, Len(line)) = line
    BY SubSeqFull
  <2> QED BY <1>1, <2>2, <2>3
<1>7. ASSUME NEW k \in 1..n PROVE Upto(k) = Append(Upto(k - 1), line[k])
  <2>1. 1 \in 1..Len(line) /\ k \in 1..Len(line)
    BY <1>1
  <2>2. SubSeq(line, 1, k) = SubSeq(line, 1, k - 1) \o <<line[k]>>
    BY <2>1, SubSeqRecursiveSecond
  <2>3. \A i \in 1..(k - 1) : line[i] \in Char
    BY <1>1
  <2>4. k - 1 \in Int /\ 1 \in Int
    OBVIOUS
  <2>5. SubSeq(line, 1, k - 1) \in Seq(Char) /\ line[k] \in Char
    BY <1>1, <2>3, <2>4, SubSeqProperties
  <2>6. Append(SubSeq(line, 1, k - 1), line[k]) = SubSeq(line, 1, k - 1) \o <<line[k]>>
    BY <2>5, AppendIsConcat
  <2> QED BY <2>2, <2>6
<1> HIDE DEF Upto
<1>8. CASE Odd # {}
  <2>1. PICK k \in Odd : \A l \in Odd : k <= l
    BY <1>8, Least, Zenon
  <2>2. k \in Nat /\ k <= n /\ f[k] # At(Upto(k), texts, FALSE) /\ k # 0
    BY <1>3, <1>5, <1>6, <2>1
  <2>3. k - 1 \in Nat /\ k - 1 <= n /\ ~ (k <= k - 1) /\ k \in 1..n
    BY <2>2
  <2>4. f[k - 1] = At(Upto(k - 1), texts, FALSE)
    BY <2>1, <2>3
  <2>5. PICK s, c : s = f[k - 1] /\ c = line[k]
    OBVIOUS
  <2>6. s.stop = FALSE /\ s.line = Upto(k - 1) /\ c # "nl"
    BY <1>2, <2>3, <2>4, <2>5 DEF At
  <2>7. s \in Reading
    <3>1. k - 1 \in 0..n
      BY <2>3
    <3> QED BY <1>5, <2>5, <3>1
  <2>8. s.texts = texts /\ c \in Char
    BY <1>1, <2>3, <2>4, <2>5 DEF At
  <2>9. ReadChar(who, s, c) = At(Append(Upto(k - 1), c), texts, FALSE)
    BY <2>6, <2>7, <2>8, ReadCharLine
  <2> QED BY <1>5, <1>7, <2>2, <2>3, <2>5, <2>9
<1>9. CASE Odd = {}
  <2>1. n <= n
    OBVIOUS
  <2> QED BY <1>3, <1>5, <1>6, <1>9, <2>1
<1> QED BY <1>8, <1>9

\* ... whose text its end then tells.
LEMMA LineEnded ==
  ASSUME NEW who, NEW texts \in Seq(Seq(TextChar)), NEW line \in Seq(Char), "nl" \notin ToSet(line)
  PROVE  ReadOn(who, At(<< >>, texts, FALSE), line \o <<"nl">>)
           = At(<< >>, IF EventOf(who, line).text = << >> THEN texts ELSE Append(texts, EventOf(who, line).text),
                EventOf(who, line).last)
<1>1. PICK st \in Reading : st = At(<< >>, texts, FALSE)
  <2>1. << >> \in Seq(Char)
    BY EmptySeq
  <2> QED BY <2>1 DEF At, Reading
<1>2. PICK nd \in Reading : nd = At(line, texts, FALSE)
  BY DEF At, Reading
<1>3. "nl" \in Char /\ <<"nl">> \in Seq(Char)
  BY DEF Char
<1>4. ReadOn(who, st, line \o <<"nl">>) = ReadOn(who, ReadOn(who, st, line), <<"nl">>)
  BY <1>3, ReadConcat
<1>5. ReadOn(who, st, line) = nd
  BY <1>1, <1>2, LineRead
<1>6. ReadOn(who, nd, <<"nl">>) = ReadChar(who, nd, "nl")
  BY <1>3, ReadOne
<1>7. nd.line = line /\ nd.texts = texts /\ nd.stop = FALSE
  BY <1>2 DEF At
<1>8. ReadChar(who, nd, "nl")
        = At(<< >>, IF EventOf(who, line).text = << >> THEN texts ELSE Append(texts, EventOf(who, line).text),
             EventOf(who, line).last)
  BY <1>7 DEF ReadChar, At
<1> QED BY <1>1, <1>4, <1>5, <1>6, <1>8

Continues(t, s) == \E more \in Seq(Seq(TextChar)) : t = s \o more

\* What has been told stays told.
LEMMA ReadGrows ==
  ASSUME NEW who, NEW st \in Reading, NEW chars \in Seq(Char)
  PROVE  Continues(ReadOn(who, st, chars).texts, st.texts)
<1>0. PICK T : T = Seq(TextChar)
  OBVIOUS
<1>1. PICK n \in Nat : n = Len(chars) /\ \A k \in 1..n : chars[k] \in Char
  BY LenProperties, ElementOfSeq
<1>2. PICK f : IsReading(who, f, st, chars)
  BY ReadIsLast
<1>3. /\ f \in [0..n -> Reading] /\ f[0] = st /\ ReadOn(who, st, chars) = f[n]
      /\ \A k \in 1..n : f[k] = ReadChar(who, f[k - 1], chars[k])
  BY <1>1, <1>2 DEF IsReading
<1>4. PICK texts \in Seq(T) : texts = st.texts
  BY <1>0 DEF Reading
<1> DEFINE Odd == {k \in Nat : k <= n /\ ~ \E more \in Seq(T) : f[k].texts = texts \o more}
<1>5. CASE Odd # {}
  <2>1. PICK k \in Odd : \A l \in Odd : k <= l
    BY <1>5, Least, Zenon
  <2>2. << >> \in Seq(T) /\ texts = texts \o << >>
    BY EmptySeq, ConcatEmptySeq
  <2>3. k \in Nat /\ k <= n /\ ~ (\E more \in Seq(T) : f[k].texts = texts \o more) /\ k # 0
    BY <1>3, <1>4, <2>1, <2>2
  <2>4. k - 1 \in Nat /\ k - 1 <= n /\ ~ (k <= k - 1) /\ k \in 1..n /\ k - 1 \in 0..n
    BY <2>3
  <2>5. PICK more \in Seq(T) : f[k - 1].texts = texts \o more
    BY <2>1, <2>4
  <2>6. PICK s \in Reading, c \in Char : s = f[k - 1] /\ c = chars[k] /\ f[k] = ReadChar(who, s, c)
    BY <1>1, <1>3, <2>4
  <2>7. PICK text \in T : text = EventOf(who, s.line).text
    <3>1. s.line \in Seq(Char)
      BY DEF Reading
    <3> QED BY <1>0, <3>1, EventType
  <2>8. ReadChar(who, s, c).texts \in {s.texts, Append(s.texts, text)}
    BY <2>7 DEF ReadChar
  <2>9. s.texts \in Seq(T)
    BY <1>0 DEF Reading
  <2>10. PICK now \in Seq(T) : now = s.texts /\ now = texts \o more
    BY <2>5, <2>6, <2>9
  <2>11. PICK one \in Seq(T) : one = <<text>>
    <3>1. <<text>> \in Seq(T)
      BY <2>7
    <3> QED BY <3>1
  <2>12. Append(now, text) = now \o one
    BY <2>11, AppendIsConcat
  <2>13. Associates(T)
    BY Reassociated
  <2>14. (texts \o more) \o one = texts \o (more \o one)
    BY <2>13, SMTT(30) DEF Associates
  <2>15. more \o one \in Seq(T)
    BY ConcatProperties
  <2> QED BY <2>3, <2>6, <2>8, <2>10, <2>12, <2>14, <2>15
<1>6. CASE Odd = {}
  <2>1. n <= n
    OBVIOUS
  <2>2. PICK more \in Seq(T) : f[n].texts = texts \o more
    BY <1>6, <2>1
  <2>3. ReadOn(who, st, chars).texts = st.texts \o more
    BY <1>3, <1>4, <2>2
  <2> QED BY <1>0, <2>3 DEF Continues
<1> QED BY <1>5, <1>6

--------------------------------------------------------------------------------
(* Letters                                                                 *)

Lettered == [c \in Char |-> IF c \in {"a", "b"} THEN <<c>> ELSE << >>]

\* The letters of a text.
LEMMA LetteredType == Lettered \in [Char -> Seq(Char)]
<1>1. \A c \in Char : <<c>> \in Seq(Char) /\ << >> \in Seq(Char)
  OBVIOUS
<1> QED BY <1>1 DEF Lettered

\* They are spread over it like the replacements.
LEMMA LettersSpread ==
  ASSUME NEW text \in Seq(Char)
  PROVE  LettersOf(text) = Spread(Lettered, text)
<1>1. \A i \in DOMAIN text : text[i] \in Char
  BY LenProperties, ElementOfSeq
<1>2. \A i \in DOMAIN text : Lettered[text[i]] = IF text[i] \in {"a", "b"} THEN <<text[i]>> ELSE << >>
  BY <1>1 DEF Lettered
<1>3. PiecesBy(Lettered, text) = [i \in DOMAIN text |-> IF text[i] \in {"a", "b"} THEN <<text[i]>> ELSE << >>]
  BY <1>2 DEF PiecesBy
<1> QED BY <1>3 DEF LettersOf, Spread

\* Widening leaves the letters alone.
LEMMA WideLetters ==
  ASSUME NEW text \in Seq(Char)
  PROVE  LettersOf(Wide(text)) = LettersOf(text) /\ LettersOf(text) \in Seq(Char)
<1>1. ASSUME NEW c \in Char PROVE Lettered[c] = Spread(Lettered, Widened[c])
  <2>1. CASE c = "u"
    <3>1. PICK R \in Seq(Char) : R = <<"r">>
      <4>1. <<"r">> \in Seq(Char)
        BY WidenedType
      <4> QED BY <4>1
    <3>2. Widened[c] = R \o R
      <4>1. <<"r">> \in Seq(Char) /\ <<"r", "r">> = <<"r">> \o <<"r">>
        BY WidenedType
      <4> QED BY <2>1, <3>1, <4>1, WidenedType DEF Widened
    <3>3. Spread(Lettered, R \o R) = Spread(Lettered, R) \o Spread(Lettered, R)
      <4>1. Distributes(Lettered, Char)
        BY LetteredType, SpreadConcat
      <4> QED BY <4>1 DEF Distributes
    <3>4. Spread(Lettered, R) = << >>
      <4>1. Spread(Lettered, <<"r">>) = Lettered["r"]
        BY LetteredType, WidenedType, SpreadOne
      <4> QED BY <3>1, <4>1, WidenedType DEF Lettered
    <3>5. << >> \in Seq(Char) /\ << >> \o << >> = << >>
      BY EmptySeq, ConcatEmptySeq
    <3>6. Lettered[c] = << >>
      BY <2>1 DEF Lettered
    <3> QED BY <3>2, <3>3, <3>4, <3>5, <3>6
  <2>2. CASE c # "u"
    <3>1. Widened[c] = <<c>>
      BY <2>2 DEF Widened
    <3> QED BY <3>1, LetteredType, SpreadOne
  <2> QED BY <2>1, <2>2
<1>2. Spread(Lettered, Spread(Widened, text)) = Spread(Lettered, text)
  <2>1. Composed(Lettered, Widened, Lettered, Char, Char, Char)
    BY <1>1, LetteredType, WidenedType DEF Composed
  <2> QED BY <2>1, SpreadTwice
<1>3. Wide(text) \in Seq(Char)
  BY WideType
<1>4. Spread(Lettered, text) \in Seq(Char)
  BY LetteredType, SpreadType
<1> QED BY <1>2, <1>3, <1>4, LettersSpread DEF Wide

\* What texts widened have in common with others, they have by their letters.
LEMMA LettersFollow ==
  ASSUME NEW s \in Seq(Seq(TextChar)), NEW t \in Seq(Seq(TextChar))
  PROVE  /\ WideTexts(s) = WideTexts(t) => Letters(s) = Letters(t)
         /\ Continues(WideTexts(t), WideTexts(s)) => IsPrefix(Letters(s), Letters(t))
<1>0. PICK T : T = Seq(Char)
  OBVIOUS
<1>1. ASSUME NEW x \in Seq(Seq(TextChar))
      PROVE  /\ WideTexts(x) \in Seq(Seq(TextChar)) /\ Len(WideTexts(x)) = Len(x)
             /\ Letters(x) \in Seq(T) /\ Len(Letters(x)) = Len(x)
             /\ \A i \in 1..Len(x) : Letters(x)[i] = LettersOf(WideTexts(x)[i])
  <2>1. PICK n \in Nat : n = Len(x) /\ DOMAIN x = 1..n /\ \A i \in 1..n : x[i] \in Seq(TextChar)
    BY LenProperties, ElementOfSeq
  <2>2. \A i \in 1..n : x[i] \in Seq(Char)
    BY <2>1, WideText
  <2>3. \A i \in 1..n : LettersOf(Wide(x[i])) = LettersOf(x[i]) /\ LettersOf(x[i]) \in T
    BY <1>0, <2>2, WideLetters
  <2>4. PICK l : l = Letters(x)
    OBVIOUS
  <2>5. l \in [1..n -> T] /\ \A i \in 1..n : l[i] = LettersOf(x[i])
    BY <2>1, <2>3, <2>4 DEF Letters
  <2>6. l \in Seq(T) /\ Len(l) = n
    BY <2>5
  <2>7. \A i \in 1..n : WideTexts(x)[i] = Wide(x[i])
    BY <2>1 DEF WideTexts
  <2>8. WideTexts(x) \in Seq(Seq(TextChar)) /\ Len(WideTexts(x)) = Len(x)
    BY WideTextsType
  <2> QED BY <2>1, <2>3, <2>4, <2>5, <2>6, <2>7, <2>8
<1>2. PICK p \in Seq(T), m \in Nat : p = Letters(s) /\ Len(p) = m /\ m = Len(s)
  BY <1>1, LenProperties
<1>3. PICK q \in Seq(T), n \in Nat : q = Letters(t) /\ Len(q) = n /\ n = Len(t)
  BY <1>1, LenProperties
<1>4. PICK v \in Seq(Seq(TextChar)) : v = WideTexts(s) /\ Len(v) = m /\ \A i \in 1..m : p[i] = LettersOf(v[i])
  BY <1>1, <1>2
<1>5. PICK w \in Seq(Seq(TextChar)) : w = WideTexts(t) /\ Len(w) = n /\ \A i \in 1..n : q[i] = LettersOf(w[i])
  BY <1>1, <1>3
<1>6. ASSUME v = w PROVE p = q
  <2>1. m = n
    BY <1>4, <1>5, <1>6
  <2>2. \A i \in 1..m : p[i] = q[i]
    BY <1>4, <1>5, <1>6, <2>1
  <2> QED BY <1>2, <1>3, <2>1, <2>2, SeqEqual
<1>7. ASSUME Continues(w, v) PROVE IsPrefix(p, q)
  <2>1. PICK U : U = Seq(TextChar)
    OBVIOUS
  <2>2. PICK more \in Seq(U) : w = v \o more
    BY <1>7, <2>1 DEF Continues
  <2>3. v \in Seq(U)
    BY <2>1
  <2>4. Joins(w, v, more)
    BY <2>2, <2>3, ConcatJoins
  <2>5. Len(more) \in Nat
    BY LenProperties
  <2>6. m <= n /\ \A i \in 1..m : w[i] = v[i]
    BY <1>4, <1>5, <2>4, <2>5 DEF Joins
  <2>7. ASSUME NEW i \in 1..m PROVE q[i] = p[i]
    <3>1. i \in 1..n
      BY <2>6
    <3> QED BY <1>4, <1>5, <2>6, <3>1
  <2> QED BY <1>2, <1>3, <2>6, <2>7, PrefixPlaces
<1> QED BY <1>2, <1>3, <1>4, <1>5, <1>6, <1>7

--------------------------------------------------------------------------------
(* Types                                                                   *)

Texts == Seq(TextChar)

Start == At(<< >>, << >>, FALSE)

\* What a body serves is what is read in all of it from the start.
LEMMA ServedType ==
  ASSUME NEW who, NEW bytes \in Seq(Byte)
  PROVE  /\ Start \in Reading /\ Lossy(bytes) \in Seq(Char)
         /\ Served(who, bytes) = ReadOn(who, Start, Lossy(bytes)).texts
         /\ Served(who, bytes) \in Seq(Texts)
<1>1. Start \in Reading
  <2>1. << >> \in Seq(Char) /\ << >> \in Seq(Seq(TextChar))
    BY EmptySeq
  <2> QED BY <2>1 DEF Start, At, Reading
<1>2. Lossy(bytes) \in Seq(Char)
  BY LossyType
<1>3. Served(who, bytes) = ReadOn(who, Start, Lossy(bytes)).texts
  BY DEF Served, ReadOn, Start, At
<1>4. ReadOn(who, Start, Lossy(bytes)) \in Reading
  <2>1. << >> \in Seq(Char)
    BY EmptySeq
  <2> QED BY <1>1, <1>2, <2>1, ReadConcat
<1>5. ReadOn(who, Start, Lossy(bytes)).texts \in Seq(Texts)
  BY <1>4 DEF Reading, Texts
<1> QED BY <1>1, <1>2, <1>3, <1>5

\* A body is one of bytes.
LEMMA BodyType == ASSUME NEW b \in Backends, NEW x \in Bodies[b] PROVE x \in Seq(Byte)
BY ConstantsAssumption

\* The types of the initial states.
LEMMA TypeInit == Init => TypeOK
<1> SUFFICES ASSUME Init PROVE TypeOK
  OBVIOUS
<1>1. body \in Seq(Byte)
  BY BodyType DEF Init
<1>2. served \in Seq(Texts)
  BY <1>1, ServedType DEF Init
<1>3. << >> \in Seq(Char) /\ << >> \in Seq(TextChar) /\ << >> \in Seq(Texts) /\ Len(<< >>) = 0
  BY EmptySeq
<1>4. Capacity \in Nat \ {0}
  BY ConstantsAssumption
<1>5. rest = body /\ served = Served(backend, body) /\ buffer = << >> /\ pending = << >>
      /\ channel = << >> /\ received = << >>
  BY DEF Init
<1>6. rest \in Seq(Byte) /\ buffer \in Seq(Char) /\ pending \in Seq(TextChar)
  BY <1>1, <1>3, <1>5
<1>7. served \in Seq(Seq(TextChar)) /\ channel \in Seq(Seq(TextChar)) /\ received \in Seq(Seq(TextChar))
  BY <1>2, <1>3, <1>5 DEF Texts
<1>8. Len(channel) <= Capacity
  BY <1>3, <1>4, <1>5
<1>9. backend \in Backends /\ body \in Bodies[backend] /\ stop \in BOOLEAN /\ split \in BOOLEAN
      /\ pc \in {"requesting", "refused", "reading", "sending", "ended"} /\ receiver \in {"open", "dropped"}
  BY DEF Init
<1> QED BY <1>6, <1>7, <1>8, <1>9 DEF TypeOK

\* The first end of a line in the buffer.
LEMMA LineFound ==
  ASSUME buffer \in Seq(Char), HasLine
  PROVE  /\ LineEnd \in 1..Len(buffer) /\ Line \in Seq(Char) /\ AfterLine \in Seq(Char)
         /\ "nl" \notin ToSet(Line) /\ buffer = (Line \o <<"nl">>) \o AfterLine
<1>1. PICK n \in Nat : n = Len(buffer) /\ DOMAIN buffer = 1..n /\ \A i \in 1..n : buffer[i] \in Char
  BY LenProperties, ElementOfSeq
<1> DEFINE Marks == {i \in Nat : i \in 1..n /\ buffer[i] = "nl"}
<1>2. Marks # {}
  BY <1>1 DEF HasLine, Contains
<1>3. PICK e \in Marks : \A i \in Marks : e <= i
  BY <1>2, Least, Zenon
<1>4. e \in 1..n /\ buffer[e] = "nl" /\ \A j \in 1..(e - 1) : buffer[j] # "nl"
  <2>1. \A j \in 1..(e - 1) : j \in Nat /\ j \in 1..n /\ ~ (e <= j)
    BY <1>3
  <2> QED BY <1>3, <2>1
<1>5. PICK k : k = LineEnd
  OBVIOUS
<1>6. k \in 1..n /\ buffer[k] = "nl" /\ \A j \in 1..(k - 1) : buffer[j] # "nl"
  BY <1>1, <1>4, <1>5 DEF LineEnd
<1> HIDE DEF Marks
<1>7. PICK l \in Seq(Char) : l = SubSeq(buffer, 1, k - 1) /\ Len(l) = k - 1 /\ \A i \in 1..(k - 1) : l[i] = buffer[i]
  <2>1. \A i \in 1..(k - 1) : buffer[i] \in Char
    BY <1>1, <1>6
  <2>2. k - 1 \in Int /\ 1 \in Int
    BY <1>6
  <2>3. /\ SubSeq(buffer, 1, k - 1) \in Seq(Char)
        /\ Len(SubSeq(buffer, 1, k - 1)) = IF 1 <= k - 1 THEN (k - 1) - 1 + 1 ELSE 0
        /\ \A i \in 1 .. (k - 1) - 1 + 1 : SubSeq(buffer, 1, k - 1)[i] = buffer[1 + i - 1]
    BY <2>1, <2>2, SubSeqProperties
  <2>4. (IF 1 <= k - 1 THEN (k - 1) - 1 + 1 ELSE 0) = k - 1 /\ (k - 1) - 1 + 1 = k - 1
        /\ \A i \in 1..(k - 1) : 1 + i - 1 = i
    BY <1>6
  <2>5. PICK l : l = SubSeq(buffer, 1, k - 1)
    OBVIOUS
  <2> QED BY <2>3, <2>4, <2>5
<1>8. "nl" \notin ToSet(l)
  <2>1. DOMAIN l = 1..(k - 1)
    BY <1>7, LenProperties
  <2> QED BY <1>6, <1>7, <2>1 DEF ToSet
<1>9. PICK a \in Seq(Char) : a = SubSeq(buffer, k + 1, n)
  <2>1. \A i \in (k + 1)..n : buffer[i] \in Char
    BY <1>1, <1>6
  <2>2. k + 1 \in Int /\ n \in Int
    BY <1>6
  <2>3. SubSeq(buffer, k + 1, n) \in Seq(Char)
    BY <2>1, <2>2, SubSeqProperties
  <2> QED BY <2>3
<1>10. buffer = (l \o <<"nl">>) \o a
  <2>1. 1 \in 1..Len(buffer) /\ k \in 1..Len(buffer)
    BY <1>1, <1>6
  <2>2. SubSeq(buffer, 1, k) = SubSeq(buffer, 1, k - 1) \o <<buffer[k]>>
    BY <2>1, SubSeqRecursiveSecond
  <2>3. 1 \in 1..(Len(buffer) + 1) /\ k \in (1 - 1)..Len(buffer) /\ n \in k..Len(buffer)
    BY <1>1, <1>6
  <2>4. SubSeq(buffer, 1, k) \o SubSeq(buffer, k + 1, n) = SubSeq(buffer, 1, n)
    BY <2>3, ConcatAdjacentSubSeq
  <2>5. SubSeq(buffer, 1, n) = buffer
    BY <1>1, SubSeqFull
  <2> QED BY <1>6, <1>7, <1>9, <2>2, <2>4, <2>5
<1>11. Line = l /\ AfterLine = a
  BY <1>1, <1>5, <1>7, <1>9 DEF Line, AfterLine
<1> QED BY <1>1, <1>5, <1>6, <1>8, <1>10, <1>11

\* A chunk and what comes after it.
LEMMA ChunkTaken ==
  ASSUME NEW n \in 1..MaxChunk, rest \in Seq(Byte), n <= Len(rest)
  PROVE  /\ Chunk(n) \in Seq(Byte) /\ SubSeq(rest, n + 1, Len(rest)) \in Seq(Byte)
         /\ rest = Chunk(n) \o SubSeq(rest, n + 1, Len(rest))
         /\ Decoded(Chunk(n)) \in Seq(Char)
<1>1. PICK m \in Nat : m = Len(rest) /\ \A i \in 1..m : rest[i] \in Byte
  BY LenProperties, ElementOfSeq
<1>2. n \in Nat /\ n <= m /\ n >= 1
  BY <1>1, ConstantsAssumption
<1>3. PICK c \in Seq(Byte) : c = SubSeq(rest, 1, n)
  <2>1. \A i \in 1..n : rest[i] \in Byte
    BY <1>1, <1>2
  <2>2. 1 \in Int /\ n \in Int
    BY <1>2
  <2>3. SubSeq(rest, 1, n) \in Seq(Byte)
    BY <2>1, <2>2, SubSeqProperties
  <2> QED BY <2>3
<1>4. PICK r \in Seq(Byte) : r = SubSeq(rest, n + 1, m)
  <2>1. \A i \in (n + 1)..m : rest[i] \in Byte
    BY <1>1, <1>2
  <2>2. n + 1 \in Int /\ m \in Int
    BY <1>2
  <2>3. SubSeq(rest, n + 1, m) \in Seq(Byte)
    BY <2>1, <2>2, SubSeqProperties
  <2> QED BY <2>3
<1>5. rest = c \o r
  <2>1. 1 \in 1..(Len(rest) + 1) /\ n \in (1 - 1)..Len(rest) /\ m \in n..Len(rest)
    BY <1>1, <1>2
  <2>2. SubSeq(rest, 1, n) \o SubSeq(rest, n + 1, m) = SubSeq(rest, 1, m)
    BY <2>1, ConcatAdjacentSubSeq
  <2>3. SubSeq(rest, 1, m) = rest
    BY <1>1, SubSeqFull
  <2> QED BY <1>3, <1>4, <2>2, <2>3
<1>6. Decoded(c) \in Seq(Char)
  BY LossyType, EmptySeq DEF Decoded, Strict
<1> QED BY <1>1, <1>3, <1>4, <1>5, <1>6 DEF Chunk

\* The types after a step.
LEMMA TypeStep == TypeOK /\ [Next]_vars => TypeOK'
<1> SUFFICES ASSUME TypeOK, [Next]_vars PROVE TypeOK'
  OBVIOUS
<1>1. CASE Respond \/ Refuse \/ EndOfStream
  BY <1>1 DEF Respond, Refuse, EndOfStream, TypeOK, source, output
<1>2. ASSUME NEW n \in 1..MaxChunk, Read(n) PROVE TypeOK'
  <2>1. n <= Len(rest) /\ rest \in Seq(Byte)
    BY <1>2 DEF Read, TypeOK
  <2>2. Decoded(Chunk(n)) \in Seq(Char) /\ SubSeq(rest, n + 1, Len(rest)) \in Seq(Byte)
    BY <2>1, ChunkTaken
  <2>3. buffer \o Decoded(Chunk(n)) \in Seq(Char)
    BY <2>2, ConcatProperties DEF TypeOK
  <2>4. buffer' \in Seq(Char) /\ rest' \in Seq(Byte) /\ split' \in BOOLEAN
    <3>1. Utf8(Chunk(n)) \in BOOLEAN
      BY DEF Utf8
    <3> QED BY <1>2, <2>2, <2>3, <3>1 DEF Read, TypeOK
  <2> QED BY <1>2, <2>4 DEF Read, TypeOK, source, output
<1>3. CASE TakeLine
  <2>1. buffer \in Seq(Char) /\ HasLine
    BY <1>3 DEF TakeLine, TypeOK
  <2>2. Line \in Seq(Char) /\ AfterLine \in Seq(Char)
    BY <2>1, LineFound
  <2>3. EventOf(backend, Line).text \in Seq(TextChar) /\ EventOf(backend, Line).last \in BOOLEAN
    BY <2>2, EventType
  <2>4. buffer' \in Seq(Char) /\ pending' \in Seq(TextChar) /\ stop' \in BOOLEAN
        /\ pc' \in {"requesting", "refused", "reading", "sending", "ended"}
    BY <1>3, <2>2, <2>3 DEF TakeLine
  <2> QED BY <1>3, <2>4 DEF TakeLine, TypeOK, source, output
<1>4. CASE SendText
  <2>1. << >> \in Seq(TextChar)
    BY EmptySeq
  <2>2. channel' \in Seq(Seq(TextChar)) /\ Len(channel') <= Capacity
    <3>1. CASE channel' = channel
      BY <3>1 DEF TypeOK
    <3>2. CASE HasRoom /\ channel' = Append(channel, pending)
      <4>1. PICK T : T = Seq(TextChar)
        OBVIOUS
      <4>2. channel \in Seq(T) /\ pending \in T
        BY <4>1 DEF TypeOK
      <4>3. Append(channel, pending) \in Seq(T) /\ Len(Append(channel, pending)) = Len(channel) + 1
            /\ Len(channel) \in Nat
        BY <4>2, AppendProperties, LenProperties
      <4>4. Len(channel) + 1 <= Capacity
        BY <3>2, <4>3, ConstantsAssumption DEF HasRoom
      <4> QED BY <3>2, <4>1, <4>3, <4>4
    <3> QED BY <1>4, <3>1, <3>2 DEF SendText
  <2>3. pc' \in {"requesting", "refused", "reading", "sending", "ended"}
    BY <1>4 DEF SendText
  <2> QED BY <1>4, <2>1, <2>2, <2>3 DEF SendText, TypeOK, source
<1>5. CASE Receive
  <2>1. PICK T : T = Seq(TextChar)
    OBVIOUS
  <2>2. channel \in Seq(T) /\ channel # << >> /\ received \in Seq(T)
    BY <1>5, <2>1 DEF Receive, TypeOK
  <2>3. Head(channel) \in T /\ Tail(channel) \in Seq(T) /\ Len(Tail(channel)) = Len(channel) - 1
        /\ Len(channel) \in Nat
    BY <2>2, HeadTailProperties, LenProperties
  <2>4. Append(received, Head(channel)) \in Seq(T)
    BY <2>2, <2>3, AppendProperties
  <2>5. Len(Tail(channel)) <= Capacity
    BY <2>3, ConstantsAssumption DEF TypeOK
  <2>6. channel' \in Seq(Seq(TextChar)) /\ Len(channel') <= Capacity /\ received' \in Seq(Seq(TextChar))
    BY <1>5, <2>1, <2>3, <2>4, <2>5 DEF Receive
  <2> QED BY <1>5, <2>6 DEF Receive, TypeOK, source, reader
<1>6. CASE Drop
  <2>1. << >> \in Seq(Seq(TextChar)) /\ Len(<< >>) = 0
    BY EmptySeq
  <2>2. Capacity \in Nat
    BY ConstantsAssumption
  <2> QED BY <1>6, <2>1, <2>2 DEF Drop, TypeOK, source, reader
<1>7. CASE UNCHANGED vars
  BY <1>7 DEF vars, source, reader, output, TypeOK
<1> QED BY <1>1, <1>2, <1>3, <1>4, <1>5, <1>6, <1>7 DEF Next, Task, Network

--------------------------------------------------------------------------------
(* What is still to be told                                                *)

\* Where a reader of the whole body is that has been told what is told so far.
Now == At(<< >>, Told, stop)

\* It would read the texts served in what is buffered and what is still to come.
Exact ==
  receiver = "open" /\ ~ split => ReadOn(backend, Now, buffer \o Lossy(rest)).texts = served

\* With the replacements widened, also when characters have been cut.
Nearly ==
  receiver = "open" /\ backend = "ollama" =>
    ReadOn("ollama", WideOf(Now), Wide(buffer) \o Plain(rest)).texts = WideTexts(served)

\* The last line is the last that is taken, and none is left behind but it.
Turns ==
  /\ pc \in {"requesting", "reading"} => ~ stop
  /\ receiver = "open" /\ pc = "ended" => stop \/ "nl" \notin ToSet(buffer)

StreamInv == TypeOK /\ Exact /\ Nearly /\ Turns

\* The types of what is told.
LEMMA ToldType ==
  ASSUME TypeOK
  PROVE  /\ received \o channel \in Seq(Texts) /\ Told \in Seq(Texts) /\ Now \in Reading
         /\ pc # "sending" => Told = received \o channel
<1>1. PICK T : T = Texts
  OBVIOUS
<1>2. received \in Seq(T) /\ channel \in Seq(T) /\ pending \in T
  BY <1>1 DEF TypeOK, Texts
<1>3. PICK out \in Seq(T) : out = received \o channel
  BY <1>2, ConcatProperties
<1>4. << >> \in Seq(T) /\ <<pending>> \in Seq(T)
  BY <1>2, EmptySeq
<1>5. CASE pc = "sending"
  <2>1. PICK one \in Seq(T) : one = <<pending>>
    BY <1>4
  <2>2. Told = out \o one
    BY <1>3, <1>5, <2>1 DEF Told
  <2>3. Told \in Seq(T)
    BY <2>2, ConcatProperties
  <2>4. << >> \in Seq(Char) /\ stop \in BOOLEAN
    BY EmptySeq DEF TypeOK
  <2> QED BY <1>1, <1>3, <1>5, <2>3, <2>4 DEF Now, At, Reading, Texts
<1>6. CASE pc # "sending"
  <2>1. Told = out
    BY <1>3, <1>6, ConcatEmptySeq DEF Told
  <2>2. << >> \in Seq(Char) /\ stop \in BOOLEAN
    BY EmptySeq DEF TypeOK
  <2> QED BY <1>1, <1>3, <2>1, <2>2 DEF Now, At, Reading, Texts
<1> QED BY <1>5, <1>6

--------------------------------------------------------------------------------
(* One line taken                                                          *)

\* Where a reader is between lines, and after one.
Between(texts) == At(<< >>, texts, FALSE)

After(who, texts, line) ==
  At(<< >>, IF EventOf(who, line).text = << >> THEN texts ELSE Append(texts, EventOf(who, line).text),
     EventOf(who, line).last)

\* Their types.
LEMMA AfterType ==
  ASSUME NEW who, NEW texts \in Seq(Texts), NEW line \in Seq(Char)
  PROVE  After(who, texts, line) \in Reading /\ Between(texts) \in Reading
<1>1. PICK text \in Texts, b \in BOOLEAN : text = EventOf(who, line).text /\ b = EventOf(who, line).last
  BY EventType DEF Texts
<1>2. << >> \in Seq(Char) /\ Append(texts, text) \in Seq(Texts)
  BY EmptySeq, AppendProperties
<1> QED BY <1>1, <1>2 DEF After, Between, At, Reading, Texts

\* What comes after some texts begins with a line and its end.
Begins(texts, chars, line, tail) ==
  /\ texts \in Seq(Texts) /\ line \in Seq(Char) /\ tail \in Seq(Char)
  /\ "nl" \notin ToSet(line) /\ chars = (line \o <<"nl">>) \o tail

\* A line, what follows it and what follows that.
LEMMA LineTold ==
  ASSUME NEW who, NEW texts, NEW line, NEW tail, NEW chars, Begins(texts, chars, line, tail),
         NEW more \in Seq(Char)
  PROVE  ReadOn(who, Between(texts), chars \o more)
           = ReadOn(who, After(who, texts, line), tail \o more)
<1>0. texts \in Seq(Texts) /\ line \in Seq(Char) /\ tail \in Seq(Char)
  BY DEF Begins
<1>1. PICK st \in Reading : st = Between(texts)
  BY <1>0, AfterType
<1>2. PICK x \in Seq(Char) : x = line \o <<"nl">>
  <2>1. <<"nl">> \in Seq(Char)
    BY DEF Char
  <2> QED BY <1>0, <2>1, ConcatProperties
<1>3. Associates(Char)
  BY Reassociated
<1>4. (x \o tail) \o more = x \o (tail \o more)
  BY <1>0, <1>3 DEF Associates
<1>5. tail \o more \in Seq(Char)
  BY <1>0, ConcatProperties
<1>6. ReadOn(who, st, x \o (tail \o more)) = ReadOn(who, ReadOn(who, st, x), tail \o more)
  <2>1. PICK behind \in Seq(Char) : behind = tail \o more
    BY <1>5
  <2>2. st \in Reading /\ x \in Seq(Char)
    OBVIOUS
  <2>3. ReadOn(who, st, x \o behind) = ReadOn(who, ReadOn(who, st, x), behind)
    BY <2>2, ReadConcat
  <2> QED BY <2>1, <2>3
<1>7. ReadOn(who, st, x) = After(who, texts, line)
  BY <1>0, <1>1, <1>2, LineEnded DEF After, Between, Begins, Texts
<1>8. chars = x \o tail
  BY <1>2 DEF Begins
<1> QED BY <1>1, <1>4, <1>6, <1>7, <1>8

\* The same with replacements widened.
LEMMA LineToldWide ==
  ASSUME NEW texts, NEW line, NEW tail, NEW chars, Begins(texts, chars, line, tail),
         NEW more \in Seq(Char)
  PROVE  ReadOn("ollama", WideOf(Between(texts)), Wide(chars) \o more)
           = ReadOn("ollama", WideOf(After("ollama", texts, line)), Wide(tail) \o more)
<1>0. texts \in Seq(Texts) /\ line \in Seq(Char) /\ tail \in Seq(Char)
  BY DEF Begins
<1>1. PICK st \in Reading : st = Between(texts)
  BY <1>0, AfterType
<1>2. PICK x \in Seq(Char) : x = line \o <<"nl">>
  <2>1. <<"nl">> \in Seq(Char)
    BY DEF Char
  <2> QED BY <1>0, <2>1, ConcatProperties
<1>3. Associates(Char)
  BY Reassociated
<1>4. PICK wx \in Seq(Char), wt \in Seq(Char) : wx = Wide(x) /\ wt = Wide(tail)
  BY <1>0, WideType
<1>5. Wide(x \o tail) = wx \o wt
  BY <1>0, <1>4, WideConcat
<1>6. (wx \o wt) \o more = wx \o (wt \o more)
  BY <1>3 DEF Associates
<1>7. PICK w \in Reading : w = WideOf(st)
  BY WideOfType
<1>8. PICK y \in Seq(Char) : y = wt \o more
  BY ConcatProperties
<1>9. ReadOn("ollama", w, wx \o y) = ReadOn("ollama", ReadOn("ollama", w, wx), y)
  BY ReadConcat
<1>10. ReadOn("ollama", w, wx) = WideOf(ReadOn("ollama", st, x))
  BY <1>4, <1>7, WideRead
<1>11. ReadOn("ollama", st, x) = After("ollama", texts, line)
  BY <1>0, <1>1, <1>2, LineEnded DEF After, Between, Begins, Texts
<1>12. chars = x \o tail
  BY <1>2 DEF Begins
<1> QED BY <1>1, <1>4, <1>5, <1>6, <1>7, <1>8, <1>9, <1>10, <1>11, <1>12

--------------------------------------------------------------------------------
(* Every step                                                              *)

\* At first all of the body is still to come.
LEMMA StreamInit == Init => StreamInv
<1> SUFFICES ASSUME Init PROVE StreamInv
  OBVIOUS
<1>1. TypeOK /\ body \in Seq(Byte)
  BY TypeInit, BodyType DEF Init
<1>2. Told = << >> /\ Now = Start
  <2>1. received = << >> /\ channel = << >> /\ pc = "requesting" /\ stop = FALSE
    BY DEF Init
  <2>2. Told = << >>
    BY <2>1, ConcatEmptySeq DEF Told
  <2> QED BY <2>1, <2>2 DEF Now, Start
<1>3. PICK chars \in Seq(Char) : chars = Lossy(rest) /\ buffer \o Lossy(rest) = chars
  <2>1. Lossy(body) \in Seq(Char)
    BY <1>1, ServedType
  <2>2. PICK chars \in Seq(Char) : chars = Lossy(body)
    BY <2>1
  <2>3. << >> \o chars = chars
    BY ConcatEmptySeq
  <2>4. rest = body /\ buffer = << >>
    BY DEF Init
  <2> QED BY <2>2, <2>3, <2>4
<1>4. served = ReadOn(backend, Start, chars).texts /\ Start \in Reading
  <2>1. served = Served(backend, body) /\ rest = body
    BY DEF Init
  <2> QED BY <1>1, <1>3, <2>1, ServedType
<1>5. Exact
  BY <1>2, <1>3, <1>4 DEF Exact
<1>6. Nearly
  <2> SUFFICES ASSUME backend = "ollama"
               PROVE  ReadOn("ollama", WideOf(Now), Wide(buffer) \o Plain(rest)).texts = WideTexts(served)
    BY DEF Nearly
  <2>1. Wide(chars) = Plain(rest)
    <3>1. rest \in Seq(Byte)
      BY <1>1 DEF TypeOK
    <3> QED BY <1>3, <3>1, WideLossy
  <2>2. Wide(buffer) \o Plain(rest) = Wide(chars)
    <3>1. Wide(buffer) = << >>
      BY WideOne DEF Init
    <3>2. PICK w \in Seq(Char) : w = Wide(chars)
      BY WideType
    <3>3. << >> \o w = w
      BY ConcatEmptySeq
    <3> QED BY <2>1, <3>1, <3>2, <3>3
  <2>3. ReadOn("ollama", WideOf(Start), Wide(chars)) = WideOf(ReadOn("ollama", Start, chars))
    BY <1>4, WideRead
  <2>4. WideOf(ReadOn("ollama", Start, chars)).texts = WideTexts(ReadOn("ollama", Start, chars).texts)
    BY DEF WideOf
  <2>5. served = ReadOn("ollama", Start, chars).texts
    BY <1>4
  <2> QED BY <1>2, <2>2, <2>3, <2>4, <2>5
<1>7. Turns
  BY DEF Init, Turns
<1> QED BY <1>1, <1>5, <1>6, <1>7 DEF StreamInv

\* Where what is told and what is left stay, so does what is still to be told.
LEMMA Kept ==
  ASSUME Exact, Nearly, receiver' = "open" => receiver = "open" /\ Told' = Told,
         UNCHANGED <<backend, served, stop, buffer, rest, split>>
  PROVE  Exact' /\ Nearly'
<1>1. ASSUME receiver' = "open" PROVE Now' = Now /\ receiver = "open"
  BY <1>1 DEF Now
<1>2. Exact'
  BY <1>1 DEF Exact
<1>3. Nearly'
  BY <1>1 DEF Nearly
<1> QED BY <1>2, <1>3

\* A chunk moves from what is left to what is buffered.
LEMMA ReadKeeps ==
  ASSUME StreamInv, NEW n \in 1..MaxChunk, Read(n)
  PROVE  Exact' /\ Nearly'
<1>1. PICK chunk \in Seq(Byte), left \in Seq(Byte) :
        /\ chunk = Chunk(n) /\ left = rest' /\ rest = chunk \o left
        /\ Decoded(chunk) \in Seq(Char)
  <2>1. n <= Len(rest) /\ rest \in Seq(Byte) /\ rest' = SubSeq(rest, n + 1, Len(rest))
    BY DEF Read, StreamInv, TypeOK
  <2> QED BY <2>1, ChunkTaken
<1>2. PICK chars \in Seq(Char) : chars = Decoded(chunk) /\ buffer' = buffer \o chars /\ buffer \in Seq(Char)
  BY <1>1 DEF Read, StreamInv, TypeOK
<1>3. /\ receiver' = receiver /\ backend' = backend /\ served' = served
      /\ split' = (split \/ ~ Utf8(chunk)) /\ Told' = Told /\ Now' = Now
  BY <1>1 DEF Read, source, output, Told, Now
<1>4. Associates(Char)
  BY Reassociated
<1>5. Exact'
  <2> SUFFICES ASSUME receiver' = "open", ~ split'
               PROVE  ReadOn(backend', Now', buffer' \o Lossy(rest')).texts = served'
    BY DEF Exact
  <2>1. Utf8(chunk) /\ ~ split /\ receiver = "open"
    BY <1>3
  <2>2. chars = Lossy(chunk)
    BY <1>2, <2>1 DEF Decoded, Strict
  <2>3. PICK more \in Seq(Char) : more = Lossy(left)
    BY LossyType
  <2>4. Lossy(rest) = chars \o more
    BY <1>1, <2>1, <2>2, <2>3, LossyConcat
  <2>5. (buffer \o chars) \o more = buffer \o (chars \o more)
    BY <1>2, <1>4 DEF Associates
  <2>6. buffer' \o Lossy(rest') = buffer \o Lossy(rest)
    BY <1>1, <1>2, <2>3, <2>4, <2>5
  <2>7. ReadOn(backend, Now, buffer \o Lossy(rest)).texts = served
    BY <2>1 DEF StreamInv, Exact
  <2> QED BY <1>3, <2>6, <2>7
<1>6. Nearly'
  <2> SUFFICES ASSUME receiver' = "open", backend' = "ollama"
               PROVE  ReadOn("ollama", WideOf(Now'), Wide(buffer') \o Plain(rest')).texts = WideTexts(served')
    BY DEF Nearly
  <2>1. backend = "ollama" /\ receiver = "open"
    BY <1>3
  <2>2. Wide(chars) = Plain(chunk)
    BY <1>2, <2>1, WideLossy DEF Decoded
  <2>3. PICK a \in Seq(Char), b \in Seq(Char), c \in Seq(Char) :
          a = Wide(buffer) /\ b = Plain(chunk) /\ c = Plain(left)
    BY <1>2, WideType, PlainType
  <2>4. Plain(rest) = b \o c
    BY <1>1, <2>3, PlainConcat
  <2>5. Wide(buffer') = a \o b
    BY <1>2, <2>2, <2>3, WideConcat
  <2>6. (a \o b) \o c = a \o (b \o c)
    BY <1>4 DEF Associates
  <2>7. Wide(buffer') \o Plain(rest') = Wide(buffer) \o Plain(rest)
    BY <1>1, <2>3, <2>4, <2>5, <2>6
  <2>8. ReadOn("ollama", WideOf(Now), Wide(buffer) \o Plain(rest)).texts = WideTexts(served)
    BY <2>1 DEF StreamInv, Nearly
  <2> QED BY <1>3, <2>7, <2>8
<1> QED BY <1>5, <1>6

\* A line moves from what is buffered to what is told.
LEMMA TakeKeeps ==
  ASSUME StreamInv, TakeLine
  PROVE  Exact' /\ Nearly'
<1>1. /\ buffer \in Seq(Char) /\ HasLine /\ rest \in Seq(Byte) /\ pc = "reading" /\ ~ stop /\ stop \in BOOLEAN
      /\ Told \in Seq(Texts) /\ Told = received \o channel
  <2>1. TypeOK /\ Turns
    BY DEF StreamInv
  <2>2. pc = "reading" /\ HasLine
    BY DEF TakeLine
  <2> QED BY <2>1, <2>2, ToldType DEF TypeOK, Turns
<1>2. PICK line \in Seq(Char), tail \in Seq(Char) :
        /\ line = Line /\ tail = AfterLine /\ "nl" \notin ToSet(line)
        /\ buffer = (line \o <<"nl">>) \o tail
  BY <1>1, LineFound
<1>3. PICK text \in Texts, b \in BOOLEAN : text = EventOf(backend, line).text /\ b = EventOf(backend, line).last
  BY EventType DEF Texts
<1>4. /\ buffer' = tail /\ pending' = text /\ stop' = b
      /\ pc' = IF text # << >> THEN "sending" ELSE IF b THEN "ended" ELSE "reading"
      /\ receiver' = receiver /\ backend' = backend /\ served' = served /\ split' = split
      /\ rest' = rest /\ channel' = channel /\ received' = received
  BY <1>2, <1>3 DEF TakeLine, source, output
<1>5. PICK told \in Seq(Texts) : told = Told /\ told = received \o channel
  BY <1>1
<1>6. Told' = IF text = << >> THEN told ELSE Append(told, text)
  <2>1. CASE text = << >>
    <3>1. pc' # "sending"
      BY <1>4, <2>1
    <3>2. told \o << >> = told
      BY ConcatEmptySeq
    <3>3. Told' = told \o << >>
      BY <1>4, <1>5, <3>1 DEF Told
    <3> QED BY <2>1, <3>2, <3>3
  <2>2. CASE text # << >>
    <3>1. pc' = "sending"
      BY <1>4, <2>2
    <3>2. Told' = told \o <<text>>
      BY <1>4, <1>5, <3>1 DEF Told
    <3>3. Append(told, text) = told \o <<text>>
      BY AppendIsConcat
    <3> QED BY <2>2, <3>2, <3>3
  <2> QED BY <2>1, <2>2
<1>7. Now' = After(backend, told, line)
  BY <1>3, <1>4, <1>6 DEF Now, After, At
<1>8. Now = Between(told)
  BY <1>1, <1>5 DEF Now, Between
<1>9. Exact'
  <2> SUFFICES ASSUME receiver' = "open", ~ split'
               PROVE  ReadOn(backend', Now', buffer' \o Lossy(rest')).texts = served'
    BY DEF Exact
  <2>1. PICK more \in Seq(Char) : more = Lossy(rest)
    BY <1>1, LossyType
  <2>2. ReadOn(backend, Now, buffer \o more).texts = served
    BY <1>4, <2>1 DEF StreamInv, Exact
  <2>3. ReadOn(backend, Between(told), buffer \o more)
          = ReadOn(backend, After(backend, told, line), tail \o more)
      <3>1. Begins(told, buffer, line, tail)
      BY <1>2 DEF Begins
    <3> QED BY <3>1, LineTold
  <2>4. buffer' \o Lossy(rest') = tail \o more
    BY <1>4, <2>1
  <2> QED BY <1>2, <1>4, <1>7, <1>8, <2>2, <2>3, <2>4
<1>10. Nearly'
  <2> SUFFICES ASSUME receiver' = "open", backend' = "ollama"
               PROVE  ReadOn("ollama", WideOf(Now'), Wide(buffer') \o Plain(rest')).texts = WideTexts(served')
    BY DEF Nearly
  <2>1. PICK more \in Seq(Char) : more = Plain(rest)
    BY <1>1, PlainType
  <2>2. ReadOn("ollama", WideOf(Now), Wide(buffer) \o more).texts = WideTexts(served)
    BY <1>4, <2>1 DEF StreamInv, Nearly
  <2>3. ReadOn("ollama", WideOf(Between(told)), Wide(buffer) \o more)
          = ReadOn("ollama", WideOf(After("ollama", told, line)), Wide(tail) \o more)
      <3>1. Begins(told, buffer, line, tail)
      BY <1>2 DEF Begins
    <3> QED BY <3>1, LineToldWide
  <2>4. Wide(buffer') \o Plain(rest') = Wide(tail) \o more
    BY <1>4, <2>1
  <2> QED BY <1>2, <1>4, <1>7, <1>8, <2>2, <2>3, <2>4
<1> QED BY <1>9, <1>10

\* A text that is sent, or received, stays told.
LEMMA SendKeepsTold ==
  ASSUME TypeOK, SendText
  PROVE  receiver' = "open" => receiver = "open" /\ Told' = Told
<1> SUFFICES ASSUME receiver' = "open" PROVE receiver = "open" /\ Told' = Told
  OBVIOUS
<1>1. /\ receiver = "open" /\ channel' = Append(channel, pending) /\ received' = received
      /\ pc = "sending" /\ pc' # "sending"
  BY DEF SendText
<1>2. PICK T : T = Texts
  OBVIOUS
<1>3. received \in Seq(T) /\ channel \in Seq(T) /\ pending \in T
  BY <1>2 DEF TypeOK, Texts
<1>4. PICK one \in Seq(T) : one = <<pending>>
  <2>1. <<pending>> \in Seq(T)
    BY <1>3
  <2> QED BY <2>1
<1>5. PICK more \in Seq(T) : more = channel' /\ more = channel \o one
  <2>1. Append(channel, pending) = channel \o one
    BY <1>3, <1>4, AppendIsConcat
  <2>2. channel \o one \in Seq(T)
    BY <1>3, ConcatProperties
  <2> QED BY <1>1, <2>1, <2>2
<1>6. Told = (received \o channel) \o one
  BY <1>1, <1>4 DEF Told
<1>7. Told' = received \o more
  <2>1. received \o more \in Seq(T)
    BY <1>3, ConcatProperties
  <2>2. (received \o more) \o << >> = received \o more
    BY <2>1, ConcatEmptySeq
  <2>3. Told' = (received \o more) \o << >>
    BY <1>1, <1>5 DEF Told
  <2> QED BY <2>2, <2>3
<1>8. (received \o channel) \o one = received \o (channel \o one)
  <2>1. Associates(T)
    BY Reassociated
  <2> QED BY <1>3, <2>1 DEF Associates
<1> QED BY <1>1, <1>5, <1>6, <1>7, <1>8

\* ... also a text that is received.
LEMMA ReceiveKeepsTold ==
  ASSUME TypeOK, Receive
  PROVE  Told' = Told /\ receiver' = "open"
<1>1. /\ received' = Append(received, Head(channel)) /\ channel' = Tail(channel) /\ channel # << >>
      /\ pc' = pc /\ pending' = pending /\ receiver' = "open"
  BY DEF Receive, reader
<1>2. PICK T : T = Texts
  OBVIOUS
<1>3. received \in Seq(T) /\ channel \in Seq(T)
  BY <1>2 DEF TypeOK, Texts
<1>4. Append(received, Head(channel)) \o Tail(channel) = received \o channel
  BY <1>1, <1>3, MoveHead
<1>5. received' \o channel' = received \o channel
  BY <1>1, <1>4
<1> QED BY <1>1, <1>5 DEF Told

\* Every step keeps the invariant.
LEMMA StreamStep == StreamInv /\ [Next]_vars => StreamInv'
<1> SUFFICES ASSUME StreamInv, [Next]_vars PROVE StreamInv'
  OBVIOUS
<1>0. TypeOK' /\ TypeOK /\ Exact /\ Nearly /\ Turns
  BY TypeStep DEF StreamInv
<1>1. CASE Respond \/ Refuse \/ EndOfStream
  <2>1. /\ pc # "sending" /\ pc' # "sending" /\ UNCHANGED <<source, rest, buffer, pending, stop, output, split>>
    BY <1>1 DEF Respond, Refuse, EndOfStream
  <2>2. receiver' = receiver /\ Told' = Told
    BY <2>1 DEF Told, output
  <2>3. UNCHANGED <<backend, served, stop, buffer, rest, split>>
    BY <2>1 DEF source
  <2>4. Exact' /\ Nearly'
    BY <1>0, <2>2, <2>3, Kept
  <2>5. Turns'
    <3>1. CASE Respond \/ Refuse
      BY <1>0, <3>1 DEF Respond, Refuse, Turns
    <3>2. CASE EndOfStream
      <4>1. "nl" \notin ToSet(buffer)
        BY <3>2 DEF EndOfStream, HasLine, Contains, ToSet
      <4> QED BY <3>2, <2>3, <4>1 DEF EndOfStream, Turns
    <3> QED BY <1>1, <3>1, <3>2
  <2> QED BY <1>0, <2>4, <2>5 DEF StreamInv
<1>2. ASSUME NEW n \in 1..MaxChunk, Read(n) PROVE StreamInv'
  <2>1. Exact' /\ Nearly'
    BY <1>2, ReadKeeps
  <2>2. Turns'
    BY <1>0, <1>2 DEF Read, Turns
  <2> QED BY <1>0, <2>1, <2>2 DEF StreamInv
<1>3. CASE TakeLine
  <2>1. Exact' /\ Nearly'
    BY <1>3, TakeKeeps
  <2>2. Turns'
    <3>1. stop' \in BOOLEAN
      BY <1>0 DEF TypeOK
    <3> QED BY <1>3, <3>1 DEF TakeLine, Turns
  <2> QED BY <1>0, <2>1, <2>2 DEF StreamInv
<1>4. CASE SendText
  <2>1. receiver' = "open" => receiver = "open" /\ Told' = Told
    BY <1>0, <1>4, SendKeepsTold
  <2>2. UNCHANGED <<backend, served, stop, buffer, rest, split>>
    BY <1>4 DEF SendText, source
  <2>3. Exact' /\ Nearly'
    BY <1>0, <2>1, <2>2, Kept
  <2>4. Turns'
    BY <1>4 DEF SendText, Turns
  <2> QED BY <1>0, <2>3, <2>4 DEF StreamInv
<1>5. CASE Receive
  <2>1. Told' = Told /\ receiver' = "open" /\ receiver = "open"
    BY <1>0, <1>5, ReceiveKeepsTold DEF Receive
  <2>2. UNCHANGED <<backend, served, stop, buffer, rest, split, pc>>
    BY <1>5 DEF Receive, source, reader
  <2>3. Exact' /\ Nearly'
    BY <1>0, <2>1, <2>2, Kept
  <2>4. Turns'
    BY <1>0, <2>1, <2>2 DEF Turns
  <2> QED BY <1>0, <2>3, <2>4 DEF StreamInv
<1>6. CASE Drop
  <2>1. receiver' = "dropped" /\ pc' = pc /\ stop' = stop
    BY <1>6 DEF Drop, reader
  <2>2. Exact' /\ Nearly' /\ Turns'
    BY <1>0, <2>1 DEF Exact, Nearly, Turns
  <2> QED BY <1>0, <2>2 DEF StreamInv
<1>7. CASE UNCHANGED vars
  <2>1. UNCHANGED <<backend, served, stop, buffer, rest, split, pc, receiver, received, channel, pending>>
    BY <1>7 DEF vars, source, reader, output
  <2>2. Told' = Told
    BY <2>1 DEF Told
  <2>3. Exact' /\ Nearly'
    BY <1>0, <2>1, <2>2, Kept
  <2>4. Turns'
    BY <1>0, <2>1 DEF Turns
  <2> QED BY <1>0, <2>3, <2>4 DEF StreamInv
<1> QED BY <1>1, <1>2, <1>3, <1>4, <1>5, <1>6, <1>7 DEF Next, Task, Network

--------------------------------------------------------------------------------
(* What the invariant says                                                 *)

\* Without a line in it, what is left tells nothing.
LEMMA NothingLeft ==
  ASSUME NEW who, NEW st \in Reading, st.line = << >>, NEW chars \in Seq(Char),
         st.stop \/ "nl" \notin ToSet(chars)
  PROVE  ReadOn(who, st, chars).texts = st.texts
<1>1. CASE st.stop
  BY <1>1, Stopped
<1>2. CASE ~ st.stop
  <2>1. PICK texts \in Seq(Seq(TextChar)) : texts = st.texts
    BY DEF Reading
  <2>2. st = At(<< >>, texts, FALSE)
    BY <1>2, <2>1 DEF Reading, At
  <2>3. ReadOn(who, At(<< >>, texts, FALSE), chars) = At(chars, texts, FALSE)
    BY <1>2, LineRead
  <2> QED BY <2>1, <2>2, <2>3 DEF At
<1> QED BY <1>1, <1>2

\* Nothing decodes to nothing.
LEMMA Empties == Lossy(<< >>) = << >> /\ Plain(<< >>) = << >>
<1>1. Plain(<< >>) = << >>
  BY WidenedType, SpreadOne DEF Plain
<1>2. << >> \in Seq(Seq(Char)) /\ \A i \in 1..Len(<< >>) : << >>[i] = << >>
  BY EmptySeq
<1>3. FlattenSeq(<< >>) = << >>
  BY <1>2, FlattenedEmpty
<1>4. PiecesOf(<< >>) = << >>
  BY DEF PiecesOf
<1>5. << >> \in Seq(Byte)
  BY EmptySeq
<1>6. Lossy(<< >>) = FlattenSeq(PiecesOf(<< >>))
  BY <1>5, LossyType
<1> QED BY <1>1, <1>3, <1>4, <1>6

\* What is told, and is a beginning of what a reader would be told, is one of what is
\* served; when no line is left, it is all of it.
LEMMA StreamToldIsServed == StreamInv => ToldIsServed
<1> SUFFICES ASSUME StreamInv, receiver = "open"
             PROVE  /\ ~ split => IsPrefix(Told, served)
                    /\ backend = "ollama" => IsPrefix(Letters(Told), Letters(served))
                    /\ pc = "ended" /\ rest = << >> =>
                         /\ ~ split => Told = served
                         /\ backend = "ollama" => Letters(Told) = Letters(served)
  BY DEF ToldIsServed
<1>1. TypeOK /\ Exact /\ Nearly /\ Turns
  BY DEF StreamInv
<1>2. PICK told \in Seq(Texts), s \in Seq(Texts), st \in Reading :
        told = Told /\ s = served /\ st = Now
  BY <1>1, ToldType DEF TypeOK, Texts
<1>3. st.line = << >> /\ st.texts = told /\ st.stop = stop
  BY <1>2 DEF Now, At
<1>4. PICK buf \in Seq(Char), more \in Seq(Char), wide \in Seq(Char), plain \in Seq(Char) :
        buf = buffer /\ more = Lossy(rest) /\ wide = Wide(buffer) /\ plain = Plain(rest)
  BY <1>1, LossyType, WideType, PlainType DEF TypeOK
<1>5. PICK all \in Seq(Char), wideall \in Seq(Char) : all = buf \o more /\ wideall = wide \o plain
  BY ConcatProperties
<1>6. PICK w \in Reading : w = WideOf(st)
  BY WideOfType
<1>7. w.line = << >> /\ w.texts = WideTexts(told) /\ w.stop = stop
  BY <1>3, <1>6, WideOne DEF WideOf
<1>8. ASSUME ~ split PROVE ReadOn(backend, st, all).texts = s
  BY <1>1, <1>2, <1>4, <1>5, <1>8 DEF Exact
<1>9. ASSUME backend = "ollama" PROVE ReadOn("ollama", w, wideall).texts = WideTexts(s)
  BY <1>1, <1>2, <1>4, <1>5, <1>6, <1>9 DEF Nearly
<1>10. ASSUME ~ split PROVE IsPrefix(told, s)
  <2>1. Continues(ReadOn(backend, st, all).texts, st.texts)
    BY ReadGrows
  <2>2. PICK T : T = Texts
    OBVIOUS
  <2>3. PICK rem \in Seq(T) : s = told \o rem
    BY <1>3, <1>8, <1>10, <2>1, <2>2 DEF Continues, Texts
  <2>4. told \in Seq(T)
    BY <2>2
  <2> QED BY <2>3, <2>4, PrefixConcat
<1>11. ASSUME backend = "ollama" PROVE IsPrefix(Letters(told), Letters(s))
  <2>1. Continues(ReadOn("ollama", w, wideall).texts, w.texts)
    BY ReadGrows
  <2>2. Continues(WideTexts(s), WideTexts(told))
    BY <1>7, <1>9, <1>11, <2>1
  <2> QED BY <2>2, LettersFollow DEF Texts
<1>12. ASSUME pc = "ended", rest = << >>
       PROVE  (~ split => told = s) /\ (backend = "ollama" => Letters(told) = Letters(s))
  <2>1. stop \/ "nl" \notin ToSet(buf)
    BY <1>1, <1>4, <1>12 DEF Turns
  <2>2. all = buf /\ wideall = wide
    BY <1>4, <1>5, <1>12, Empties, ConcatEmptySeq
  <2>3. stop \/ "nl" \notin ToSet(wide)
    BY <1>4, <2>1, WideElements
  <2>4. ReadOn(backend, st, all).texts = told
    BY <1>3, <2>1, <2>2, NothingLeft
  <2>5. ReadOn("ollama", w, wideall).texts = WideTexts(told)
    BY <1>7, <2>2, <2>3, NothingLeft
  <2>6. ASSUME ~ split PROVE told = s
    BY <1>8, <2>4, <2>6
  <2>7. ASSUME backend = "ollama" PROVE Letters(told) = Letters(s)
    <3>1. WideTexts(told) = WideTexts(s)
      BY <1>9, <2>5, <2>7
    <3> QED BY <3>1, LettersFollow DEF Texts
  <2> QED BY <2>6, <2>7
<1> QED BY <1>2, <1>10, <1>11, <1>12

--------------------------------------------------------------------------------
(* Theorems                                                                *)

\* Every variable of a stream reader keeps its type and the channel its
\* capacity, whatever the bodies, the chunks and the capacity.
THEOREM StreamTypeCorrect == Spec => []TypeOK
BY TypeInit, TypeStep, PTL DEF Spec

\* However the body is cut into chunks and however slowly the texts are
\* received, they are the texts served, in order and none after the end mark:
\* all of those of OpenAI and Anthropic as long as no chunk ended inside a
\* character, and of Ollama's at least the letters, cut characters or not.
THEOREM StreamCorrect == Spec => []ToldIsServed
BY StreamInit, StreamStep, StreamToldIsServed, PTL DEF Spec
================================================================================
