---------------------------- MODULE ChannelProofs ----------------------------
(***************************************************************************)
(* What arrives over a connection, for every size and bound: bytes written, *)
(* under way and read form one stream of whole frames, cut at any point     *)
(* between the two ends; and without breaks a connection is a Channel.      *)
(* First, what is left when a stream is cut anywhere, what two streams make *)
(* together, and how a read task takes one frame off a stream, whatever     *)
(* part of the frame a buffer holds.                                        *)
(***************************************************************************)
EXTENDS LocalBusConnectionProofs

------------------------------------------------------------------------------
\* Streams of bytes.  z[f] is the length of frame f's body, as sent[f] is; how far
\* a stream has got is given by its last byte, NoByte before the first.

Size(z, f) == HeaderSize + z[f]
NoByte == [frame |-> 0, at |-> 0]
EndOf(z, f) == IF f = 0 THEN NoByte ELSE [frame |-> f, at |-> Size(z, f)]
Complete(z, b) == b.frame = 0 \/ b.at = Size(z, b.frame)

\* Byte c comes after b: the next one of its frame, or the first of a later frame.
Continues(z, b, c) ==
  IF Complete(z, b) THEN b.frame < c.frame /\ c.at = 1
  ELSE c.frame = b.frame /\ c.at = b.at + 1

Precedes(b, c) == b.frame < c.frame \/ (b.frame = c.frame /\ b.at < c.at)

\* Frames in order, none twice; of a frame only the beginning can be missing before
\* the first byte and the end after the last one.
Chain(z, s) ==
  /\ \A i \in 1 .. Len(s) :
       s[i].frame \in 1 .. Len(z) /\ s[i].at \in 1 .. Size(z, s[i].frame)
  /\ \A i, k \in 1 .. Len(s) : i < k => Precedes(s[i], s[k])
  /\ \A i \in 1 .. Len(s) : \A a \in 1 .. Size(z, s[i].frame) :
       i + a - s[i].at \in 1 .. Len(s) =>
         s[i + a - s[i].at].frame = s[i].frame /\ s[i + a - s[i].at].at = a

Follows(z, b, s) == Chain(z, s) /\ (s # << >> => Continues(z, b, s[1]))
After(b, s) == IF s = << >> THEN b ELSE s[Len(s)]

Lengths == Seq(Nat \ {0})

LEMMA SizeIs ==
  ASSUME NEW z \in Lengths, NEW f \in 1 .. Len(z)
  PROVE  Size(z, f) \in Nat /\ Size(z, f) > HeaderSize /\ HeaderSize \in Nat /\ HeaderSize > 0
<1>1. z[f] \in Nat \ {0}
  BY ElementOfSeq DEF Lengths
<1>2. QED  BY <1>1, SizesAssumption DEF Size

\* Frames sent later change nothing about a stream.
LEMMA ChainGrows ==
  ASSUME NEW z \in Lengths, NEW n \in Nat \ {0}, NEW s, Chain(z, s)
  PROVE  /\ Chain(Append(z, n), s)
         /\ \A f \in 1 .. Len(z) : Size(Append(z, n), f) = Size(z, f)
<1> DEFINE y == Append(z, n)
<1>1. /\ Len(z) \in Nat /\ Len(y) = Len(z) + 1
      /\ \A f \in 1 .. Len(z) : y[f] = z[f]
  BY AppendProperties, LenProperties DEF Lengths
<1> HIDE DEF y
<1>2. \A f \in 1 .. Len(z) : Size(y, f) = Size(z, f)
  BY <1>1 DEF Size
<1>3. Chain(y, s)
  BY <1>1, <1>2 DEF Chain
<1>4. QED  BY <1>2, <1>3 DEF y

\* Where a stream holds one byte of a frame it holds the others in their places.
LEMMA ChainClosed ==
  ASSUME NEW z, NEW s, Chain(z, s), NEW i \in 1 .. Len(s), NEW k \in 1 .. Len(s),
         NEW a \in 1 .. Size(z, s[i].frame), k = i + a - s[i].at
  PROVE  s[k].frame = s[i].frame /\ s[k].at = a
BY DEF Chain

\* Part of a frame is a stream.
LEMMA ChainOfSlice ==
  ASSUME NEW z \in Lengths, NEW f \in 1 .. Len(z), NEW o \in Nat, NEW r \in Nat,
         o + r <= Size(z, f)
  PROVE  Chain(z, Slice(f, o, r))
<1> DEFINE s == Slice(f, o, r)
<1>1. /\ Len(s) = r
      /\ \A i \in 1 .. r : s[i].frame = f /\ s[i].at = o + i
  BY SliceType, LenProperties DEF Slice, Lengths
<1>2. Size(z, f) \in Nat
  BY SizeIs
<1> HIDE DEF s
<1>3. ASSUME NEW i \in 1 .. r
      PROVE  s[i].frame \in 1 .. Len(z) /\ s[i].at \in 1 .. Size(z, s[i].frame)
  <2>1. s[i].frame = f /\ s[i].at = o + i
    BY <1>1, <1>3
  <2>2. o + i \in 1 .. Size(z, f)
    BY <1>2, <1>3
  <2>3. QED  BY <2>1, <2>2
<1>4. ASSUME NEW i \in 1 .. r, NEW k \in 1 .. r, i < k PROVE Precedes(s[i], s[k])
  <2>1. s[i].frame = f /\ s[k].frame = f /\ s[i].at = o + i /\ s[k].at = o + k
    BY <1>1, <1>4
  <2>2. o + i < o + k
    BY <1>4
  <2>3. QED  BY <2>1, <2>2 DEF Precedes
<1>5. ASSUME NEW i \in 1 .. r, NEW a \in 1 .. Size(z, s[i].frame), i + a - s[i].at \in 1 .. r
      PROVE  s[i + a - s[i].at].frame = s[i].frame /\ s[i + a - s[i].at].at = a
  <2>1. s[i].frame = f /\ s[i].at = o + i
    BY <1>1, <1>5
  <2>2. PICK k \in 1 .. r : k = i + a - s[i].at
    BY <1>5
  <2>3. a \in 1 .. Size(z, f)
    BY <1>5, <2>1
  <2>4. o + k = a
    BY <1>2, <2>1, <2>2, <2>3
  <2>5. s[k].frame = f /\ s[k].at = a
    BY <1>1, <2>4
  <2>6. QED  BY <2>1, <2>2, <2>5
<1>6. Chain(z, s)
  BY <1>1, <1>3, <1>4, <1>5 DEF Chain
<1>7. QED  BY <1>6 DEF s

\* Neighbours in a stream.
LEMMA ChainContinues ==
  ASSUME NEW z \in Lengths, NEW s \in Seq(Byte), Chain(z, s), NEW n \in 1 .. Len(s),
         n + 1 <= Len(s)
  PROVE  Continues(z, s[n], s[n + 1])
<1>1. Len(s) \in Nat /\ n + 1 \in 1 .. Len(s)
  BY LenProperties
<1> DEFINE b == s[n]
           c == s[n + 1]
<1>2. /\ b.frame \in 1 .. Len(z) /\ b.at \in 1 .. Size(z, b.frame) /\ Size(z, b.frame) \in Nat
      /\ c.frame \in 1 .. Len(z) /\ c.at \in 1 .. Size(z, c.frame) /\ Size(z, c.frame) \in Nat
      /\ Precedes(b, c)
  BY <1>1, SizeIs DEF Chain
<1>3. CASE b.at < Size(z, b.frame)
  <2>1. b.at + 1 \in 1 .. Size(z, b.frame) /\ n + (b.at + 1) - b.at = n + 1
    BY <1>2, <1>3
  <2>2. c.frame = b.frame /\ c.at = b.at + 1
    BY <1>1, <2>1, ChainClosed
  <2>3. ~Complete(z, b)
    BY <1>2, <1>3 DEF Complete
  <2>4. QED  BY <2>2, <2>3 DEF Continues
<1>4. CASE b.at = Size(z, b.frame)
  <2>1. c.at = 1
    <3> SUFFICES ASSUME c.at # 1 PROVE FALSE
      OBVIOUS
    <3>1. c.at - 1 \in 1 .. Size(z, c.frame) /\ n = (n + 1) + (c.at - 1) - c.at
      BY <1>2
    <3>2. b.frame = c.frame /\ b.at = c.at - 1
      BY <1>1, <3>1, ChainClosed
    <3>3. QED  BY <1>2, <1>4, <3>2
  <2>2. b.frame < c.frame
    BY <1>2, <1>4, <2>1 DEF Precedes
  <2>3. QED  BY <1>4, <2>1, <2>2 DEF Continues, Complete
<1>5. QED  BY <1>2, <1>3, <1>4

\* A stretch of a stream is a stream.
LEMMA ChainOfPart ==
  ASSUME NEW z \in Lengths, NEW s \in Seq(Byte), Chain(z, s),
         NEW m \in Nat, NEW n \in Nat, m + n <= Len(s)
  PROVE  /\ SubSeq(s, m + 1, m + n) \in Seq(Byte)
         /\ Len(SubSeq(s, m + 1, m + n)) = n
         /\ \A i \in 1 .. n : SubSeq(s, m + 1, m + n)[i] = s[m + i]
         /\ Chain(z, SubSeq(s, m + 1, m + n))
<1> DEFINE t == SubSeq(s, m + 1, m + n)
<1>1. Len(s) \in Nat
  BY LenProperties
<1>2. \A i \in m + 1 .. m + n : s[i] \in Byte
  BY <1>1, ElementOfSeq
<1>3. /\ t \in Seq(Byte) /\ Len(t) = IF m + 1 <= m + n THEN m + n - (m + 1) + 1 ELSE 0
      /\ \A i \in 1 .. m + n - (m + 1) + 1 : t[i] = s[m + 1 + i - 1]
  BY <1>2, SubSeqProperties
<1>4. Len(t) = n /\ \A i \in 1 .. n : t[i] = s[m + i]
  BY <1>3
<1> HIDE DEF t
<1>5. Chain(z, t)
  <2>1. ASSUME NEW i \in 1 .. n
        PROVE  /\ m + i \in 1 .. Len(s) /\ t[i] = s[m + i]
               /\ t[i].frame \in 1 .. Len(z) /\ t[i].at \in 1 .. Size(z, t[i].frame)
    <3>1. m + i \in 1 .. Len(s) /\ t[i] = s[m + i]
      BY <1>1, <1>4
    <3>2. s[m + i].frame \in 1 .. Len(z) /\ s[m + i].at \in 1 .. Size(z, s[m + i].frame)
      BY <3>1 DEF Chain
    <3>3. QED  BY <3>1, <3>2
  <2>2. ASSUME NEW i \in 1 .. n, NEW k \in 1 .. n, i < k PROVE Precedes(t[i], t[k])
    <3>1. m + i < m + k
      BY <2>2
    <3>2. Precedes(s[m + i], s[m + k])
      BY <2>1, <3>1 DEF Chain
    <3>3. QED  BY <2>1, <3>2
  <2>3. ASSUME NEW i \in 1 .. n, NEW a \in 1 .. Size(z, t[i].frame),
               i + a - t[i].at \in 1 .. n
        PROVE  t[i + a - t[i].at].frame = t[i].frame /\ t[i + a - t[i].at].at = a
    <3> DEFINE k == i + a - t[i].at
    <3>1. t[i].at \in Int /\ a \in Int
      BY <2>1, SizeIs
    <3>2. k \in 1 .. n /\ m + k = (m + i) + a - s[m + i].at
      BY <2>1, <2>3, <3>1
    <3> HIDE DEF k
    <3>3. s[m + k].frame = s[m + i].frame /\ s[m + k].at = a
      <4>1. /\ m + i \in 1 .. Len(s) /\ m + k \in 1 .. Len(s)
            /\ a \in 1 .. Size(z, s[m + i].frame)
        BY <2>1, <3>2
      <4>2. QED  BY <4>1, <3>2, ChainClosed
    <3>4. t[k].frame = t[i].frame /\ t[k].at = a
      BY <2>1, <3>2, <3>3
    <3>5. QED  BY <3>4 DEF k
  <2>4. QED  BY <1>4, <2>1, <2>2, <2>3 DEF Chain
<1>6. QED  BY <1>3, <1>4, <1>5 DEF t

LEMMA ChainOfStretch ==
  ASSUME NEW z \in Lengths, NEW s \in Seq(Byte), Chain(z, s),
         NEW l \in Nat \ {0}, NEW h \in Nat, l <= h + 1, h <= Len(s)
  PROVE  /\ SubSeq(s, l, h) \in Seq(Byte)
         /\ Len(SubSeq(s, l, h)) = h + 1 - l
         /\ \A i \in 1 .. h + 1 - l : SubSeq(s, l, h)[i] = s[l - 1 + i]
         /\ Chain(z, SubSeq(s, l, h))
<1> DEFINE m == l - 1
           n == h + 1 - l
<1>1. m \in Nat /\ n \in Nat /\ m + 1 = l /\ m + n = h /\ m + n <= Len(s)
  OBVIOUS
<1> HIDE DEF m, n
<1>2. /\ SubSeq(s, m + 1, m + n) \in Seq(Byte)
      /\ Len(SubSeq(s, m + 1, m + n)) = n
      /\ \A i \in 1 .. n : SubSeq(s, m + 1, m + n)[i] = s[m + i]
      /\ Chain(z, SubSeq(s, m + 1, m + n))
  BY <1>1, ChainOfPart
<1>3. /\ SubSeq(s, l, h) \in Seq(Byte)
      /\ Len(SubSeq(s, l, h)) = n
      /\ \A i \in 1 .. n : SubSeq(s, l, h)[i] = s[m + i]
      /\ Chain(z, SubSeq(s, l, h))
  BY <1>1, <1>2
<1>4. QED  BY <1>3 DEF m, n

\* What follows b can be cut in two anywhere.
LEMMA FollowsCut ==
  ASSUME NEW z \in Lengths, NEW b, NEW s \in Seq(Byte), Follows(z, b, s), NEW n \in 0 .. Len(s)
  PROVE  LET p == SubSeq(s, 1, n)
             q == SubSeq(s, n + 1, Len(s))
         IN  /\ p \in Seq(Byte) /\ q \in Seq(Byte) /\ Len(p) = n /\ Len(q) = Len(s) - n
             /\ Follows(z, b, p) /\ Follows(z, After(b, p), q)
             /\ After(After(b, p), q) = After(b, s)
<1> DEFINE p == SubSeq(s, 1, n)
           q == SubSeq(s, n + 1, Len(s))
<1>1. Len(s) \in Nat /\ n \in Nat /\ Len(s) - n \in Nat
  BY LenProperties
<1>2. /\ p \in Seq(Byte) /\ Len(p) = n /\ Chain(z, p) /\ \A i \in 1 .. n : p[i] = s[i]
  <2>1. Chain(z, s) /\ 1 \in Nat \ {0} /\ 1 <= n + 1 /\ n <= Len(s)
    BY <1>1 DEF Follows
  <2>2. /\ p \in Seq(Byte) /\ Len(p) = n + 1 - 1 /\ Chain(z, p)
        /\ \A i \in 1 .. n + 1 - 1 : p[i] = s[1 - 1 + i]
    BY <1>1, <2>1, ChainOfStretch
  <2> HIDE DEF p
  <2>3. QED  BY <1>1, <2>2
<1>3. /\ q \in Seq(Byte) /\ Len(q) = Len(s) - n /\ Chain(z, q)
      /\ \A i \in 1 .. Len(s) - n : q[i] = s[n + i]
  <2>1. /\ Chain(z, s) /\ n + 1 \in Nat \ {0} /\ n + 1 <= Len(s) + 1
        /\ Len(s) <= Len(s) /\ Len(s) + 1 - (n + 1) = Len(s) - n
        /\ \A i \in Nat : n + 1 - 1 + i = n + i
    BY <1>1 DEF Follows
  <2>2. /\ q \in Seq(Byte) /\ Len(q) = Len(s) + 1 - (n + 1) /\ Chain(z, q)
        /\ \A i \in 1 .. Len(s) + 1 - (n + 1) : q[i] = s[n + 1 - 1 + i]
    BY <1>1, <2>1, ChainOfStretch
  <2> HIDE DEF q
  <2>3. QED  BY <1>1, <2>1, <2>2
<1> HIDE DEF p, q
<1>4. /\ p = << >> <=> n = 0
      /\ q = << >> <=> n = Len(s)
      /\ s = << >> <=> Len(s) = 0
  BY <1>1, <1>2, <1>3, EmptySeq
<1>5. Follows(z, b, p)
  BY <1>1, <1>2, <1>4 DEF Follows
<1>6. Follows(z, After(b, p), q)
  <2> SUFFICES ASSUME q # << >> PROVE Continues(z, After(b, p), q[1])
    BY <1>3 DEF Follows
  <2>1. q[1] = s[n + 1] /\ n + 1 <= Len(s)
    BY <1>1, <1>3, <1>4
  <2>2. CASE n = 0
    BY <2>1, <2>2, <1>1, <1>4 DEF After, Follows
  <2>3. CASE n # 0
    <3>1. After(b, p) = s[n] /\ n \in 1 .. Len(s)
      BY <2>3, <1>1, <1>2, <1>4 DEF After
    <3>2. QED  BY <2>1, <3>1, ChainContinues DEF Follows
  <2>4. QED  BY <2>2, <2>3
<1>7. After(After(b, p), q) = After(b, s)
  <2>1. CASE n = Len(s)
    BY <2>1, <1>1, <1>2, <1>4 DEF After
  <2>2. CASE n # Len(s)
    <3>1. q[Len(q)] = s[n + Len(q)] /\ n + Len(q) = Len(s) /\ s # << >>
      BY <2>2, <1>1, <1>3, <1>4
    <3>2. QED  BY <2>2, <3>1, <1>4 DEF After
  <2>3. QED  BY <2>1, <2>2
<1>8. QED  BY <1>2, <1>3, <1>5, <1>6, <1>7 DEF p, q

LEMMA PrecedesTransitive ==
  ASSUME NEW b, NEW c, NEW d, Precedes(b, c), Precedes(c, d),
         b.frame \in Nat, c.frame \in Nat, d.frame \in Nat,
         b.at \in Nat, c.at \in Nat, d.at \in Nat
  PROVE  Precedes(b, d)
BY DEF Precedes

\* Two streams of which the second follows the first are one.
LEMMA FollowsJoin ==
  ASSUME NEW z \in Lengths, NEW b, NEW s \in Seq(Byte), NEW t \in Seq(Byte),
         Follows(z, b, s), Follows(z, After(b, s), t)
  PROVE  Follows(z, b, s \o t) /\ After(b, s \o t) = After(After(b, s), t)
<1> DEFINE u == s \o t
           m == Len(s)
           n == Len(t)
<1>1. m \in Nat /\ n \in Nat /\ (s = << >> <=> m = 0) /\ (t = << >> <=> n = 0)
  BY LenProperties, EmptySeq
<1>2. /\ u \in Seq(Byte) /\ Len(u) = m + n
      /\ \A i \in 1 .. m : u[i] = s[i]
      /\ \A i \in 1 .. n : u[m + i] = t[i]
  <2>1. /\ u \in Seq(Byte) /\ Len(u) = m + n
        /\ \A i \in 1 .. m + n : u[i] = IF i <= m THEN s[i] ELSE t[i - m]
    BY ConcatProperties
  <2>2. ASSUME NEW i \in 1 .. n PROVE u[m + i] = t[i]
    <3>1. m + i \in 1 .. m + n /\ ~(m + i <= m) /\ (m + i) - m = i
      BY <1>1
    <3>2. QED  BY <2>1, <3>1
  <2>3. QED  BY <1>1, <2>1, <2>2
<1>3. \A i \in 1 .. m + n : i \in 1 .. m \/ \E j \in 1 .. n : i = m + j
  <2> SUFFICES ASSUME NEW i \in 1 .. m + n, i \notin 1 .. m
               PROVE  \E j \in 1 .. n : i = m + j
    OBVIOUS
  <2>1. i - m \in 1 .. n /\ i = m + (i - m)
    BY <1>1
  <2>2. QED  BY <2>1
<1> HIDE DEF u, m, n
<1>4. /\ Chain(z, s) /\ Chain(z, t)
      /\ m # 0 /\ n # 0 => Continues(z, s[m], t[1])
  BY <1>1 DEF Follows, After, m
<1>5. ASSUME NEW i \in 1 .. m
      PROVE  /\ u[i] = s[i] /\ s[i].frame \in 1 .. Len(z) /\ s[i].frame \in Nat \ {0}
             /\ s[i].at \in 1 .. Size(z, s[i].frame) /\ s[i].at \in Nat \ {0}
             /\ Size(z, s[i].frame) \in Nat
  BY <1>2, <1>4, SizeIs DEF Chain, m
<1>6. ASSUME NEW i \in 1 .. n
      PROVE  /\ u[m + i] = t[i] /\ t[i].frame \in 1 .. Len(z) /\ t[i].frame \in Nat \ {0}
             /\ t[i].at \in 1 .. Size(z, t[i].frame) /\ t[i].at \in Nat \ {0}
             /\ Size(z, t[i].frame) \in Nat
  BY <1>2, <1>4, SizeIs DEF Chain, n
<1>7. ASSUME NEW i \in 1 .. m + n
      PROVE  u[i].frame \in 1 .. Len(z) /\ u[i].at \in 1 .. Size(z, u[i].frame)
  BY <1>3, <1>5, <1>6
<1>8. ASSUME NEW i \in 1 .. m, NEW k \in 1 .. n PROVE Precedes(s[i], t[k])
  <2>1. m # 0 /\ n # 0 /\ m \in 1 .. m /\ 1 \in 1 .. n
    BY <1>1
  <2>2. Continues(z, s[m], t[1])
    BY <2>1, <1>4
  <2>3. i = m \/ Precedes(s[i], s[m])
    BY <1>1, <1>4 DEF Chain, m
  <2>4. k = 1 \/ Precedes(t[1], t[k])
    BY <1>1, <1>4, <2>1 DEF Chain, n
  <2>5. /\ s[m].frame \in Nat \ {0} /\ s[m].at \in Nat
        /\ s[i].frame \in Nat /\ s[i].at \in Nat
    BY <2>1, <1>5
  <2>6. /\ t[1].frame \in Nat /\ t[1].at \in Nat
        /\ t[k].frame \in Nat /\ t[k].at \in Nat
    BY <2>1, <1>6
  <2>7. Precedes(s[m], t[1])
    BY <2>2, <2>5, <2>6 DEF Continues, Precedes
  <2>8. Precedes(s[i], t[1])
    <3>1. CASE i = m
      BY <3>1, <2>7
    <3>2. CASE i # m
      BY <3>2, <2>3, <2>5, <2>6, <2>7, PrecedesTransitive
    <3>3. QED  BY <3>1, <3>2
  <2>9. CASE k = 1
    BY <2>9, <2>8
  <2>10. CASE k # 1
    BY <2>10, <2>4, <2>5, <2>6, <2>8, PrecedesTransitive
  <2>11. QED  BY <2>9, <2>10
<1>9. ASSUME NEW i \in 1 .. m + n, NEW k \in 1 .. m + n, i < k PROVE Precedes(u[i], u[k])
  <2>1. CASE k \in 1 .. m
    <3>1. i \in 1 .. m
      BY <1>1, <1>9, <2>1
    <3>2. QED  BY <3>1, <2>1, <1>9, <1>4, <1>5 DEF Chain, m
  <2>2. ASSUME NEW l \in 1 .. n, k = m + l PROVE Precedes(u[i], u[k])
    <3>1. CASE i \in 1 .. m
      BY <3>1, <2>2, <1>5, <1>6, <1>8
    <3>2. ASSUME NEW j \in 1 .. n, i = m + j PROVE Precedes(u[i], u[k])
      <4>1. u[i] = t[j] /\ u[k] = t[l]
        BY <3>2, <2>2, <1>6
      <4>2. j < l
        <5>1. m + j < m + l
          BY <3>2, <2>2, <1>9
        <5>2. QED  BY <5>1, <1>1
      <4>3. QED  BY <4>1, <4>2, <1>4 DEF Chain, n
    <3>3. QED  BY <3>1, <3>2, <1>3
  <2>3. QED  BY <2>1, <2>2, <1>3
<1>10. ASSUME NEW i \in 1 .. m + n, NEW a \in 1 .. Size(z, u[i].frame),
              NEW k \in 1 .. m + n, k = i + a - u[i].at
       PROVE  u[k].frame = u[i].frame /\ u[k].at = a
  <2>1. CASE i \in 1 .. m
    <3> DEFINE f == s[i].frame
               x == s[i].at
               y == Size(z, f)
               e == x + (m - i)
    <3>1. u[i] = s[i] /\ f \in Nat \ {0} /\ y \in Nat /\ x \in Nat \ {0} /\ x \in 1 .. y
      BY <2>1, <1>5
    <3>2. a \in 1 .. y /\ k = i + a - x
      BY <3>1, <1>10
    <3>3. CASE k \in 1 .. m
      <4>1. s[k].frame = f /\ s[k].at = a
        BY <2>1, <3>2, <3>3, <1>4, ChainClosed DEF m
      <4>2. QED  BY <3>1, <3>3, <4>1, <1>5
    <3>4. ASSUME NEW l \in 1 .. n, k = m + l
          PROVE  u[k].frame = u[i].frame /\ u[k].at = a
      <4>1. 1 \in 1 .. n /\ m # 0 /\ n # 0 /\ m \in 1 .. m
        BY <2>1, <1>1
      <4>2. /\ e \in 1 .. y /\ e < a /\ m = i + e - x
        <5>1. m + l = i + a - x
          BY <3>2, <3>4
        <5> HIDE DEF f, x, y
        <5>2. QED  BY <5>1, <2>1, <3>1, <3>2, <1>1
      <4> HIDE DEF e
      <4>3. s[m].frame = f /\ s[m].at = e
        BY <2>1, <4>1, <4>2, <1>4, ChainClosed DEF m
      <4>4. t[1].frame = f /\ t[1].at = e + 1
        <5>1. ~Complete(z, s[m])
          BY <3>1, <3>2, <4>2, <4>3 DEF Complete
        <5>2. QED  BY <5>1, <4>1, <4>3, <1>4 DEF Continues
      <4>5. l = 1 + a - t[1].at /\ a \in 1 .. Size(z, t[1].frame)
        <5>1. m + l = i + a - x /\ Size(z, t[1].frame) = y
          BY <3>2, <3>4, <4>4
        <5> HIDE DEF f, x, y
        <5>2. QED  BY <5>1, <2>1, <3>1, <3>2, <4>2, <4>4, <1>1
      <4>6. t[l].frame = f /\ t[l].at = a
        BY <4>1, <4>4, <4>5, <1>4, ChainClosed DEF n
      <4>7. QED  BY <3>1, <3>4, <4>6, <1>6
    <3>5. QED  BY <3>3, <3>4, <1>3
  <2>2. ASSUME NEW j \in 1 .. n, i = m + j
        PROVE  u[k].frame = u[i].frame /\ u[k].at = a
    <3> DEFINE f == t[j].frame
               x == t[j].at
               y == Size(z, f)
               e == x - (j - 1)
    <3>1. u[i] = t[j] /\ f \in Nat \ {0} /\ y \in Nat /\ x \in Nat \ {0} /\ x \in 1 .. y
      BY <2>2, <1>6
    <3>2. a \in 1 .. y /\ k = (m + j) + a - x
      BY <2>2, <3>1, <1>10
    <3>3. CASE k \in 1 .. m
      <4>1. m \in 1 .. m /\ m # 0 /\ n # 0 /\ 1 \in 1 .. n
        BY <3>3, <1>1
      <4>2. /\ e \in 1 .. y /\ a < e /\ 1 = j + e - x /\ e # 1
        <5> HIDE DEF f, x, y
        <5>1. QED  BY <3>1, <3>2, <3>3, <1>1
      <4> HIDE DEF e
      <4>3. t[1].frame = f /\ t[1].at = e
        BY <4>1, <4>2, <1>4, ChainClosed DEF n
      <4>4. s[m].frame = f /\ e = s[m].at + 1 /\ s[m].at \in Nat
        BY <4>1, <4>2, <4>3, <1>4, <1>5 DEF Continues
      <4>5. k = m + a - s[m].at /\ a \in 1 .. Size(z, s[m].frame)
        <5> DEFINE w == s[m].at
        <5>1. Size(z, s[m].frame) = y /\ w \in Nat /\ e = w + 1
          BY <4>4
        <5> HIDE DEF f, x, y, w
        <5>2. k = m + a - w /\ a \in 1 .. y
          BY <5>1, <3>1, <3>2, <4>2, <1>1
        <5>3. QED  BY <5>1, <5>2 DEF w
      <4>6. s[k].frame = f /\ s[k].at = a
        <5>1. s[k].frame = s[m].frame /\ s[k].at = a
          BY <3>3, <4>1, <4>5, <1>4, ChainClosed DEF m
        <5>2. QED  BY <5>1, <4>4
      <4>7. QED  BY <3>1, <3>3, <4>6, <1>5
    <3>4. ASSUME NEW l \in 1 .. n, k = m + l
          PROVE  u[k].frame = u[i].frame /\ u[k].at = a
      <4>1. l = j + a - x
        <5> HIDE DEF f, x, y
        <5>1. QED  BY <3>1, <3>2, <3>4, <1>1
      <4>2. t[l].frame = f /\ t[l].at = a
        BY <3>2, <4>1, <1>4, ChainClosed DEF n
      <4>3. QED  BY <3>1, <3>4, <4>2, <1>6
    <3>5. QED  BY <3>3, <3>4, <1>3
  <2>3. QED  BY <2>1, <2>2, <1>3
<1>11. Chain(z, u)
  <2>1. ASSUME NEW i \in 1 .. Len(u), NEW a \in 1 .. Size(z, u[i].frame),
               i + a - u[i].at \in 1 .. Len(u)
        PROVE  u[i + a - u[i].at].frame = u[i].frame /\ u[i + a - u[i].at].at = a
    <3>1. PICK k : k = i + a - u[i].at
      OBVIOUS
    <3>2. k \in 1 .. m + n /\ i \in 1 .. m + n
      BY <3>1, <2>1, <1>2
    <3>3. u[k].frame = u[i].frame /\ u[k].at = a
      BY <3>1, <3>2, <1>10
    <3>4. QED  BY <3>1, <3>3
  <2>2. \A i \in 1 .. Len(u) : u[i].frame \in 1 .. Len(z) /\ u[i].at \in 1 .. Size(z, u[i].frame)
    BY <1>2, <1>7
  <2>3. \A i, k \in 1 .. Len(u) : i < k => Precedes(u[i], u[k])
    BY <1>2, <1>9
  <2>4. QED  BY <2>1, <2>2, <2>3 DEF Chain
<1>12. u # << >> => Continues(z, b, u[1])
  <2>1. CASE m = 0
    <3>1. After(b, s) = b /\ (u # << >> => u[1] = t[1] /\ t # << >>)
      BY <2>1, <1>1, <1>2, EmptySeq DEF After
    <3>2. QED  BY <3>1 DEF Follows
  <2>2. CASE m # 0
    <3>1. s # << >> /\ u[1] = s[1]
      BY <2>2, <1>1, <1>2
    <3>2. QED  BY <3>1 DEF Follows
  <2>3. QED  BY <2>1, <2>2
<1>13. After(b, u) = After(After(b, s), t)
  <2>1. CASE n = 0
    <3>1. t = << >> /\ Len(u) = m /\ (u = << >> <=> s = << >>)
      BY <2>1, <1>1, <1>2, EmptySeq
    <3>2. s # << >> => m \in 1 .. m
      BY <1>1
    <3>3. QED  BY <3>1, <3>2, <1>2 DEF After, m
  <2>2. CASE n # 0
    <3>1. t # << >> /\ u # << >> /\ u[m + n] = t[n]
      BY <2>2, <1>1, <1>2, EmptySeq
    <3>2. QED  BY <3>1, <1>2 DEF After, n
  <2>3. QED  BY <2>1, <2>2
<1>14. QED  BY <1>11, <1>12, <1>13 DEF u, Follows

------------------------------------------------------------------------------
\* What the read task holds after some bytes of a frame.

\* A read task that has taken the first b.at bytes of frame b.frame.
TaskAt(z, b) ==
  [size   |-> Slice(b.frame, 0, Least(b.at, HeaderSize)),
   length |-> IF b.at < HeaderSize THEN 0 ELSE z[b.frame],
   data   |-> IF b.at < HeaderSize THEN << >>
              ELSE Slice(b.frame, HeaderSize, b.at - HeaderSize)]

\* Slices of one frame that touch are a slice.
Join(f, o, r, q) == Slice(f, o, r) \o Slice(f, o + r, q) = Slice(f, o, r + q)

LEMMA SliceJoin ==
  ASSUME NEW f \in Nat \ {0}, NEW o \in Nat, NEW r \in Nat, NEW q \in Nat
  PROVE  Join(f, o, r, q)
<1> DEFINE p == o + r
           s == Slice(f, o, r)
           t == Slice(f, p, q)
           u == Slice(f, o, r + q)
<1>1. p \in Nat
  OBVIOUS
<1>2. /\ \A i \in 1 .. r : s[i] = [frame |-> f, at |-> o + i]
      /\ \A i \in 1 .. q : t[i] = [frame |-> f, at |-> p + i]
      /\ \A i \in 1 .. r + q : u[i] = [frame |-> f, at |-> o + i]
  BY DEF Slice
<1> HIDE DEF p
<1>3. /\ s \in Seq(Byte) /\ Len(s) = r /\ t \in Seq(Byte) /\ Len(t) = q
      /\ u \in Seq(Byte) /\ Len(u) = r + q
  BY <1>1, SliceType
<1> HIDE DEF s, t, u
<1>4. /\ s \o t \in Seq(Byte) /\ Len(s \o t) = r + q
      /\ \A i \in 1 .. r + q : (s \o t)[i] = IF i <= r THEN s[i] ELSE t[i - r]
  BY <1>3, ConcatProperties
<1>5. ASSUME NEW i \in 1 .. r + q PROVE (s \o t)[i] = u[i]
  <2>1. CASE i <= r
    <3>1. i \in 1 .. r
      BY <2>1
    <3>2. QED  BY <3>1, <2>1, <1>2, <1>4
  <2>2. CASE ~(i <= r)
    <3>1. i - r \in 1 .. q /\ p + (i - r) = o + i
      BY <2>2 DEF p
    <3>2. QED  BY <3>1, <2>2, <1>2, <1>4
  <2>3. QED  BY <2>1, <2>2
<1>6. s \o t = u
  BY <1>3, <1>4, <1>5, SeqEqual
<1>7. QED  BY <1>6 DEF p, s, t, u, Join

LEMMA SliceFromStart ==
  ASSUME NEW f \in Nat \ {0}, NEW r \in Nat, NEW q \in Nat
  PROVE  Slice(f, 0, r) \o Slice(f, r, q) = Slice(f, 0, r + q)
<1>1. Slice(f, 0, r) \o Slice(f, 0 + r, q) = Slice(f, 0, r + q)
  <2>1. 0 \in Nat
    OBVIOUS
  <2>2. Join(f, 0, r, q)
    BY <2>1, SliceJoin
  <2>3. QED  BY <2>2 DEF Join
<1>2. 0 + r = r
  OBVIOUS
<1>3. QED  BY <1>1, <1>2

\* A stream that begins behind the first j bytes of frame g.
Resumes(z, s, g, j) ==
  /\ Chain(z, s) /\ g \in 1 .. Len(z)
  /\ s # << >> /\ s[1].frame = g /\ s[1].at = j + 1

\* Bytes l to h of s are bytes o + 1 to o + r of frame g.
Stretch(s, l, h, g, o, r) == SubSeq(s, l, h) = Slice(g, o, r)

\* As many as a and b allow.
Allowed(n, a, b) == n = Least(a, b)

\* Read on s takes task to next and uses n bytes.
Reads(task, s, length, next, n) ==
  ReadTaskRead(task, s, length) = [task |-> next, used |-> n]

\* The next bytes of a frame, where a stream holds them.
LEMMA StretchOfFrame ==
  ASSUME NEW z \in Lengths, NEW s \in Seq(Byte), NEW g \in Nat \ {0}, NEW j \in Nat,
         Resumes(z, s, g, j),
         NEW l \in Nat \ {0}, NEW h \in Nat,
         l <= h + 1, h <= Len(s), j + h <= Size(z, g)
  PROVE  Stretch(s, l, h, g, j + (l - 1), h + 1 - l)
<1> DEFINE t == SubSeq(s, l, h)
           n == h + 1 - l
           o == j + (l - 1)
           u == Slice(g, o, n)
<1>1. Len(s) \in Nat \ {0} /\ n \in Nat /\ o \in Nat /\ Size(z, g) \in Nat
  <2>1. Len(s) \in Nat \ {0}
    BY EmptySeq DEF Resumes
  <2>2. Size(z, g) \in Nat
    BY SizeIs DEF Resumes
  <2>3. n \in Nat /\ o \in Nat
    OBVIOUS
  <2>4. QED  BY <2>1, <2>2, <2>3
<1>2. t \in Seq(Byte) /\ Len(t) = n /\ \A i \in 1 .. n : t[i] = s[l - 1 + i]
  <2>1. Chain(z, s)
    BY DEF Resumes
  <2>2. /\ SubSeq(s, l, h) \in Seq(Byte)
        /\ Len(SubSeq(s, l, h)) = h + 1 - l
        /\ \A i \in 1 .. h + 1 - l : SubSeq(s, l, h)[i] = s[l - 1 + i]
        /\ Chain(z, SubSeq(s, l, h))
    <3> HIDE DEF t, n, o, u
    <3>1. QED  BY <2>1, ChainOfStretch
  <2>3. QED  BY <2>2
<1>3. u \in Seq(Byte) /\ Len(u) = n /\ \A i \in 1 .. n : u[i] = [frame |-> g, at |-> o + i]
  <2>1. u \in Seq(Byte) /\ Len(u) = n
    BY <1>1, SliceType
  <2>2. \A i \in 1 .. n : u[i] = [frame |-> g, at |-> o + i]
    BY DEF Slice
  <2>3. QED  BY <2>1, <2>2
<1>4. ASSUME NEW k \in 1 .. h PROVE s[k] = [frame |-> g, at |-> j + k]
  <2>1. k \in 1 .. Len(s) /\ 1 \in 1 .. Len(s)
    BY <1>1
  <2>2. j + k \in 1 .. Size(z, g) /\ k = 1 + (j + k) - (j + 1)
    BY <1>1
  <2>3. s[k].frame = g /\ s[k].at = j + k
    <3> DEFINE a == j + k
    <3>1. Chain(z, s) /\ a \in 1 .. Size(z, s[1].frame) /\ k = 1 + a - s[1].at
      BY <2>2 DEF Resumes
    <3> HIDE DEF a
    <3>2. s[k].frame = s[1].frame /\ s[k].at = a
      BY <2>1, <3>1, ChainClosed
    <3>3. QED  BY <3>2 DEF a, Resumes
  <2>4. s[k] \in Byte
    BY <2>1, ElementOfSeq
  <2>5. QED  BY <2>3, <2>4 DEF Byte
<1>5. ASSUME NEW i \in 1 .. n PROVE t[i] = u[i]
  <2>1. l - 1 + i \in 1 .. h /\ j + (l - 1 + i) = o + i
    BY <1>1
  <2>2. QED  BY <2>1, <1>2, <1>3, <1>4
<1> HIDE DEF t, u
<1>6. t = u
  BY <1>2, <1>3, <1>5, SeqEqual
<1>7. QED  BY <1>6 DEF t, u, Stretch

\* ReadTask::Read on a buffer that does not complete the prefix, on one that does,
\* and on one that goes on with the body.
LEMMA ReadsPrefix ==
  ASSUME NEW g \in Nat \ {0}, NEW j \in Nat, NEW s \in Seq(Byte), NEW k \in Nat, NEW length,
         k = Len(s), j + k < HeaderSize,
         Stretch(s, 1, k, g, j, k)
  PROVE  Reads([size |-> Slice(g, 0, j), length |-> 0, data |-> << >>], s, length,
               [size |-> Slice(g, 0, j + k), length |-> 0, data |-> << >>], k)
<1> DEFINE task == [size |-> Slice(g, 0, j), length |-> 0, data |-> << >>]
<1>1. Len(task.size) = j
  BY SliceType
<1>2. HeaderSize \in Nat \ {0}
  BY SizesAssumption
<1>3. Least(HeaderSize - Len(task.size), Len(s)) = k
  BY <1>1, <1>2 DEF Least
<1>4. /\ task.size \o SubSeq(s, 1, k) = Slice(g, 0, j + k)
      /\ Len(Slice(g, 0, j + k)) = j + k
  <2>1. Slice(g, 0, j) \o Slice(g, j, k) = Slice(g, 0, j + k)
    BY SliceFromStart
  <2>2. Len(Slice(g, 0, j + k)) = j + k
    BY SliceType
  <2>3. QED  BY <2>1, <2>2 DEF Stretch
<1>5. [task EXCEPT !.size = Slice(g, 0, j + k)]
        = [size |-> Slice(g, 0, j + k), length |-> 0, data |-> << >>]
  OBVIOUS
<1> HIDE DEF task
<1>6. ReadTaskRead(task, s, length)
        = [task |-> [task EXCEPT !.size = Slice(g, 0, j + k)], used |-> k]
  BY <1>3, <1>4, Zenon DEF ReadTaskRead
<1>7. QED  BY <1>5, <1>6 DEF task, Reads

LEMMA ReadsPrefixAndBody ==
  ASSUME NEW g \in Nat \ {0}, NEW j \in Nat, NEW s \in Seq(Byte), NEW k \in Nat \ {0},
         NEW d \in Nat, NEW m \in Nat,
         j + k = HeaderSize, k <= Len(s), Allowed(d, m, Len(s) - k),
         Stretch(s, 1, k, g, j, k), Stretch(s, k + 1, k + d, g, HeaderSize, d)
  PROVE  Reads([size |-> Slice(g, 0, j), length |-> 0, data |-> << >>], s, m,
               [size |-> Slice(g, 0, HeaderSize), length |-> m,
                data |-> Slice(g, HeaderSize, d)], k + d)
<1> DEFINE task == [size |-> Slice(g, 0, j), length |-> 0, data |-> << >>]
<1>1. Len(task.size) = j /\ task.data = << >> /\ Len(task.data) = 0
  BY SliceType, EmptySeq
<1>2. HeaderSize \in Nat \ {0} /\ Len(s) \in Nat
  BY SizesAssumption, LenProperties
<1>3. Least(HeaderSize - Len(task.size), Len(s)) = k /\ k # 0
  BY <1>1, <1>2 DEF Least
<1>4. /\ task.size \o SubSeq(s, 1, k) = Slice(g, 0, HeaderSize)
      /\ Len(Slice(g, 0, HeaderSize)) = HeaderSize
  <2>1. Slice(g, 0, j) \o Slice(g, j, k) = Slice(g, 0, j + k)
    BY SliceFromStart
  <2>2. Len(Slice(g, 0, HeaderSize)) = HeaderSize
    BY <1>2, SliceType
  <2>3. QED  BY <2>1, <2>2 DEF Stretch
<1>5. Least(m - Len(task.data), Len(s) - k) = d
  <2>1. m - Len(task.data) = m
    BY <1>1
  <2>2. QED  BY <2>1 DEF Allowed
<1>6. task.data \o SubSeq(s, k + 1, k + d) = Slice(g, HeaderSize, d)
  <2>1. Slice(g, HeaderSize, d) \in Seq(Byte)
    BY <1>2, SliceType
  <2>2. << >> \o Slice(g, HeaderSize, d) = Slice(g, HeaderSize, d)
    BY <2>1, ConcatEmptySeq
  <2>3. QED  BY <2>2 DEF Stretch
<1>7. ~(HeaderSize < HeaderSize)
  BY <1>2
<1> HIDE DEF task
<1>8. QED
  <2>1. ReadTaskRead(task, s, m)
          = [task |-> [size |-> Slice(g, 0, HeaderSize), length |-> m,
                       data |-> task.data \o SubSeq(s, k + 1, k + d)],
             used |-> k + d]
    BY <1>3, <1>4, <1>5, <1>7, Zenon DEF ReadTaskRead
  <2>2. QED  BY <2>1, <1>6 DEF task, Reads

LEMMA ReadsBody ==
  ASSUME NEW g \in Nat \ {0}, NEW o \in Nat, NEW s \in Seq(Byte), NEW m \in Nat,
         NEW d \in Nat, NEW length,
         Allowed(d, m - o, Len(s)),
         Stretch(s, 1, d, g, HeaderSize + o, d)
  PROVE  Reads([size |-> Slice(g, 0, HeaderSize), length |-> m,
                data |-> Slice(g, HeaderSize, o)], s, length,
               [size |-> Slice(g, 0, HeaderSize), length |-> m,
                data |-> Slice(g, HeaderSize, o + d)], d)
<1> DEFINE task == [size |-> Slice(g, 0, HeaderSize), length |-> m,
                    data |-> Slice(g, HeaderSize, o)]
<1>1. HeaderSize \in Nat \ {0} /\ Len(s) \in Nat
  BY SizesAssumption, LenProperties
<1>2. /\ task.size \in Seq(Byte) /\ Len(task.size) = HeaderSize /\ Len(task.data) = o
      /\ task.length = m
  BY <1>1, SliceType
<1>3. Least(HeaderSize - Len(task.size), Len(s)) = 0
  BY <1>1, <1>2 DEF Least
<1>4. task.size \o SubSeq(s, 1, 0) = task.size
  BY <1>2, SubSeqEmpty, ConcatEmptySeq
<1>5. Least(m - Len(task.data), Len(s) - 0) = d
  <2>1. m - Len(task.data) = m - o /\ Len(s) - 0 = Len(s)
    BY <1>1, <1>2
  <2>2. QED  BY <2>1 DEF Allowed
<1>6. task.data \o SubSeq(s, 0 + 1, 0 + d) = Slice(g, HeaderSize, o + d)
  <2>1. Slice(g, HeaderSize, o) \o Slice(g, HeaderSize + o, d) = Slice(g, HeaderSize, o + d)
    <3>1. HeaderSize \in Nat
      BY <1>1
    <3>2. Join(g, HeaderSize, o, d)
      BY <3>1, SliceJoin
    <3>3. QED  BY <3>2 DEF Join
  <2>2. 0 + 1 = 1 /\ 0 + d = d
    OBVIOUS
  <2>3. QED  BY <2>1, <2>2 DEF Stretch
<1>7. ~(HeaderSize < HeaderSize) /\ 0 + d = d
  BY <1>1
<1> HIDE DEF task
<1>8. QED
  <2>1. ReadTaskRead(task, s, length)
          = [task |-> [size |-> task.size, length |-> m,
                       data |-> task.data \o SubSeq(s, 0 + 1, 0 + d)],
             used |-> 0 + d]
    BY <1>2, <1>3, <1>4, <1>5, <1>7, Zenon DEF ReadTaskRead
  <2>2. QED  BY <2>1, <1>6, <1>7 DEF task, Reads

LEMMA TaskAtPrefix ==
  ASSUME NEW z, NEW g, NEW x \in Nat, x < HeaderSize
  PROVE  TaskAt(z, [frame |-> g, at |-> x])
           = [size |-> Slice(g, 0, x), length |-> 0, data |-> << >>]
<1>1. HeaderSize \in Nat
  BY SizesAssumption
<1>2. Least(x, HeaderSize) = x
  BY <1>1 DEF Least
<1>3. QED  BY <1>2 DEF TaskAt

LEMMA TaskAtBody ==
  ASSUME NEW z, NEW g, NEW x \in Nat, HeaderSize <= x
  PROVE  TaskAt(z, [frame |-> g, at |-> x])
           = [size |-> Slice(g, 0, HeaderSize), length |-> z[g],
              data |-> Slice(g, HeaderSize, x - HeaderSize)]
<1>1. HeaderSize \in Nat
  BY SizesAssumption
<1>2. Least(x, HeaderSize) = HeaderSize /\ ~(x < HeaderSize)
  BY <1>1 DEF Least
<1>3. QED  BY <1>2 DEF TaskAt

\* ReadTask::Read takes what is left of the frame its task is in, as far as the
\* buffer holds it, and no byte of the next frame.
LEMMA ReadsOn ==
  ASSUME NEW z \in Lengths, NEW s \in Seq(Byte), NEW g \in Nat \ {0}, NEW j \in Nat,
         Resumes(z, s, g, j),
         NEW n \in Nat, n <= Len(s), j + n <= Size(z, g),
         n = Len(s) \/ j + n = Size(z, g),
         NEW length, j < HeaderSize /\ HeaderSize <= j + n => length = z[g]
  PROVE  Reads(TaskAt(z, [frame |-> g, at |-> j]), s, length,
               TaskAt(z, [frame |-> g, at |-> j + n]), n)
<1>1. PICK m \in Nat : m = z[g] /\ m # 0 /\ Size(z, g) = HeaderSize + m
  BY ElementOfSeq DEF Lengths, Resumes, Size
<1>2. Len(s) \in Nat /\ HeaderSize \in Nat /\ HeaderSize > 0 /\ j + n \in Nat
  BY LenProperties, SizesAssumption
<1>3. ASSUME NEW l \in Nat \ {0}, NEW h \in Nat, l <= h + 1, h <= n,
             NEW o \in Nat, NEW r \in Nat, o + 1 = j + l, r + l = h + 1
      PROVE  Stretch(s, l, h, g, o, r)
  <2>1. h <= Len(s) /\ j + h <= Size(z, g)
    BY <1>1, <1>2, <1>3
  <2>2. Stretch(s, l, h, g, j + (l - 1), h + 1 - l)
    BY <2>1, <1>3, StretchOfFrame, Zenon
  <2>3. j + (l - 1) = o /\ h + 1 - l = r
    BY <1>3
  <2>4. QED  BY <2>2, <2>3
<1>4. PICK x \in Nat : x = j + n
  BY <1>2
<1>5. ASSUME NEW h \in Nat, h <= n PROVE Stretch(s, 1, h, g, j, h)
  <2>1. 1 \in Nat \ {0} /\ 1 <= h + 1
    OBVIOUS
  <2>2. QED  BY <2>1, <1>3, <1>5, Zenon
<1>6. CASE j + n < HeaderSize
  <2>1. /\ TaskAt(z, [frame |-> g, at |-> j])
             = [size |-> Slice(g, 0, j), length |-> 0, data |-> << >>]
        /\ TaskAt(z, [frame |-> g, at |-> j + n])
             = [size |-> Slice(g, 0, j + n), length |-> 0, data |-> << >>]
    <3>1. j < HeaderSize
      BY <1>1, <1>2, <1>6
    <3>2. QED  BY <3>1, <1>2, <1>6, TaskAtPrefix, Zenon
  <2>2. n = Len(s)
    BY <1>1, <1>2, <1>6
  <2>3. Stretch(s, 1, n, g, j, n)
    BY <1>5
  <2>4. Reads([size |-> Slice(g, 0, j), length |-> 0, data |-> << >>], s, length,
              [size |-> Slice(g, 0, j + n), length |-> 0, data |-> << >>], n)
    BY <1>6, <2>2, <2>3, ReadsPrefix, Zenon
  <2>5. QED  BY <2>1, <2>4
<1>7. CASE j < HeaderSize /\ HeaderSize <= j + n
  <2>1. PICK k \in Nat \ {0}, d \in Nat :
          /\ k <= n /\ j + k = HeaderSize /\ k + d = n
          /\ k <= Len(s) /\ Allowed(d, m, Len(s) - k)
          /\ j + n - HeaderSize = d
    <3> DEFINE k == HeaderSize - j
               d == n - k
    <3>1. /\ k \in Nat \ {0} /\ d \in Nat
          /\ k <= n /\ j + k = HeaderSize /\ k + d = n
          /\ k <= Len(s) /\ Allowed(d, m, Len(s) - k)
          /\ j + n - HeaderSize = d
      BY <1>1, <1>2, <1>7 DEF Allowed, Least
    <3> HIDE DEF k, d
    <3>2. QED  BY <3>1
  <2>2. /\ TaskAt(z, [frame |-> g, at |-> j])
             = [size |-> Slice(g, 0, j), length |-> 0, data |-> << >>]
        /\ TaskAt(z, [frame |-> g, at |-> j + n])
             = [size |-> Slice(g, 0, HeaderSize), length |-> m,
                data |-> Slice(g, HeaderSize, d)]
    <3>1. TaskAt(z, [frame |-> g, at |-> j])
             = [size |-> Slice(g, 0, j), length |-> 0, data |-> << >>]
      BY <1>7, TaskAtPrefix, Zenon
    <3>2. HeaderSize <= x
      BY <1>7, <1>4
    <3>3. TaskAt(z, [frame |-> g, at |-> x])
             = [size |-> Slice(g, 0, HeaderSize), length |-> z[g],
                data |-> Slice(g, HeaderSize, x - HeaderSize)]
      BY <3>2, TaskAtBody, Zenon
    <3>4. QED  BY <3>1, <3>3, <2>1, <1>1, <1>4
  <2>3. Stretch(s, 1, k, g, j, k)
    BY <2>1, <1>5
  <2>4. Stretch(s, k + 1, k + d, g, HeaderSize, d)
    <3>1. /\ k + 1 \in Nat \ {0} /\ k + 1 <= n + 1 /\ n <= n /\ HeaderSize + 1 = j + (k + 1)
          /\ d + (k + 1) = n + 1
      BY <1>2, <2>1
    <3>2. Stretch(s, k + 1, n, g, HeaderSize, d)
      BY <1>2, <3>1, <1>3, Zenon
    <3>3. QED  BY <3>2, <2>1
  <2>5. Reads([size |-> Slice(g, 0, j), length |-> 0, data |-> << >>], s, m,
              [size |-> Slice(g, 0, HeaderSize), length |-> m,
               data |-> Slice(g, HeaderSize, d)], k + d)
    BY <2>1, <2>3, <2>4, ReadsPrefixAndBody, Zenon
  <2>6. length = m
    BY <1>1, <1>7
  <2>7. QED  BY <2>1, <2>2, <2>5, <2>6
<1>8. CASE HeaderSize <= j
  <2>1. PICK o \in Nat :
          /\ Allowed(n, m - o, Len(s))
          /\ HeaderSize + o = j /\ j - HeaderSize = o
          /\ j + n - HeaderSize = o + n /\ HeaderSize <= j + n
    <3> DEFINE o == j - HeaderSize
    <3>1. /\ o \in Nat /\ Allowed(n, m - o, Len(s))
          /\ HeaderSize + o = j /\ j - HeaderSize = o
          /\ j + n - HeaderSize = o + n /\ HeaderSize <= j + n
      BY <1>1, <1>2, <1>8 DEF Allowed, Least
    <3> HIDE DEF o
    <3>2. QED  BY <3>1
  <2>2. /\ TaskAt(z, [frame |-> g, at |-> j])
             = [size |-> Slice(g, 0, HeaderSize), length |-> z[g],
                data |-> Slice(g, HeaderSize, j - HeaderSize)]
        /\ TaskAt(z, [frame |-> g, at |-> x])
             = [size |-> Slice(g, 0, HeaderSize), length |-> z[g],
                data |-> Slice(g, HeaderSize, x - HeaderSize)]
    <3>1. HeaderSize <= x
      BY <2>1, <1>4
    <3>2. QED  BY <3>1, <1>8, TaskAtBody, Zenon
  <2>3. Stretch(s, 1, n, g, HeaderSize + o, n)
    BY <2>1, <1>5
  <2>4. Reads([size |-> Slice(g, 0, HeaderSize), length |-> m,
               data |-> Slice(g, HeaderSize, o)], s, length,
              [size |-> Slice(g, 0, HeaderSize), length |-> m,
               data |-> Slice(g, HeaderSize, o + n)], n)
    BY <2>1, <2>3, ReadsBody, Zenon
  <2>5. TaskAt(z, [frame |-> g, at |-> j])
          = [size |-> Slice(g, 0, HeaderSize), length |-> m, data |-> Slice(g, HeaderSize, o)]
    BY <2>1, <2>2, <1>1
  <2>6. TaskAt(z, [frame |-> g, at |-> j + n])
          = [size |-> Slice(g, 0, HeaderSize), length |-> m,
             data |-> Slice(g, HeaderSize, o + n)]
    <3>1. x - HeaderSize = o + n
      BY <2>1, <1>2, <1>4
    <3>2. TaskAt(z, [frame |-> g, at |-> x])
            = [size |-> Slice(g, 0, HeaderSize), length |-> m,
               data |-> Slice(g, HeaderSize, o + n)]
      BY <3>1, <2>2, <1>1
    <3>3. QED  BY <3>2, <1>4
  <2>7. QED  BY <2>4, <2>5, <2>6
<1>9. QED  BY <1>1, <1>2, <1>6, <1>7, <1>8

\* A task is new before the first byte and finished with the last one.
LEMMA TaskAtIs ==
  ASSUME NEW z \in Lengths, NEW g \in 1 .. Len(z), NEW n \in Nat, n <= Size(z, g)
  PROVE  LET task == TaskAt(z, [frame |-> g, at |-> n])
         IN  /\ task = NewReadTask <=> n = 0
             /\ Finished(task) <=> n = Size(z, g)
             /\ n = Size(z, g) => task.data = Slice(g, HeaderSize, z[g])
<1> DEFINE task == TaskAt(z, [frame |-> g, at |-> n])
<1>1. /\ g \in Nat \ {0} /\ HeaderSize \in Nat \ {0} /\ 0 \in Nat
      /\ z[g] \in Nat \ {0} /\ Size(z, g) = HeaderSize + z[g]
  <2>1. z[g] \in Nat \ {0} /\ g \in Nat \ {0}
    BY ElementOfSeq, LenProperties DEF Lengths
  <2>2. QED  BY <2>1, SizesAssumption DEF Size
<1>2. CASE n < HeaderSize
  <2>1. task = [size |-> Slice(g, 0, n), length |-> 0, data |-> << >>]
    BY <1>2, <1>1 DEF TaskAt, Least
  <2>2. Slice(g, 0, n) \in Seq(Byte) /\ Len(Slice(g, 0, n)) = n
    BY <1>1, <1>2, SliceType
  <2>3. Slice(g, 0, n) = << >> <=> n = 0
    BY <2>2, EmptySeq
  <2> HIDE DEF task
  <2>4. task = NewReadTask <=> n = 0
    BY <2>1, <2>3 DEF NewReadTask
  <2>5. ~Finished(task) /\ n # Size(z, g)
    BY <2>1, <2>2, <1>1, <1>2 DEF Finished
  <2>6. QED  BY <2>4, <2>5 DEF task
<1>3. CASE ~(n < HeaderSize)
  <2>1. task = [size |-> Slice(g, 0, HeaderSize), length |-> z[g], data |-> Slice(g, HeaderSize, n - HeaderSize)]
    BY <1>3, <1>1 DEF TaskAt, Least
  <2>2. /\ Slice(g, 0, HeaderSize) \in Seq(Byte) /\ Len(Slice(g, 0, HeaderSize)) = HeaderSize
        /\ Len(Slice(g, HeaderSize, n - HeaderSize)) = n - HeaderSize
    <3>1. n - HeaderSize \in Nat /\ 0 \in Nat
      BY <1>1, <1>2, <1>3
    <3>2. QED  BY <3>1, <1>1, SliceType
  <2> HIDE DEF task
  <2>3. task # NewReadTask /\ n # 0
    BY <2>1, <2>2, <1>1, <1>3, EmptySeq DEF NewReadTask
  <2>4. Finished(task) <=> n = Size(z, g)
    BY <2>1, <2>2, <1>1, <1>3 DEF Finished
  <2>5. n = Size(z, g) => task.data = Slice(g, HeaderSize, z[g])
    BY <2>1, <1>1
  <2>6. QED  BY <2>3, <2>4, <2>5 DEF task
<1>4. QED  BY <1>2, <1>3

------------------------------------------------------------------------------
\* Positions in the stream of all frames.

Positions == [frame : Nat, at : Nat]

\* Behind a stream one is not before where it began, nor past what was sent.
LEMMA AfterIs ==
  ASSUME NEW z \in Lengths, NEW b \in Positions, b.frame <= Len(z),
         NEW s \in Seq(Byte), Follows(z, b, s)
  PROVE  /\ After(b, s) \in Positions
         /\ After(b, s).frame <= Len(z)
         /\ b.frame <= After(b, s).frame
         /\ Complete(z, b) => After(b, s) = b \/ b.frame < After(b, s).frame
<1>1. CASE s = << >>
  BY <1>1 DEF After, Positions
<1>2. CASE s # << >>
  <2> DEFINE n == Len(s)
  <2>1. n \in Nat \ {0} /\ n \in 1 .. n /\ 1 \in 1 .. n /\ Len(z) \in Nat
    BY <1>2, EmptySeq, LenProperties DEF Lengths
  <2>2. s[n] \in Byte /\ s[1] \in Byte
    BY <2>1, ElementOfSeq
  <2>3. After(b, s) = s[n]
    BY <1>2 DEF After
  <2> HIDE DEF n
  <2>4. s[n].frame \in 1 .. Len(z) /\ (n = 1 \/ Precedes(s[1], s[n]))
    <3>1. n = 1 \/ 1 < n
      BY <2>1
    <3>2. Chain(z, s)
      BY DEF Follows
    <3>3. s[n].frame \in 1 .. Len(z)
      BY <2>1, <3>2 DEF Chain, n
    <3>4. 1 < n => Precedes(s[1], s[n])
      BY <2>1, <3>2 DEF Chain, n
    <3>5. QED  BY <3>1, <3>3, <3>4
  <2>5. s[1].frame <= s[n].frame
    BY <2>1, <2>2, <2>4 DEF Precedes, Byte
  <2>6. b.frame <= s[1].frame /\ (Complete(z, b) => b.frame < s[1].frame)
    BY <1>2, <2>2 DEF Follows, Continues, Byte, Positions
  <2>7. QED  BY <2>2, <2>4, <2>5, <2>6, <2>3 DEF Positions, Byte
<1>3. QED  BY <1>1, <1>2

\* Sending changes nothing that a stream of earlier frames says.
LEMMA SendingKeeps ==
  ASSUME NEW z \in Lengths, NEW n \in Nat \ {0}, NEW y, y = Append(z, n)
  PROVE  /\ y \in Lengths /\ Len(z) \in Nat /\ Len(y) = Len(z) + 1
         /\ \A f \in 1 .. Len(z) : y[f] = z[f] /\ Size(y, f) = Size(z, f)
         /\ \A b \in Positions : b.frame <= Len(z) =>
              /\ Complete(y, b) <=> Complete(z, b)
              /\ b.frame # 0 => TaskAt(y, b) = TaskAt(z, b)
              /\ EndOf(y, b.frame) = EndOf(z, b.frame)
              /\ \A s : Follows(z, b, s) => Follows(y, b, s)
<1>1. /\ y \in Lengths /\ Len(z) \in Nat /\ Len(y) = Len(z) + 1
      /\ \A f \in 1 .. Len(z) : y[f] = z[f]
  BY AppendProperties, LenProperties DEF Lengths
<1>2. \A f \in 1 .. Len(z) : Size(y, f) = Size(z, f)
  BY <1>1 DEF Size
<1>3. ASSUME NEW b \in Positions, b.frame <= Len(z)
      PROVE  /\ Complete(y, b) <=> Complete(z, b)
             /\ b.frame # 0 => TaskAt(y, b) = TaskAt(z, b)
             /\ EndOf(y, b.frame) = EndOf(z, b.frame)
  <2>1. b.frame = 0 \/ b.frame \in 1 .. Len(z)
    BY <1>1, <1>3 DEF Positions
  <2>2. QED  BY <2>1, <1>1, <1>2 DEF Complete, TaskAt, EndOf
<1>4. ASSUME NEW b \in Positions, b.frame <= Len(z), NEW s, Follows(z, b, s)
      PROVE  Follows(y, b, s)
  <2>1. Chain(y, s)
    BY <1>4, ChainGrows DEF Follows
  <2>2. s # << >> => Continues(y, b, s[1])
    BY <1>3, <1>4 DEF Follows, Continues
  <2>3. QED  BY <2>1, <2>2 DEF Follows
<1>5. QED  BY <1>1, <1>2, <1>3, <1>4

\* One write of r bytes of frame f, of which o were written before.
LEMMA WriteFollows ==
  ASSUME NEW z \in Lengths, NEW e \in Positions, NEW f \in 1 .. Len(z),
         NEW o \in Nat, NEW r \in Nat \ {0}, o + r <= Size(z, f),
         IF o > 0 THEN e.frame = f /\ e.at = o ELSE Complete(z, e) /\ e.frame < f
  PROVE  /\ Slice(f, o, r) \in Seq(Byte)
         /\ Follows(z, e, Slice(f, o, r))
         /\ After(e, Slice(f, o, r)) = [frame |-> f, at |-> o + r]
<1> DEFINE s == Slice(f, o, r)
<1>1. f \in Nat \ {0} /\ Size(z, f) \in Nat
  <2>1. Len(z) \in Nat
    BY LenProperties DEF Lengths
  <2>2. QED  BY <2>1, SizeIs
<1>2. /\ s \in Seq(Byte) /\ Len(s) = r
      /\ \A i \in 1 .. r : s[i] = [frame |-> f, at |-> o + i]
  <2>1. s \in Seq(Byte) /\ Len(s) = r
    BY <1>1, SliceType
  <2>2. QED  BY <2>1 DEF Slice
<1>3. Chain(z, s)
  BY ChainOfSlice
<1> HIDE DEF s
<1>4. s # << >> /\ s[1] = [frame |-> f, at |-> o + 1] /\ s[Len(s)] = [frame |-> f, at |-> o + r]
  BY <1>2, EmptySeq
<1>5. Continues(z, e, s[1])
  <2>1. CASE o > 0
    <3>1. e.frame = f /\ e.at = o /\ o # Size(z, f) /\ f # 0
      BY <2>1, <1>1
    <3>2. QED  BY <3>1, <1>4 DEF Continues, Complete
  <2>2. CASE ~(o > 0)
    BY <2>2, <1>4 DEF Continues
  <2>3. QED  BY <2>1, <2>2
<1>6. QED  BY <1>2, <1>3, <1>4, <1>5 DEF Follows, After, s

\* p is the n-th byte of s, q what s has behind it.
Remains(z, b, s, n, p, q) ==
  s[n] = p /\ q \in Seq(Byte) /\ Follows(z, p, q) /\ After(p, q) = After(b, s)

\* Inside a frame the task is neither new nor finished.
LEMMA InsideIs ==
  ASSUME NEW z \in Lengths, NEW b \in Positions,
         b.frame # 0, b.frame <= Len(z), b.at \in 1 .. Size(z, b.frame) - 1
  PROVE  TaskAt(z, b) # NewReadTask /\ ~Finished(TaskAt(z, b))
<1>1. b.frame \in 1 .. Len(z)
  BY LenProperties DEF Lengths, Positions
<1>2. b.at \in Nat /\ b.at # 0 /\ b.at # Size(z, b.frame) /\ b.at <= Size(z, b.frame)
  BY <1>1, SizeIs
<1>3. b = [frame |-> b.frame, at |-> b.at]
  BY DEF Positions
<1>4. LET task == TaskAt(z, [frame |-> b.frame, at |-> b.at])
      IN  task # NewReadTask /\ ~Finished(task)
  BY <1>1, <1>2, TaskAtIs
<1>5. QED  BY <1>3, <1>4

\* What follows the bytes one Read has taken.
LEMMA ReadFollows ==
  ASSUME NEW z \in Lengths, NEW b, NEW s \in Seq(Byte), Follows(z, b, s),
         NEW g \in Nat \ {0}, NEW j \in Nat, Resumes(z, s, g, j),
         NEW n \in Nat \ {0}, n <= Len(s), j + n <= Size(z, g),
         NEW p, p = [frame |-> g, at |-> j + n],
         NEW q, q = SubSeq(s, n + 1, Len(s))
  PROVE  Remains(z, b, s, n, p, q)
<1> DEFINE t == SubSeq(s, 1, n)
<1>1. Len(s) \in Nat /\ n \in 0 .. Len(s)
  BY LenProperties
<1>2. /\ t \in Seq(Byte) /\ q \in Seq(Byte) /\ Len(t) = n
      /\ Follows(z, After(b, t), q) /\ After(After(b, t), q) = After(b, s)
  BY <1>1, FollowsCut
<1>3. t = Slice(g, j, n)
  <2>1. 1 \in Nat \ {0} /\ 1 <= n + 1 /\ j + (1 - 1) = j /\ n + 1 - 1 = n
    OBVIOUS
  <2>2. n \in Nat
    OBVIOUS
  <2>3. Stretch(s, 1, n, g, j + (1 - 1), n + 1 - 1)
    BY <2>1, <2>2, StretchOfFrame, Zenon
  <2>4. QED  BY <2>1, <2>3 DEF Stretch
<1>4. t # << >> /\ t[n] = p /\ s[n] = p
  <2>1. Slice(g, j, n)[n] = [frame |-> g, at |-> j + n]
    BY DEF Slice
  <2>2. t[n] = p
    BY <2>1, <1>3
  <2>3. t[n] = s[n]
    <3>1. 1 \in Nat \ {0} /\ 1 <= n + 1 /\ n \in Nat /\ n \in 1 .. n + 1 - 1 /\ 1 - 1 + n = n
      BY <1>1
    <3>2. \A i \in 1 .. n + 1 - 1 : t[i] = s[1 - 1 + i]
      BY <3>1, ChainOfStretch DEF Follows
    <3> HIDE DEF t
    <3>3. QED  BY <3>1, <3>2
  <2> HIDE DEF t
  <2>4. QED  BY <2>2, <2>3, <1>2, EmptySeq
<1> HIDE DEF t
<1>5. After(b, t) = p
  BY <1>2, <1>4 DEF After
<1>6. QED  BY <1>2, <1>4, <1>5 DEF Remains

------------------------------------------------------------------------------
\* The stream between the two ends.  As long as nothing tore a frame, what the read
\* task holds, what the input loop has left, what the socket holds and what the
\* first queued task was written of are one stream, from the frame dispatched last
\* to the frame sent last.

\* FrameOf, for any lengths z of the frames.
FrameIn(z, data) ==
  IF data # << >> /\ data[1].frame \in DOMAIN z
       /\ data = Slice(data[1].frame, HeaderSize, z[data[1].frame])
    THEN data[1].frame ELSE 0

LastDispatched ==
  IF dispatched = << >> THEN 0 ELSE FrameIn(sent, dispatched[Len(dispatched)].data)
Rest == IF loops = << >> THEN << >> ELSE loops[1].rest
Dispatching == loops # << >> /\ loops[1].dispatching

DispatchedOK ==
  /\ \A k \in 1 .. Len(dispatched) : FrameIn(sent, dispatched[k].data) # 0
  /\ \A j, k \in 1 .. Len(dispatched) :
       j < k => FrameIn(sent, dispatched[j].data) < FrameIn(sent, dispatched[k].data)

\* Between two frames, or inside the one that comes after the last dispatched.
TaskOf(b) ==
  \/ /\ readTask = NewReadTask \/ Finished(readTask)
     /\ b = EndOf(sent, LastDispatched)
  \/ /\ b.frame # 0 /\ b.at \in 1 .. Size(sent, b.frame) - 1
     /\ LastDispatched < b.frame
     /\ readTask = TaskAt(sent, b)

\* The reading end has taken everything up to b.
ReaderAt(b) ==
  /\ b \in Positions /\ b.frame <= Len(sent)
  /\ TaskOf(b)
  /\ Follows(sent, b, Rest)

LoopsOK == Len(loops) <= 1 /\ (Finished(readTask) <=> Dispatching)

\* Only the first queued task can be half written, and none has arrived.
QueueOK ==
  /\ \A i \in 1 .. Len(writeQueue) :
       /\ LastDispatched < writeQueue[i].frame
       /\ writeQueue[i].offset < Size(sent, writeQueue[i].frame)
       /\ i > 1 => writeQueue[i].offset = 0
  /\ \A i, k \in 1 .. Len(writeQueue) : i < k => writeQueue[i].frame < writeQueue[k].frame

\* The writing end has written everything up to e.
WriterAt(e) ==
  IF writeQueue # << >> /\ writeQueue[1].offset > 0
    THEN e.frame = writeQueue[1].frame /\ e.at = writeQueue[1].offset
    ELSE /\ Complete(sent, e)
         /\ \A i \in 1 .. Len(writeQueue) : e.frame < writeQueue[i].frame

LinkAt(b) ==
  IF linkUp
    THEN /\ writerUp
         /\ Follows(sent, After(b, Rest), wire)
         /\ WriterAt(After(After(b, Rest), wire))
    ELSE /\ wire = << >>
         /\ loops # << >> => ~writerUp /\ writeQueue = << >>

StreamAt(b) == DispatchedOK /\ LoopsOK /\ ReaderAt(b) /\ QueueOK /\ LinkAt(b)
StreamInv == ~torn => \E b : StreamAt(b)

LEMMA SentLengths ==
  ASSUME TypeOK
  PROVE  sent \in Lengths /\ \A f : FrameSize(f) = Size(sent, f)
BY DEF TypeOK, Lengths, FrameSize, Size

\* The streams have their types, and so do the positions between them.
LEMMA StreamTypes ==
  ASSUME TypeInv, NEW b, ReaderAt(b)
  PROVE  /\ Rest \in Seq(Byte) /\ wire \in Seq(Byte) /\ Len(sent) \in Nat
         /\ After(b, Rest) \in Positions /\ After(b, Rest).frame <= Len(sent)
         /\ Follows(sent, After(b, Rest), wire) =>
              /\ After(After(b, Rest), wire) \in Positions
              /\ After(After(b, Rest), wire).frame <= Len(sent)
<1>1. sent \in Lengths /\ wire \in Seq(Byte) /\ loops \in Seq(InputLoop) /\ Len(sent) \in Nat
  BY SentLengths, SentTypes DEF TypeInv, TypeOK
<1>2. Rest \in Seq(Byte)
  <2>1. CASE loops = << >>
    BY <2>1, EmptySeq DEF Rest
  <2>2. CASE loops # << >>
    <3>1. 1 \in 1 .. Len(loops)
      BY <2>2, <1>1, EmptySeq
    <3>2. loops[1] \in InputLoop
      BY <3>1, <1>1, ElementOfSeq
    <3>3. QED  BY <3>2, <2>2 DEF Rest, InputLoop
  <2>3. QED  BY <2>1, <2>2
<1>3. After(b, Rest) \in Positions /\ After(b, Rest).frame <= Len(sent)
  BY <1>1, <1>2, AfterIs DEF ReaderAt
<1>4. QED  BY <1>1, <1>2, <1>3, AfterIs

LEMMA FrameInIs ==
  ASSUME NEW z \in Lengths, NEW data
  PROVE  FrameIn(z, data) \in Nat /\ FrameIn(z, data) <= Len(z)
<1>1. Len(z) \in Nat /\ DOMAIN z = 1 .. Len(z)
  BY LenProperties DEF Lengths
<1>2. FrameIn(z, data) \in 0 .. Len(z)
  BY <1>1 DEF FrameIn
<1>3. QED  BY <1>1, <1>2

LEMMA LastDispatchedType ==
  ASSUME TypeOK
  PROVE  LastDispatched \in Nat /\ LastDispatched <= Len(sent)
BY SentLengths, SentTypes, FrameInIs DEF LastDispatched

\* The body of a frame is known for that frame's.
LEMMA BodyIsOf ==
  ASSUME NEW z \in Lengths, NEW g \in 1 .. Len(z)
  PROVE  FrameIn(z, Slice(g, HeaderSize, z[g])) = g
<1> DEFINE data == Slice(g, HeaderSize, z[g])
<1>1. z[g] \in Nat \ {0} /\ g \in Nat \ {0} /\ HeaderSize \in Nat /\ DOMAIN z = 1 .. Len(z)
  BY ElementOfSeq, LenProperties, SizesAssumption DEF Lengths
<1>2. data \in Seq(Byte) /\ Len(data) = z[g] /\ data[1].frame = g
  <2>1. data \in Seq(Byte) /\ Len(data) = z[g]
    BY <1>1, SliceType
  <2>2. data[1].frame = g
    BY <1>1 DEF Slice
  <2>3. QED  BY <2>1, <2>2
<1>3. data # << >>
  <2> HIDE DEF data
  <2>1. QED  BY <1>1, <1>2, EmptySeq
<1>4. QED  BY <1>1, <1>2, <1>3 DEF FrameIn

\* Sending one more frame leaves what was dispatched as it is.
LEMMA SendKnown ==
  ASSUME NEW z \in Lengths, NEW n \in Nat \ {0}, NEW y, y = Append(z, n),
         NEW data, FrameIn(z, data) # 0
  PROVE  FrameIn(y, data) = FrameIn(z, data)
<1> DEFINE f == data[1].frame
<1>1. /\ y \in Lengths /\ Len(z) \in Nat /\ Len(y) = Len(z) + 1
      /\ \A i \in 1 .. Len(z) : y[i] = z[i]
  BY SendingKeeps
<1>2. DOMAIN z = 1 .. Len(z) /\ DOMAIN y = 1 .. Len(y)
  BY <1>1, LenProperties DEF Lengths
<1>3. /\ data # << >> /\ f \in 1 .. Len(z) /\ data = Slice(f, HeaderSize, z[f])
      /\ FrameIn(z, data) = f
  BY <1>2 DEF FrameIn
<1>4. f \in DOMAIN y /\ y[f] = z[f]
  BY <1>1, <1>2, <1>3
<1>5. QED  BY <1>3, <1>4 DEF FrameIn

LEMMA SendHistory ==
  ASSUME TypeInv, DispatchedOK, NEW n \in Nat \ {0}, sent' = Append(sent, n),
         dispatched' = dispatched
  PROVE  LastDispatched' = LastDispatched /\ DispatchedOK'
<1>1. sent \in Lengths /\ dispatched \in Seq([serial : Nat, data : Seq(Byte)])
  BY SentLengths DEF TypeInv, TypeOK
<1>2. \A data : FrameIn(sent, data) # 0 => FrameIn(sent', data) = FrameIn(sent, data)
  BY <1>1, SendKnown
<1>3. \A k \in 1 .. Len(dispatched) :
        /\ FrameIn(sent, dispatched[k].data) # 0
        /\ FrameIn(sent', dispatched[k].data) = FrameIn(sent, dispatched[k].data)
  BY <1>2 DEF DispatchedOK
<1>4. LastDispatched' = LastDispatched
  <2>1. dispatched # << >> => Len(dispatched) \in 1 .. Len(dispatched)
    BY <1>1, EmptySeq
  <2>2. QED  BY <2>1, <1>3 DEF LastDispatched
<1>5. DispatchedOK'
  BY <1>3 DEF DispatchedOK
<1>6. QED  BY <1>4, <1>5

\* Send queues a frame behind all others.
LEMMA SendQueue ==
  ASSUME TypeInv, QueueOK, NEW n \in BodySizes, Enqueue(n), LastDispatched' = LastDispatched
  PROVE  /\ QueueOK'
         /\ \A e \in Positions : e.frame <= Len(sent) /\ WriterAt(e) => WriterAt(e)'
<1> DEFINE task == [frame |-> Len(sent) + 1, offset |-> 0]
           q == Len(writeQueue)
<1>1. /\ writeQueue \in Seq(WriteTask) /\ sent \in Lengths /\ n \in Nat \ {0}
      /\ LastDispatched \in Nat /\ LastDispatched <= Len(sent)
  BY SizesAssumption, SentLengths, LastDispatchedType DEF TypeInv, TypeOK
<1>2. /\ sent' = Append(sent, n) /\ sent' \in Lengths
      /\ Len(sent) \in Nat /\ Len(sent') = Len(sent) + 1
      /\ \A f \in 1 .. Len(sent) : Size(sent', f) = Size(sent, f)
      /\ \A e \in Positions : e.frame <= Len(sent) => (Complete(sent', e) <=> Complete(sent, e))
  <2>1. sent' = Append(sent, n)
    BY DEF Enqueue
  <2>2. QED  BY <2>1, <1>1, SendingKeeps
<1>3. task \in WriteTask /\ q \in Nat /\ writeQueue' = Append(writeQueue, task)
  BY <1>1, <1>2, LenProperties DEF WriteTask, Enqueue
<1>4. task.frame = Len(sent) + 1 /\ task.offset = 0
  OBVIOUS
<1> HIDE DEF task
<1>5. /\ Len(writeQueue') = q + 1 /\ writeQueue' # << >>
      /\ \A i \in 1 .. q : writeQueue'[i] = writeQueue[i]
      /\ writeQueue'[q + 1] = task
  BY <1>1, <1>3, AppendProperties
<1>6. \A i \in 1 .. q : /\ writeQueue[i].frame \in 1 .. Len(sent)
                        /\ writeQueue[i] \in WriteTask
  BY <1>1, ElementOfSeq DEF TypeInv, QueuedWereSent
<1>7. Size(sent', Len(sent) + 1) > 0 /\ Size(sent', Len(sent) + 1) \in Nat
  <2>1. PICK f \in 1 .. Len(sent') : f = Len(sent) + 1
    BY <1>2
  <2>2. Size(sent', f) \in Nat /\ Size(sent', f) > HeaderSize /\ HeaderSize \in Nat
    BY <1>2, SizeIs
  <2>3. Size(sent', f) > 0
    BY <2>2
  <2>4. QED  BY <2>1, <2>2, <2>3
<1> HIDE DEF q
<1>7a. \A i \in 1 .. q + 1 : i \in 1 .. q \/ i = q + 1
  <2>1. q \in Nat
    BY <1>3
  <2>2. QED  BY <2>1
<1>8. ASSUME NEW i \in 1 .. q + 1
      PROVE  /\ LastDispatched < writeQueue'[i].frame
             /\ writeQueue'[i].offset < Size(sent', writeQueue'[i].frame)
             /\ i > 1 => writeQueue'[i].offset = 0
  <2>1. CASE i \in 1 .. q
    <3>1. /\ writeQueue'[i] = writeQueue[i]
          /\ Size(sent', writeQueue[i].frame) = Size(sent, writeQueue[i].frame)
      BY <2>1, <1>2, <1>5, <1>6
    <3>2. QED  BY <3>1, <2>1 DEF QueueOK, q
  <2>2. CASE i = q + 1
    <3>1. writeQueue'[i].frame = Len(sent) + 1 /\ writeQueue'[i].offset = 0
      BY <2>2, <1>4, <1>5
    <3>2. QED  BY <3>1, <1>1, <1>2, <1>7
  <2>3. QED  BY <2>1, <2>2, <1>7a
<1>9. ASSUME NEW i \in 1 .. q + 1, NEW k \in 1 .. q + 1, i < k
      PROVE  writeQueue'[i].frame < writeQueue'[k].frame
  <2>1. i \in 1 .. q /\ writeQueue'[i] = writeQueue[i]
    BY <1>3, <1>5, <1>9
  <2>2. CASE k \in 1 .. q
    BY <2>1, <2>2, <1>5, <1>9 DEF QueueOK, q
  <2>3. CASE k = q + 1
    <3>1. writeQueue'[k].frame = Len(sent) + 1
      BY <2>3, <1>4, <1>5
    <3>2. QED  BY <3>1, <2>1, <1>2, <1>6
  <2>4. QED  BY <2>2, <2>3, <1>7a
<1>10. QueueOK'
  BY <1>5, <1>8, <1>9 DEF QueueOK
<1>11. ASSUME NEW e \in Positions, e.frame <= Len(sent), WriterAt(e)
       PROVE  WriterAt(e)'
  <2>1. CASE writeQueue # << >> /\ writeQueue[1].offset > 0
    <3>1. 1 \in 1 .. q
      BY <2>1, <1>1, EmptySeq DEF q
    <3>2. writeQueue'[1] = writeQueue[1]
      BY <3>1, <1>5
    <3>3. QED  BY <3>2, <2>1, <1>5, <1>11 DEF WriterAt
  <2>2. CASE ~(writeQueue # << >> /\ writeQueue[1].offset > 0)
    <3>1. Complete(sent', e) /\ \A i \in 1 .. q : e.frame < writeQueue[i].frame
      BY <2>2, <1>2, <1>11 DEF WriterAt, q
    <3>2. \A i \in 1 .. q + 1 : e.frame < writeQueue'[i].frame
      <4> SUFFICES ASSUME NEW i \in 1 .. q + 1 PROVE e.frame < writeQueue'[i].frame
        OBVIOUS
      <4>1. CASE i \in 1 .. q
        BY <4>1, <3>1, <1>5
      <4>2. CASE i = q + 1
        BY <4>2, <1>2, <1>4, <1>5, <1>11 DEF Positions
      <4>3. QED  BY <4>1, <4>2, <1>7a
    <3>3. ~(writeQueue'[1].offset > 0)
      <4>1. CASE q = 0
        BY <4>1, <1>4, <1>5
      <4>2. CASE q # 0
        <5>1. 1 \in 1 .. q /\ writeQueue # << >>
          BY <4>2, <1>1, <1>3, EmptySeq DEF q
        <5>2. QED  BY <5>1, <2>2, <1>5
      <4>3. QED  BY <4>1, <4>2
    <3>4. QED  BY <3>1, <3>2, <3>3, <1>5 DEF WriterAt
  <2>3. QED  BY <2>1, <2>2
<1>12. QED  BY <1>10, <1>11

------------------------------------------------------------------------------
\* How each action moves the stream.

LEMMA FollowsNothing ==
  ASSUME NEW z, NEW b
  PROVE  Follows(z, b, << >>) /\ After(b, << >>) = b
BY EmptySeq DEF Follows, After, Chain

\* Between two frames.
LEMMA EndIs ==
  ASSUME NEW z \in Lengths, NEW f \in Nat, f <= Len(z)
  PROVE  EndOf(z, f) \in Positions /\ EndOf(z, f).frame = f /\ Complete(z, EndOf(z, f))
<1>1. CASE f = 0
  BY <1>1 DEF EndOf, NoByte, Positions, Complete
<1>2. CASE f # 0
  <2>1. f \in 1 .. Len(z)
    BY <1>2, LenProperties DEF Lengths
  <2>2. Size(z, f) \in Nat
    BY <2>1, SizeIs
  <2>3. QED  BY <1>2, <2>2 DEF EndOf, Positions, Complete
<1>3. QED  BY <1>1, <1>2

\* There is one input loop at most: the innermost is the first.
LEMMA OneLoop ==
  ASSUME TypeOK, LoopsOK, loops # << >>
  PROVE  /\ Len(loops) = 1 /\ Top = loops[1] /\ Top \in InputLoop
         /\ Rest = Top.rest /\ Dispatching = Top.dispatching
<1>1. Len(loops) \in Nat \ {0} /\ Top \in InputLoop
  BY LoopTypes
<1>2. Len(loops) = 1
  BY <1>1 DEF LoopsOK
<1>3. QED  BY <1>1, <1>2 DEF Top, Rest, Dispatching, InputLoop

LEMMA NewIsUnfinished == ~Finished(NewReadTask)
BY SizesAssumption, EmptySeq DEF Finished, NewReadTask

LEMMA SendConnectedStream ==
  ASSUME TypeInv, NEW b, StreamAt(b), NEW n \in BodySizes, SendConnected(n)
  PROVE  StreamAt(b)'
<1>1. /\ sent' = Append(sent, n) /\ Enqueue(n) /\ n \in Nat \ {0} /\ writerUp
      /\ UNCHANGED <<writerUp, linkUp, wire, readTask, loops, dispatched>>
  BY SizesAssumption DEF SendConnected, Enqueue, readerVars
<1>2. LastDispatched' = LastDispatched /\ DispatchedOK'
  BY <1>1, SendHistory DEF StreamAt
<1>3. /\ QueueOK'
      /\ \A e \in Positions : e.frame <= Len(sent) /\ WriterAt(e) => WriterAt(e)'
  BY <1>1, <1>2, SendQueue DEF StreamAt
<1>4. /\ sent \in Lengths /\ sent' \in Lengths /\ Len(sent) \in Nat /\ Len(sent') = Len(sent) + 1
      /\ \A f \in 1 .. Len(sent) : Size(sent', f) = Size(sent, f)
      /\ \A c \in Positions : c.frame <= Len(sent) =>
           /\ c.frame # 0 => TaskAt(sent', c) = TaskAt(sent, c)
           /\ EndOf(sent', c.frame) = EndOf(sent, c.frame)
           /\ \A s : Follows(sent, c, s) => Follows(sent', c, s)
  <2>1. sent \in Lengths
    BY SentLengths DEF TypeInv
  <2>2. QED  BY <2>1, <1>1, SendingKeeps
<1>5. ReaderAt(b) /\ b \in Positions /\ b.frame <= Len(sent) /\ TaskOf(b)
  BY DEF StreamAt, ReaderAt
<1>6. Rest' = Rest
  BY <1>1 DEF Rest
<1>7. TaskOf(b)'
  <2>1. CASE (readTask = NewReadTask \/ Finished(readTask)) /\ b = EndOf(sent, LastDispatched)
    <3>1. b.frame = LastDispatched
      BY <2>1, <1>4, LastDispatchedType, EndIs DEF TypeInv
    <3>2. EndOf(sent', LastDispatched) = EndOf(sent, LastDispatched)
      BY <3>1, <1>4, <1>5
    <3>3. QED  BY <2>1, <3>2, <1>1, <1>2 DEF TaskOf
  <2>2. CASE /\ b.frame # 0 /\ b.at \in 1 .. Size(sent, b.frame) - 1
             /\ LastDispatched < b.frame
             /\ readTask = TaskAt(sent, b)
    <3>1. b.frame \in 1 .. Len(sent)
      BY <2>2, <1>4, <1>5 DEF Positions
    <3>2. Size(sent', b.frame) = Size(sent, b.frame) /\ TaskAt(sent', b) = TaskAt(sent, b)
      BY <3>1, <2>2, <1>4, <1>5
    <3>3. QED  BY <2>2, <3>2, <1>1, <1>2 DEF TaskOf
  <2>3. QED  BY <2>1, <2>2, <1>5 DEF TaskOf
<1>8. ReaderAt(b)'
  <2>1. Follows(sent', b, Rest)
    BY <1>4, <1>5 DEF ReaderAt
  <2>2. b.frame <= Len(sent')
    BY <1>4, <1>5 DEF Positions
  <2>3. QED  BY <1>5, <1>6, <1>7, <2>1, <2>2 DEF ReaderAt
<1>9. LinkAt(b)'
  <2>1. PICK c : c = After(b, Rest)
    OBVIOUS
  <2>2. PICK e : e = After(c, wire)
    OBVIOUS
  <2>3. /\ c \in Positions /\ c.frame <= Len(sent)
        /\ Follows(sent, c, wire) => e \in Positions /\ e.frame <= Len(sent)
    BY <2>1, <2>2, <1>5, StreamTypes
  <2>4. CASE linkUp
    <3>1. Follows(sent, c, wire) /\ WriterAt(e)
      BY <2>1, <2>2, <2>4 DEF StreamAt, LinkAt
    <3>2. Follows(sent', c, wire) /\ WriterAt(e)'
      BY <3>1, <2>3, <1>3, <1>4
    <3>3. Follows(sent, After(b, Rest), wire)' /\ WriterAt(After(After(b, Rest), wire))'
      BY <3>2, <2>1, <2>2, <1>1, <1>6 DEF WriterAt
    <3>4. QED  BY <3>3, <2>4, <1>1 DEF LinkAt
  <2>5. CASE ~linkUp
    BY <2>5, <1>1 DEF StreamAt, LinkAt
  <2>6. QED  BY <2>4, <2>5
<1>10. LoopsOK'
  BY <1>1 DEF StreamAt, LoopsOK, Dispatching
<1>11. QED  BY <1>2, <1>3, <1>8, <1>9, <1>10 DEF StreamAt

\* The other end accepts a new socket with a new object: the stream begins after the
\* frame dispatched last, with the first frame in the queue.
LEMMA SendConnectingStream ==
  ASSUME TypeInv, NEW b, StreamAt(b), NEW n \in BodySizes, SendConnecting(n), ~torn'
  PROVE  \E c : StreamAt(c)'
<1>1. /\ sent' = Append(sent, n) /\ Enqueue(n) /\ n \in Nat \ {0}
      /\ writerUp' /\ linkUp' /\ wire' = << >> /\ readTask' = NewReadTask
      /\ loops = << >> /\ loops' = << >> /\ dispatched' = dispatched
      /\ ~(writeQueue # << >> /\ Head(writeQueue).offset > 0)
  BY SizesAssumption DEF SendConnecting, Enqueue
<1>2. LastDispatched' = LastDispatched /\ DispatchedOK'
  BY <1>1, SendHistory DEF StreamAt
<1>3. /\ QueueOK'
      /\ \A e \in Positions : e.frame <= Len(sent) /\ WriterAt(e) => WriterAt(e)'
  BY <1>1, <1>2, SendQueue DEF StreamAt
<1>4. sent \in Lengths /\ sent' \in Lengths /\ Len(sent) \in Nat /\ Len(sent') = Len(sent) + 1
  <2>1. sent \in Lengths
    BY SentLengths DEF TypeInv
  <2>2. QED  BY <2>1, <1>1, SendingKeeps
<1>5. LastDispatched \in Nat /\ LastDispatched <= Len(sent) /\ LastDispatched <= Len(sent')
  BY <1>4, LastDispatchedType DEF TypeInv
<1>6. PICK c : c = EndOf(sent, LastDispatched)
  OBVIOUS
<1>7. c \in Positions /\ c.frame = LastDispatched /\ Complete(sent, c)
  BY <1>4, <1>5, <1>6, EndIs
<1>8. c = EndOf(sent', LastDispatched)
  <2>1. EndOf(sent', c.frame) = EndOf(sent, c.frame)
    BY <1>1, <1>4, <1>5, <1>7, SendingKeeps
  <2>2. QED  BY <2>1, <1>6, <1>7
<1>9. WriterAt(c)
  <2>1. \A i \in 1 .. Len(writeQueue) : c.frame < writeQueue[i].frame
    BY <1>7 DEF StreamAt, QueueOK
  <2>2. ~(writeQueue # << >> /\ writeQueue[1].offset > 0)
    <3>1. writeQueue # << >> => Head(writeQueue) = writeQueue[1]
      BY DEF TypeInv, TypeOK
    <3>2. QED  BY <3>1, <1>1
  <2>3. QED  BY <2>1, <2>2, <1>7 DEF WriterAt
<1>10. WriterAt(c)'
  BY <1>3, <1>5, <1>7, <1>9
<1>11. Rest' = << >> /\ ~Dispatching'
  BY <1>1 DEF Rest, Dispatching
<1>12. ReaderAt(c)'
  <2>1. TaskOf(c)'
    BY <1>1, <1>2, <1>8 DEF TaskOf
  <2>2. QED  BY <2>1, <1>5, <1>7, <1>11, FollowsNothing DEF ReaderAt
<1>13. LinkAt(c)'
  <2>1. Follows(sent, After(c, Rest), wire)' /\ After(After(c, Rest'), wire') = c
    BY <1>1, <1>11, FollowsNothing
  <2>2. WriterAt(After(After(c, Rest), wire))'
    BY <2>1, <1>10 DEF WriterAt
  <2>3. QED  BY <2>1, <2>2, <1>1 DEF LinkAt
<1>14. LoopsOK'
  BY <1>1, <1>11, NewIsUnfinished, EmptySeq DEF LoopsOK
<1>15. QED  BY <1>2, <1>3, <1>12, <1>13, <1>14 DEF StreamAt

\* One write moves bytes of the first queued frame to the end of the wire.
LEMMA OutputStream ==
  ASSUME TypeInv, NEW b, StreamAt(b), OutputEvent
  PROVE  StreamAt(b)'
<1> DEFINE task == Head(writeQueue)
           left == FrameSize(task.frame) - task.offset
           room == SocketBuffer - Len(wire)
<1>1. PICK r \in 1 .. Least(left, room) :
        /\ wire' = wire \o Slice(task.frame, task.offset, r)
        /\ writeQueue' = IF r = left THEN Tail(writeQueue)
                         ELSE [writeQueue EXCEPT ![1].offset = @ + r]
  BY DEF OutputEvent
<1>2. /\ writeQueue \in Seq(WriteTask) /\ writeQueue # << >> /\ sent \in Lengths
      /\ linkUp /\ writerUp
      /\ UNCHANGED <<sent, dispatched, readTask, loops, linkUp, writerUp>>
  BY SentLengths DEF TypeInv, TypeOK, OutputEvent, readerVars
<1>3. Len(writeQueue) \in Nat \ {0} /\ task = writeQueue[1] /\ task \in WriteTask
  BY <1>2, EmptySeq, ElementOfSeq
<1>4. PICK f \in 1 .. Len(sent), o \in Nat : task.frame = f /\ task.offset = o
  <2>1. 1 \in 1 .. Len(writeQueue)
    BY <1>3
  <2>2. QED  BY <2>1, <1>3 DEF WriteTask, TypeInv, QueuedWereSent
<1>5. Size(sent, f) \in Nat /\ left = Size(sent, f) - o /\ o < Size(sent, f)
  <2>1. 1 \in 1 .. Len(writeQueue)
    BY <1>3
  <2>2. o < Size(sent, f)
    BY <2>1, <1>3, <1>4 DEF StreamAt, QueueOK
  <2>3. QED  BY <2>2, <1>2, <1>4, SizeIs, SentLengths DEF TypeInv
<1>6. /\ r \in Nat \ {0} /\ o + r <= Size(sent, f)
      /\ r = left <=> o + r = Size(sent, f)
  <2>1. r <= left
    <3>1. room \in Int
      <4>1. Len(wire) \in Nat /\ SocketBuffer \in Nat
        BY LenProperties, SizesAssumption DEF TypeInv, TypeOK
      <4>2. QED  BY <4>1
    <3> HIDE DEF room
    <3>2. QED  BY <3>1, <1>5 DEF Least
  <2>2. QED  BY <2>1, <1>5
<1> HIDE DEF left, room
<1>7. PICK c : c = After(b, Rest)
  OBVIOUS
<1>8. PICK e : e = After(c, wire)
  OBVIOUS
<1>9. Follows(sent, c, wire) /\ WriterAt(e)
  BY <1>2, <1>7, <1>8 DEF StreamAt, LinkAt
<1>10. wire \in Seq(Byte) /\ c \in Positions /\ e \in Positions
  BY <1>7, <1>8, <1>9, StreamTypes DEF StreamAt
<1>11. IF o > 0 THEN e.frame = f /\ e.at = o ELSE Complete(sent, e) /\ e.frame < f
  BY <1>2, <1>3, <1>4, <1>9 DEF WriterAt
<1>12. PICK d : d = [frame |-> f, at |-> o + r]
  OBVIOUS
<1>13. PICK s : s = Slice(f, o, r)
  OBVIOUS
<1>14. s \in Seq(Byte) /\ Follows(sent, e, s) /\ After(e, s) = d
  BY <1>2, <1>6, <1>10, <1>11, <1>12, <1>13, WriteFollows
<1>15. wire' = wire \o s
  BY <1>1, <1>4, <1>13
<1>16. Follows(sent, c, wire') /\ After(c, wire') = d
  BY <1>2, <1>8, <1>9, <1>10, <1>14, <1>15, FollowsJoin
<1>17. Rest' = Rest /\ LastDispatched' = LastDispatched
  BY <1>2 DEF Rest, LastDispatched
<1>18. QueueOK' /\ WriterAt(d)'
  <2>1. CASE r = left
    <3>1. /\ Len(writeQueue') = Len(writeQueue) - 1
          /\ \A i \in 1 .. Len(writeQueue') : writeQueue'[i] = writeQueue[i + 1]
      BY <2>1, <1>1, <1>2, HeadTailProperties
    <3>2. ASSUME NEW i \in 1 .. Len(writeQueue')
          PROVE  /\ LastDispatched < writeQueue'[i].frame
                 /\ writeQueue'[i].offset < Size(sent, writeQueue'[i].frame)
                 /\ writeQueue'[i].offset = 0
                 /\ f < writeQueue'[i].frame
      <4>1. i + 1 \in 1 .. Len(writeQueue) /\ i + 1 > 1 /\ 1 \in 1 .. Len(writeQueue)
        BY <3>1, <1>3
      <4>2. PICK k \in 1 .. Len(writeQueue) : k = i + 1 /\ k > 1 /\ writeQueue'[i] = writeQueue[k]
        BY <4>1, <3>1
      <4>3. QED  BY <4>1, <4>2, <1>3, <1>4 DEF StreamAt, QueueOK
    <3>3. ASSUME NEW i \in 1 .. Len(writeQueue'), NEW k \in 1 .. Len(writeQueue'), i < k
          PROVE  writeQueue'[i].frame < writeQueue'[k].frame
      <4>1. PICK x \in 1 .. Len(writeQueue), y \in 1 .. Len(writeQueue) :
              x < y /\ writeQueue'[i] = writeQueue[x] /\ writeQueue'[k] = writeQueue[y]
        <5>1. i + 1 \in 1 .. Len(writeQueue) /\ k + 1 \in 1 .. Len(writeQueue) /\ i + 1 < k + 1
          BY <3>1, <3>3, <1>3
        <5>2. QED  BY <5>1, <3>1
      <4>2. QED  BY <4>1 DEF StreamAt, QueueOK
    <3>4. QueueOK'
      BY <3>2, <3>3, <1>2, <1>17 DEF QueueOK
    <3>5. ~(writeQueue' # << >> /\ writeQueue'[1].offset > 0)
      <4> SUFFICES ASSUME writeQueue' # << >> PROVE writeQueue'[1].offset = 0
        OBVIOUS
      <4>1. writeQueue' \in Seq(WriteTask)
        BY OutputTypes
      <4>2. 1 \in 1 .. Len(writeQueue')
        BY <4>1, EmptySeq
      <4>3. QED  BY <4>2, <3>2
    <3>6. Complete(sent, d) /\ d.frame = f
      BY <2>1, <1>6, <1>12 DEF Complete
    <3>7. QED  BY <3>2, <3>4, <3>5, <3>6, <1>2 DEF WriterAt
  <2>2. CASE r # left
    <3>1. PICK rest : rest = [task EXCEPT !.offset = @ + r]
      OBVIOUS
    <3>2. rest \in WriteTask /\ rest.frame = f /\ rest.offset = o + r
      BY <3>1, <1>3, <1>4, <1>6 DEF WriteTask
    <3>3. writeQueue' = [writeQueue EXCEPT ![1] = rest]
      BY <2>2, <3>1, <1>1, <1>3
    <3>4. /\ Len(writeQueue') = Len(writeQueue) /\ writeQueue' # << >>
          /\ \A i \in 1 .. Len(writeQueue) :
               writeQueue'[i] = IF i = 1 THEN rest ELSE writeQueue[i]
      <4>1. 1 \in 1 .. Len(writeQueue)
        BY <1>3
      <4>2. /\ writeQueue' \in Seq(WriteTask) /\ Len(writeQueue') = Len(writeQueue)
            /\ \A i \in 1 .. Len(writeQueue) :
                 writeQueue'[i] = IF i = 1 THEN rest ELSE writeQueue[i]
        BY <4>1, <3>2, <3>3, <1>2, ExceptSeq
      <4>3. QED  BY <4>2, <1>3, EmptySeq
    <3>5. \A i \in 1 .. Len(writeQueue) : writeQueue'[i].frame = writeQueue[i].frame
      BY <3>2, <3>4, <1>3, <1>4
    <3>6. ASSUME NEW i \in 1 .. Len(writeQueue)
          PROVE  /\ LastDispatched < writeQueue'[i].frame
                 /\ writeQueue'[i].offset < Size(sent, writeQueue'[i].frame)
                 /\ i > 1 => writeQueue'[i].offset = 0
      <4>1. CASE i = 1
        <5>1. writeQueue'[i].frame = f /\ writeQueue'[i].offset = o + r
          BY <4>1, <3>2, <3>4
        <5>2. LastDispatched < f
          BY <4>1, <1>3, <1>4 DEF StreamAt, QueueOK
        <5>3. o + r < Size(sent, f)
          BY <2>2, <1>5, <1>6
        <5>4. QED  BY <4>1, <5>1, <5>2, <5>3
      <4>2. CASE i # 1
        BY <4>2, <3>4 DEF StreamAt, QueueOK
      <4>3. QED  BY <4>1, <4>2
    <3>7. QueueOK'
      BY <3>4, <3>5, <3>6, <1>2, <1>17 DEF StreamAt, QueueOK
    <3>8. writeQueue'[1].frame = f /\ writeQueue'[1].offset = o + r /\ o + r > 0
      BY <3>2, <3>4, <1>3, <1>6
    <3>9. QED  BY <3>4, <3>7, <3>8, <1>12 DEF WriterAt
  <2>3. QED  BY <2>1, <2>2
<1>19. LinkAt(b)'
  <2>1. Follows(sent, After(b, Rest), wire)'
    BY <1>2, <1>7, <1>16, <1>17
  <2>2. After(After(b, Rest'), wire') = d
    BY <1>7, <1>16, <1>17
  <2>3. WriterAt(After(After(b, Rest), wire))'
    BY <2>2, <1>18 DEF WriterAt
  <2>4. QED  BY <2>1, <2>3, <1>2 DEF LinkAt
<1>20. DispatchedOK' /\ LoopsOK' /\ ReaderAt(b)'
  BY <1>2, <1>17 DEF StreamAt, DispatchedOK, LoopsOK, Dispatching, ReaderAt, TaskOf
<1>21. QED  BY <1>18, <1>19, <1>20 DEF StreamAt

\* The input loop takes over the beginning of the wire.
LEMMA InputStream ==
  ASSUME TypeInv, NEW b, StreamAt(b), InputEvent, ~torn'
  PROVE  StreamAt(b)'
<1>1. PICK n : n = Least(ReadBufferSize, Len(wire))
  OBVIOUS
<1>2. PICK loop : loop = [rest |-> SubSeq(wire, 1, n), dispatching |-> FALSE]
  OBVIOUS
<1>3. /\ linkUp /\ loops = << >> /\ loops' = Append(loops, loop)
      /\ wire' = SubSeq(wire, n + 1, Len(wire))
      /\ UNCHANGED <<readTask, dispatched, sent, writeQueue, writerUp, linkUp>>
  BY <1>1, <1>2 DEF InputEvent, writerVars
<1>4. sent \in Lengths /\ wire \in Seq(Byte) /\ n \in 0 .. Len(wire)
  <2>1. sent \in Lengths /\ wire \in Seq(Byte) /\ Len(wire) \in Nat /\ ReadBufferSize \in Nat
    BY SentLengths, LenProperties, SizesAssumption DEF TypeInv, TypeOK
  <2>2. n \in Nat /\ n <= Len(wire)
    BY <2>1, <1>1, LeastIsNat
  <2>3. QED  BY <2>1, <2>2
<1>5. Rest = << >> /\ After(b, Rest) = b /\ b \in Positions
  BY <1>3, FollowsNothing DEF Rest, StreamAt, ReaderAt
<1>6. Follows(sent, b, wire) /\ WriterAt(After(b, wire))
  <2>1. Follows(sent, After(b, Rest), wire) /\ WriterAt(After(After(b, Rest), wire))
    BY <1>3 DEF StreamAt, LinkAt
  <2>2. QED  BY <2>1, <1>5
<1>7. /\ Follows(sent, b, SubSeq(wire, 1, n))
      /\ Follows(sent, After(b, SubSeq(wire, 1, n)), wire')
      /\ After(After(b, SubSeq(wire, 1, n)), wire') = After(b, wire)
  BY <1>3, <1>4, <1>6, FollowsCut
<1>8. Len(loops') = 1 /\ loops' # << >> /\ loops'[1] = loop
  BY <1>3, EmptySeq
<1>9. Rest' = SubSeq(wire, 1, n) /\ ~Dispatching' /\ ~Dispatching
  BY <1>2, <1>3, <1>8 DEF Rest, Dispatching
<1>10. LastDispatched' = LastDispatched
  BY <1>3 DEF LastDispatched
<1>11. ReaderAt(b)'
  <2>1. TaskOf(b)'
    BY <1>3, <1>10 DEF StreamAt, ReaderAt, TaskOf
  <2>2. QED  BY <2>1, <1>3, <1>7, <1>9 DEF StreamAt, ReaderAt
<1>12. LinkAt(b)'
  <2>1. Follows(sent, After(b, Rest), wire)'
    BY <1>3, <1>7, <1>9
  <2>2. After(After(b, Rest'), wire') = After(b, wire)
    BY <1>7, <1>9
  <2>3. WriterAt(After(After(b, Rest), wire))'
    BY <2>2, <1>3, <1>6 DEF WriterAt
  <2>4. QED  BY <2>1, <2>3, <1>3 DEF LinkAt, StreamAt
<1>13. LoopsOK'
  BY <1>3, <1>8, <1>9 DEF StreamAt, LoopsOK
<1>14. DispatchedOK' /\ QueueOK'
  BY <1>3, <1>10 DEF StreamAt, DispatchedOK, QueueOK
<1>15. QED  BY <1>11, <1>12, <1>13, <1>14 DEF StreamAt

\* The handler returns: the frame's task is replaced by a new one.
LEMMA DispatchReturnsStream ==
  ASSUME TypeInv, NEW b, StreamAt(b), DispatchReturns
  PROVE  StreamAt(b)'
<1>1. PICK loop : loop = [Top EXCEPT !.dispatching = FALSE]
  OBVIOUS
<1>2. /\ loops # << >> /\ Top.dispatching /\ readTask' = NewReadTask /\ loops' = SetTop(loop)
      /\ UNCHANGED <<dispatched, wire, sent, writeQueue, writerUp, linkUp>>
  BY <1>1 DEF DispatchReturns, writerVars
<1>3. /\ Len(loops) = 1 /\ Top \in InputLoop /\ Rest = Top.rest /\ Dispatching
      /\ Finished(readTask)
  BY <1>2, OneLoop DEF StreamAt, LoopsOK, TypeInv
<1>4. loop \in InputLoop /\ loop.rest = Top.rest /\ ~loop.dispatching
  BY <1>1, <1>3 DEF InputLoop
<1>5. Len(loops') = 1 /\ loops'[1] = loop /\ loops' # << >>
  <2>1. Len(SetTop(loop)) = Len(loops) /\ SetTop(loop)[Len(loops)] = loop
    BY <1>2, <1>4, LoopTypes DEF TypeInv
  <2>2. QED  BY <2>1, <1>2, <1>3, EmptySeq
<1>6. Rest' = Rest /\ ~Dispatching' /\ LastDispatched' = LastDispatched
  BY <1>2, <1>3, <1>4, <1>5 DEF Rest, Dispatching, LastDispatched
<1>7. b = EndOf(sent, LastDispatched)
  <2> SUFFICES ASSUME b.frame # 0, b.at \in 1 .. Size(sent, b.frame) - 1,
                      readTask = TaskAt(sent, b)
               PROVE  FALSE
    BY DEF StreamAt, ReaderAt, TaskOf
  <2>1. sent \in Lengths /\ b \in Positions /\ b.frame <= Len(sent)
    BY SentLengths DEF TypeInv, StreamAt, ReaderAt
  <2>2. QED  BY <2>1, <1>3, InsideIs
<1>8. ReaderAt(b)'
  BY <1>2, <1>6, <1>7 DEF StreamAt, ReaderAt, TaskOf
<1>9. LinkAt(b)'
  BY <1>2, <1>6 DEF StreamAt, LinkAt, WriterAt
<1>10. LoopsOK'
  BY <1>2, <1>5, <1>6, NewIsUnfinished DEF LoopsOK
<1>11. DispatchedOK' /\ QueueOK'
  BY <1>2, <1>6 DEF StreamAt, DispatchedOK, QueueOK
<1>12. QED  BY <1>8, <1>9, <1>10, <1>11 DEF StreamAt

LEMMA LoopEndsStream ==
  ASSUME TypeInv, NEW b, StreamAt(b), LoopEnds
  PROVE  StreamAt(b)'
<1>1. /\ loops # << >> /\ ~Top.dispatching /\ Top.rest = << >> /\ loops' = Popped
      /\ UNCHANGED <<readTask, dispatched, wire, sent, writeQueue, writerUp, linkUp>>
  BY DEF LoopEnds, writerVars
<1>2. Len(loops) = 1 /\ Rest = << >> /\ ~Dispatching
  BY <1>1, OneLoop DEF StreamAt, TypeInv
<1>3. loops' = << >>
  <2>1. loops' \in Seq(InputLoop) /\ Len(loops') = Len(loops) - 1
    BY <1>1, LoopTypes DEF TypeInv
  <2>2. QED  BY <2>1, <1>2, EmptySeq
<1>4. Rest' = Rest /\ ~Dispatching' /\ LastDispatched' = LastDispatched /\ Len(loops') = 0
  BY <1>1, <1>2, <1>3, EmptySeq DEF Rest, Dispatching, LastDispatched
<1>5. ReaderAt(b)' /\ LinkAt(b)'
  BY <1>1, <1>3, <1>4 DEF StreamAt, ReaderAt, TaskOf, LinkAt, WriterAt
<1>6. LoopsOK' /\ DispatchedOK' /\ QueueOK'
  BY <1>1, <1>2, <1>4 DEF StreamAt, LoopsOK, DispatchedOK, QueueOK
<1>7. QED  BY <1>5, <1>6 DEF StreamAt

\* The poll finds the other end gone: neither the stream nor the queue changes.
LEMMA HangupStream ==
  ASSUME NEW b, StreamAt(b), WriterHangup \/ ReaderHangup \/ UNCHANGED vars
  PROVE  StreamAt(b)'
<1>1. /\ UNCHANGED <<readTask, dispatched, loops, wire, sent, writeQueue, linkUp>>
      /\ writerUp' = writerUp \/ (~linkUp /\ ~writerUp')
  BY DEF WriterHangup, ReaderHangup, vars, writerVars, readerVars
<1>2. Rest' = Rest /\ LastDispatched' = LastDispatched /\ Dispatching' = Dispatching
  BY <1>1 DEF Rest, LastDispatched, Dispatching
<1>3. ReaderAt(b)' /\ LinkAt(b)'
  BY <1>1, <1>2 DEF StreamAt, ReaderAt, TaskOf, LinkAt, WriterAt
<1>4. LoopsOK' /\ DispatchedOK' /\ QueueOK'
  BY <1>1, <1>2 DEF StreamAt, LoopsOK, DispatchedOK, QueueOK
<1>5. QED  BY <1>3, <1>4 DEF StreamAt

\* The reading end connects between two frames: the new writing end begins there.
LEMMA ReaderConnectsStream ==
  ASSUME TypeInv, NEW b, StreamAt(b), ReaderConnects, ~torn'
  PROVE  StreamAt(b)'
<1>1. /\ ~InsideFrame /\ linkUp' /\ wire' = << >> /\ writerUp' /\ writeQueue' = << >>
      /\ UNCHANGED <<readTask, dispatched, loops, sent>>
  BY DEF ReaderConnects
<1>2. Rest' = Rest /\ LastDispatched' = LastDispatched /\ Dispatching' = Dispatching
  BY <1>1 DEF Rest, LastDispatched, Dispatching
<1>3. Complete(sent, After(b, Rest))
  <2>1. CASE loops # << >> /\ Top.rest # << >>
    <3>1. Rest = Top.rest
      BY <2>1, OneLoop DEF StreamAt, TypeInv
    <3>2. After(b, Rest) = Top.rest[Len(Top.rest)]
      BY <2>1, <3>1 DEF After
    <3>3. After(b, Rest).at = FrameSize(After(b, Rest).frame)
      BY <2>1, <3>2, <1>1 DEF InsideFrame
    <3>4. QED  BY <3>3, SentLengths DEF Complete, TypeInv
  <2>2. CASE ~(loops # << >> /\ Top.rest # << >>)
    <3>1. Rest = << >>
      BY <2>2, OneLoop DEF StreamAt, TypeInv, Rest
    <3>2. After(b, Rest) = b
      BY <3>1, FollowsNothing
    <3>3. readTask = NewReadTask \/ Finished(readTask)
      BY <2>2, <1>1 DEF InsideFrame
    <3>4. CASE b = EndOf(sent, LastDispatched)
      BY <3>2, <3>4, SentLengths, LastDispatchedType, EndIs DEF TypeInv
    <3>5. CASE b # EndOf(sent, LastDispatched)
      <4>1. b.frame # 0 /\ b.at \in 1 .. Size(sent, b.frame) - 1 /\ readTask = TaskAt(sent, b)
        BY <3>5 DEF StreamAt, ReaderAt, TaskOf
      <4>2. sent \in Lengths /\ b \in Positions /\ b.frame <= Len(sent)
        BY SentLengths DEF TypeInv, StreamAt, ReaderAt
      <4>3. QED  BY <3>3, <4>1, <4>2, InsideIs
    <3>6. QED  BY <3>4, <3>5
  <2>3. QED  BY <2>1, <2>2
<1>4. ReaderAt(b)'
  BY <1>1, <1>2 DEF StreamAt, ReaderAt, TaskOf
<1>5. Len(writeQueue') = 0
  BY <1>1, EmptySeq
<1>6. LinkAt(b)'
  <2>1. PICK c : c = After(b, Rest)
    OBVIOUS
  <2>2. Follows(sent, After(b, Rest), wire)' /\ After(After(b, Rest'), wire') = c
    BY <2>1, <1>1, <1>2, FollowsNothing
  <2>3. WriterAt(c)'
    BY <2>1, <1>1, <1>3, <1>5 DEF WriterAt
  <2>4. WriterAt(After(After(b, Rest), wire))'
    BY <2>2, <2>3 DEF WriterAt
  <2>5. QED  BY <2>2, <2>4, <1>1 DEF LinkAt
<1>7. LoopsOK' /\ DispatchedOK' /\ QueueOK'
  BY <1>1, <1>2, <1>5 DEF StreamAt, LoopsOK, DispatchedOK, QueueOK
<1>8. QED  BY <1>4, <1>6, <1>7 DEF StreamAt

\* What a broken socket held is lost, and with an end its queue or its loops.
LEMMA WriterGoneStream ==
  ASSUME NEW b, StreamAt(b), WriterGone
  PROVE  StreamAt(b)'
<1>1. /\ ~linkUp' /\ wire' = << >> /\ ~writerUp' /\ writeQueue' = << >>
      /\ UNCHANGED <<readTask, dispatched, loops, sent>>
  BY DEF WriterGone, Broken, readerVars
<1>2. Rest' = Rest /\ LastDispatched' = LastDispatched /\ Dispatching' = Dispatching
  BY <1>1 DEF Rest, LastDispatched, Dispatching
<1>3. Len(writeQueue') = 0
  BY <1>1, EmptySeq
<1>4. ReaderAt(b)' /\ LinkAt(b)'
  BY <1>1, <1>2 DEF StreamAt, ReaderAt, TaskOf, LinkAt
<1>5. LoopsOK' /\ DispatchedOK' /\ QueueOK'
  BY <1>1, <1>2, <1>3 DEF StreamAt, LoopsOK, DispatchedOK, QueueOK
<1>6. QED  BY <1>4, <1>5 DEF StreamAt

LEMMA ReaderGoneStream ==
  ASSUME TypeInv, NEW b, StreamAt(b), ReaderGone
  PROVE  \E c : StreamAt(c)'
<1>1. /\ ~linkUp' /\ wire' = << >> /\ readTask' = NewReadTask /\ loops' = << >>
      /\ UNCHANGED <<dispatched, sent, writerUp, writeQueue>>
  BY DEF ReaderGone, Broken, writerVars
<1>2. Rest' = << >> /\ LastDispatched' = LastDispatched /\ ~Dispatching' /\ Len(loops') = 0
  BY <1>1, EmptySeq DEF Rest, LastDispatched, Dispatching
<1>3. PICK c : c = EndOf(sent, LastDispatched)
  OBVIOUS
<1>4. ReaderAt(c)'
  <2>1. c \in Positions /\ c.frame = LastDispatched /\ LastDispatched <= Len(sent)
    BY <1>3, SentLengths, LastDispatchedType, EndIs DEF TypeInv
  <2>2. Follows(sent', c, Rest')
    BY <1>2, FollowsNothing
  <2>3. QED  BY <2>1, <2>2, <1>1, <1>2, <1>3 DEF ReaderAt, TaskOf
<1>5. LinkAt(c)' /\ LoopsOK'
  BY <1>1, <1>2, NewIsUnfinished DEF LinkAt, LoopsOK
<1>6. DispatchedOK' /\ QueueOK'
  BY <1>1, <1>2 DEF StreamAt, DispatchedOK, QueueOK
<1>7. QED  BY <1>4, <1>5, <1>6 DEF StreamAt

\* A prefix completed by bytes of its own frame announces that frame's length.
LEMMA LengthIsOf ==
  ASSUME TypeInv, NEW g \in 1 .. Len(sent), NEW j \in Nat, j < HeaderSize,
         NEW s \in Seq(Byte), Resumes(sent, s, g, j),
         HeaderSize <= j + Len(s),
         NEW length \in LengthsRead(TaskAt(sent, [frame |-> g, at |-> j]), s)
  PROVE  length = sent[g]
<1> DEFINE task == TaskAt(sent, [frame |-> g, at |-> j])
<1>1. /\ sent \in Lengths /\ DOMAIN sent = 1 .. Len(sent) /\ Len(sent) \in Nat
      /\ g \in Nat \ {0} /\ Len(s) \in Nat /\ HeaderSize \in Nat \ {0}
      /\ Size(sent, g) \in Nat /\ Size(sent, g) > HeaderSize
  BY SentLengths, SentTypes, SizeIs, SizesAssumption, LenProperties DEF TypeInv
<1>2. task.size = Slice(g, 0, j) /\ Len(Slice(g, 0, j)) = j
  <2>1. task = [size |-> Slice(g, 0, j), length |-> 0, data |-> << >>]
    BY TaskAtPrefix, Zenon
  <2>2. Len(Slice(g, 0, j)) = j
    BY <1>1, SliceType
  <2>3. QED  BY <2>1, <2>2
<1>3. PICK k \in Nat \ {0} : j + k = HeaderSize /\ k <= Len(s) /\ Least(HeaderSize - j, Len(s)) = k
  <2>1. HeaderSize - j \in Nat \ {0} /\ j + (HeaderSize - j) = HeaderSize
        /\ HeaderSize - j <= Len(s) /\ Least(HeaderSize - j, Len(s)) = HeaderSize - j
    BY <1>1 DEF Least
  <2>2. QED  BY <2>1
<1>4. SubSeq(s, 1, k) = Slice(g, j, k)
  <2>1. 1 \in Nat \ {0} /\ 1 <= k + 1 /\ j + (1 - 1) = j /\ k + 1 - 1 = k /\ k \in Nat
        /\ j + k <= Size(sent, g)
    BY <1>1, <1>3
  <2>2. Stretch(s, 1, k, g, j + (1 - 1), k + 1 - 1)
    BY <2>1, <1>1, <1>3, StretchOfFrame, Zenon
  <2>3. QED  BY <2>1, <2>2 DEF Stretch
<1>5. task.size \o SubSeq(s, 1, k) = Slice(g, 0, HeaderSize)
  <2>1. k \in Nat
    OBVIOUS
  <2>2. Slice(g, 0, j) \o Slice(g, j, k) = Slice(g, 0, j + k)
    BY <2>1, <1>1, SliceFromStart
  <2>3. QED  BY <2>2, <1>2, <1>3, <1>4
<1>6. Len(Slice(g, 0, HeaderSize)) = HeaderSize /\ Slice(g, 0, HeaderSize)[1].frame = g
  <2>1. Len(Slice(g, 0, HeaderSize)) = HeaderSize
    BY <1>1, SliceType
  <2>2. Slice(g, 0, HeaderSize)[1].frame = g
    BY <1>1 DEF Slice
  <2>3. QED  BY <2>1, <2>2
<1>7. SizesSpelled(Slice(g, 0, HeaderSize)) = {sent[g]}
  BY <1>1, <1>6 DEF SizesSpelled
<1> HIDE DEF task
<1>8. LengthsRead(task, s) = SizesSpelled(Slice(g, 0, HeaderSize))
  <2>1. Least(HeaderSize - Len(task.size), Len(s)) = k /\ k # 0
    BY <1>2, <1>3
  <2>2. QED  BY <2>1, <1>5, <1>6, Zenon DEF LengthsRead
<1>9. QED  BY <1>7, <1>8 DEF task

\* Where the reader goes on: in the frame after the last dispatched, with a task that
\* holds what came before.
LEMMA ReaderResumes ==
  ASSUME TypeInv, NEW b, StreamAt(b), Rest # << >>, ~Finished(readTask),
         NEW s \in Seq(Byte), s = Rest
  PROVE  \E g \in 1 .. Len(sent), j \in Nat :
           /\ Resumes(sent, s, g, j)
           /\ j < Size(sent, g) /\ LastDispatched < g
           /\ b.frame = LastDispatched \/ b.frame = g
           /\ readTask = TaskAt(sent, [frame |-> g, at |-> j])
<1>1. sent \in Lengths /\ Len(sent) \in Nat /\ LastDispatched \in Nat /\ LastDispatched <= Len(sent)
  BY SentLengths, LenProperties, LastDispatchedType DEF TypeInv, Lengths
<1>2. Chain(sent, s) /\ Continues(sent, b, s[1])
  BY DEF StreamAt, ReaderAt, Follows
<1>3. PICK g \in 1 .. Len(sent) : s[1].frame = g /\ s[1].at \in 1 .. Size(sent, g)
  <2>1. 1 \in 1 .. Len(s)
    BY EmptySeq
  <2>2. QED  BY <2>1, <1>2 DEF Chain
<1>4. Size(sent, g) \in Nat /\ g \in Nat \ {0}
  BY <1>1, SizeIs
<1>4a. PICK a \in 1 .. Size(sent, g) : s[1].at = a
  BY <1>3
<1>5. PICK j \in Nat : a = j + 1 /\ j < Size(sent, g)
  <2>1. a - 1 \in Nat /\ a = (a - 1) + 1 /\ a - 1 < Size(sent, g)
    BY <1>4
  <2>2. QED  BY <2>1
<1>6. Resumes(sent, s, g, j)
  BY <1>2, <1>3, <1>4a, <1>5 DEF Resumes
<1>7. CASE readTask = NewReadTask /\ b = EndOf(sent, LastDispatched)
  <2>1. Complete(sent, b) /\ b.frame = LastDispatched
    BY <1>1, <1>7, EndIs
  <2>2. LastDispatched < g /\ a = 1
    BY <2>1, <1>2, <1>3, <1>4a DEF Continues
  <2>3. j = 0
    BY <2>2, <1>5
  <2>4. TaskAt(sent, [frame |-> g, at |-> 0]) = NewReadTask
    <3>1. 0 \in Nat /\ 0 <= Size(sent, g)
      BY <1>4
    <3>2. QED  BY <3>1, <1>1, TaskAtIs
  <2>5. QED  BY <1>5, <1>6, <1>7, <2>1, <2>2, <2>3, <2>4
<1>8. CASE /\ b.frame # 0 /\ b.at \in 1 .. Size(sent, b.frame) - 1
           /\ LastDispatched < b.frame
           /\ readTask = TaskAt(sent, b)
  <2>1. b \in Positions /\ b.frame \in 1 .. Len(sent)
    BY <1>1, <1>8 DEF StreamAt, ReaderAt, Positions
  <2>2. Size(sent, b.frame) \in Nat
    BY <1>1, <2>1, SizeIs
  <2>3. ~Complete(sent, b)
    BY <1>8, <2>2 DEF Complete
  <2>4. g = b.frame /\ a = b.at + 1
    BY <1>2, <1>3, <1>4a, <2>3 DEF Continues
  <2>5. j = b.at
    BY <1>5, <2>1, <2>4 DEF Positions
  <2>6. b = [frame |-> g, at |-> j]
    BY <2>1, <2>4, <2>5 DEF Positions
  <2>7. QED  BY <1>5, <1>6, <1>8, <2>4, <2>6
<1>9. QED  BY <1>7, <1>8 DEF StreamAt, ReaderAt, TaskOf

\* A frame the reader has just completed is none of those still queued.
LEMMA CompletedBeforeQueue ==
  ASSUME TypeInv, QueueOK, NEW g \in 1 .. Len(sent),
         NEW p, p = EndOf(sent, g),
         NEW q \in Seq(Byte), Follows(sent, p, q),
         NEW d, d = After(p, q), Follows(sent, d, wire),
         WriterAt(After(d, wire))
  PROVE  \A i \in 1 .. Len(writeQueue) : g < writeQueue[i].frame
<1>1. /\ sent \in Lengths /\ wire \in Seq(Byte) /\ writeQueue \in Seq(WriteTask)
      /\ Len(sent) \in Nat /\ Len(writeQueue) \in Nat /\ g \in Nat \ {0}
  BY SentLengths, LenProperties DEF TypeInv, TypeOK, Lengths
<1>2. p \in Positions /\ p.frame = g /\ Complete(sent, p) /\ p.at = Size(sent, g)
  <2>1. p \in Positions /\ p.frame = g /\ Complete(sent, p)
    BY <1>1, EndIs
  <2>2. QED  BY <2>1, <1>1 DEF EndOf
<1>3. /\ d \in Positions /\ d.frame <= Len(sent)
      /\ d = p \/ g < d.frame
  BY <1>1, <1>2, AfterIs
<1>4. PICK e : e = After(d, wire)
  OBVIOUS
<1>5. e \in Positions /\ d.frame <= e.frame /\ (Complete(sent, d) => e = d \/ d.frame < e.frame)
  BY <1>1, <1>3, <1>4, AfterIs
<1>6. e = p \/ g < e.frame
  BY <1>2, <1>3, <1>5 DEF Positions
<1>7. ASSUME NEW i \in 1 .. Len(writeQueue) PROVE g < writeQueue[i].frame
  <2>1. writeQueue # << >> /\ 1 \in 1 .. Len(writeQueue)
    BY <1>1, <1>7, EmptySeq
  <2>2. /\ writeQueue[i] \in WriteTask /\ writeQueue[1] \in WriteTask
        /\ i = 1 \/ writeQueue[1].frame < writeQueue[i].frame
        /\ writeQueue[1].offset < Size(sent, writeQueue[1].frame)
        /\ Size(sent, writeQueue[1].frame) \in Nat
    <3>1. i = 1 \/ 1 < i
      OBVIOUS
    <3>2. i = 1 \/ writeQueue[1].frame < writeQueue[i].frame
      BY <3>1, <2>1 DEF QueueOK
    <3>3. writeQueue[1].frame \in 1 .. Len(sent)
      BY <2>1 DEF TypeInv, QueuedWereSent
    <3>4. writeQueue[i] \in WriteTask /\ writeQueue[1] \in WriteTask
      BY <1>1, <2>1, ElementOfSeq
    <3>5. writeQueue[1].offset < Size(sent, writeQueue[1].frame)
      BY <2>1 DEF QueueOK
    <3>6. Size(sent, writeQueue[1].frame) \in Nat
      BY <1>1, <3>3, SizeIs
    <3>7. QED  BY <3>2, <3>4, <3>5, <3>6
  <2>3. CASE writeQueue[1].offset > 0
    <3>1. e.frame = writeQueue[1].frame /\ e.at = writeQueue[1].offset
      BY <2>1, <2>3, <1>4 DEF WriterAt
    <3>2. e # p
      BY <3>1, <2>2, <1>2 DEF WriteTask
    <3>3. g < writeQueue[1].frame
      BY <3>1, <3>2, <1>6
    <3>4. QED  BY <3>3, <2>2, <1>1 DEF WriteTask
  <2>4. CASE ~(writeQueue[1].offset > 0)
    <3>1. e.frame < writeQueue[i].frame
      BY <2>4, <1>4 DEF WriterAt
    <3>2. QED  BY <3>1, <2>2, <1>1, <1>2, <1>5, <1>6 DEF WriteTask, Positions
  <2>5. QED  BY <2>3, <2>4
<1>8. QED  BY <1>7

\* OnIncomingData is called with one more body, of a later frame than the last.
LEMMA DispatchStream ==
  ASSUME TypeInv, DispatchedOK, NEW g \in 1 .. Len(sent), LastDispatched < g, sent' = sent,
         NEW m, m.data = Slice(g, HeaderSize, sent[g]), m \in [serial : Nat, data : Seq(Byte)],
         dispatched' = Append(dispatched, m)
  PROVE  DispatchedOK' /\ LastDispatched' = g
<1>1. sent \in Lengths /\ dispatched \in Seq([serial : Nat, data : Seq(Byte)])
  BY SentLengths DEF TypeInv, TypeOK
<1>2. PICK q \in Nat : q = Len(dispatched)
  BY <1>1, LenProperties
<1>3. /\ Len(dispatched') = q + 1 /\ dispatched' # << >>
      /\ \A i \in 1 .. q : dispatched'[i] = dispatched[i]
      /\ dispatched'[q + 1] = m
  BY <1>1, <1>2, AppendProperties
<1>4. FrameIn(sent, m.data) = g /\ g \in Nat \ {0}
  <2>1. Len(sent) \in Nat
    BY <1>1, LenProperties DEF Lengths
  <2>2. QED  BY <2>1, <1>1, BodyIsOf
<1>5. LastDispatched' = g
  BY <1>3, <1>4 DEF LastDispatched
<1>6. \A data : FrameIn(sent, data) \in Nat
  BY <1>1, FrameInIs
<1>7. ASSUME NEW i \in 1 .. q
      PROVE  /\ FrameIn(sent, dispatched[i].data) # 0
             /\ FrameIn(sent, dispatched[i].data) < g
  <2>1. q \in 1 .. q /\ dispatched # << >>
    BY <1>1, <1>2, EmptySeq
  <2>2. LastDispatched = FrameIn(sent, dispatched[q].data)
    BY <2>1, <1>2 DEF LastDispatched
  <2>3. i = q \/ i < q
    OBVIOUS
  <2>4. i = q \/ FrameIn(sent, dispatched[i].data) < FrameIn(sent, dispatched[q].data)
    BY <2>1, <2>3, <1>2 DEF DispatchedOK
  <2>5. QED  BY <2>2, <2>4, <1>2, <1>4, <1>6 DEF DispatchedOK
<1>8. \A i \in 1 .. q + 1 : i \in 1 .. q \/ i = q + 1
  OBVIOUS
<1>9. ASSUME NEW k \in 1 .. q + 1 PROVE FrameIn(sent, dispatched'[k].data) # 0
  <2>1. CASE k \in 1 .. q
    BY <2>1, <1>3, <1>7
  <2>2. CASE k = q + 1
    BY <2>2, <1>3, <1>4
  <2>3. QED  BY <2>1, <2>2, <1>8
<1>10. ASSUME NEW j \in 1 .. q + 1, NEW k \in 1 .. q + 1, j < k
       PROVE  FrameIn(sent, dispatched'[j].data) < FrameIn(sent, dispatched'[k].data)
  <2>1. j \in 1 .. q
    BY <1>10
  <2>2. CASE k \in 1 .. q
    BY <2>1, <2>2, <1>2, <1>3, <1>10 DEF DispatchedOK
  <2>3. CASE k = q + 1
    BY <2>1, <2>3, <1>3, <1>4, <1>7
  <2>4. QED  BY <2>2, <2>3, <1>8
<1>11. DispatchedOK'
  BY <1>3, <1>9, <1>10 DEF DispatchedOK
<1>12. QED  BY <1>5, <1>11

\* One Read moves the reader on in the stream, from b to c.
MovesTo(b, c) ==
  /\ \E n \in 1 .. Len(Rest) : c = Rest[n] /\ Rest' = SubSeq(Rest, n + 1, Len(Rest))
  /\ b.frame = LastDispatched \/ b.frame = c.frame
  /\ Rest[1].frame = c.frame
  /\ IF dispatched' = dispatched
       THEN LastDispatched' = LastDispatched /\ readSerial' = readSerial
       ELSE /\ LastDispatched' = c.frame /\ readSerial' = readSerial + 1
            /\ \E m \in [serial : Nat, data : Seq(Byte)] :
                 /\ m.serial = readSerial /\ FrameIn(sent, m.data) = c.frame
                 /\ dispatched' = Append(dispatched, m)

LEMMA LoopReadStream ==
  ASSUME TypeInv, NEW b, StreamAt(b), LoopRead
  PROVE  \E c \in Positions : StreamAt(c)' /\ MovesTo(b, c) /\ LastDispatched < c.frame
<1>1. /\ loops # << >> /\ ~Top.dispatching /\ Top.rest # << >>
      /\ UNCHANGED <<wire, sent, writeQueue, writerUp, linkUp>>
  BY DEF LoopRead, writerVars
<1>2. /\ Len(loops) = 1 /\ Rest = Top.rest /\ Top \in InputLoop
      /\ ~Dispatching /\ ~Finished(readTask)
  BY <1>1, OneLoop DEF StreamAt, LoopsOK, TypeInv
<1>3. PICK s \in Seq(Byte) : s = Rest /\ s # << >>
  BY <1>1, <1>2 DEF InputLoop
<1>4. PICK length \in LengthsRead(readTask, s) :
        LET r == ReadTaskRead(readTask, s, length)
        IN  /\ readTask' = r.task
            /\ loops' = SetTop([rest |-> SubSeq(s, r.used + 1, Len(s)),
                                dispatching |-> Finished(r.task)])
            /\ IF Finished(r.task)
                 THEN /\ dispatched' = Append(dispatched, [serial |-> readSerial,
                                                           data   |-> r.task.data])
                      /\ readSerial' = readSerial + 1
                 ELSE UNCHANGED <<dispatched, readSerial>>
  BY <1>2, <1>3 DEF LoopRead
<1>5. PICK g \in 1 .. Len(sent), j \in Nat :
        /\ Resumes(sent, s, g, j)
        /\ j < Size(sent, g) /\ LastDispatched < g
        /\ b.frame = LastDispatched \/ b.frame = g
        /\ readTask = TaskAt(sent, [frame |-> g, at |-> j])
  BY <1>2, <1>3, ReaderResumes
<1>6. /\ sent \in Lengths /\ Len(sent) \in Nat /\ g \in Nat \ {0} /\ Len(s) \in Nat
      /\ Size(sent, g) \in Nat /\ HeaderSize \in Nat \ {0} /\ Size(sent, g) > HeaderSize
  BY SentLengths, LenProperties, SizeIs, SizesAssumption DEF TypeInv, Lengths
<1>7. PICK n \in Nat \ {0} : /\ n <= Len(s) /\ j + n <= Size(sent, g)
                             /\ n = Len(s) \/ j + n = Size(sent, g)
  <2>1. Len(s) # 0
    BY <1>3, EmptySeq
  <2>2. CASE j + Len(s) <= Size(sent, g)
    BY <2>1, <2>2, <1>6
  <2>3. CASE ~(j + Len(s) <= Size(sent, g))
    <3>1. /\ Size(sent, g) - j \in Nat \ {0} /\ Size(sent, g) - j <= Len(s)
          /\ j + (Size(sent, g) - j) = Size(sent, g)
      BY <2>3, <1>5, <1>6
    <3>2. QED  BY <3>1, <1>6
  <2>4. QED  BY <2>2, <2>3
<1>8. PICK p \in Positions : p = [frame |-> g, at |-> j + n]
  <2>1. [frame |-> g, at |-> j + n] \in Positions
    BY <1>6 DEF Positions
  <2>2. QED  BY <2>1
<1>9. PICK task : task = TaskAt(sent, p)
  OBVIOUS
<1>10. ReadTaskRead(readTask, s, length) = [task |-> task, used |-> n]
  <2>1. j < HeaderSize /\ HeaderSize <= j + n => length = sent[g]
    <3> SUFFICES ASSUME j < HeaderSize, HeaderSize <= j + n PROVE length = sent[g]
      OBVIOUS
    <3>1. HeaderSize <= j + Len(s)
      BY <1>6, <1>7
    <3>2. length \in LengthsRead(TaskAt(sent, [frame |-> g, at |-> j]), s)
      BY <1>4, <1>5
    <3>3. QED  BY <3>1, <3>2, <1>5, LengthIsOf, Zenon
  <2>2. n \in Nat
    OBVIOUS
  <2>3. Reads(TaskAt(sent, [frame |-> g, at |-> j]), s, length,
              TaskAt(sent, [frame |-> g, at |-> j + n]), n)
    BY <2>1, <2>2, <1>5, <1>6, <1>7, ReadsOn, Zenon
  <2>4. QED  BY <2>3, <1>5, <1>8, <1>9 DEF Reads
<1>11. PICK q : q = SubSeq(s, n + 1, Len(s))
  OBVIOUS
<1>12. PICK loop : loop = [rest |-> q, dispatching |-> Finished(task)]
  OBVIOUS
<1>13. /\ readTask' = task
       /\ loops' = SetTop(loop)
       /\ IF Finished(task)
            THEN /\ dispatched' = Append(dispatched, [serial |-> readSerial, data |-> task.data])
                 /\ readSerial' = readSerial + 1
            ELSE UNCHANGED <<dispatched, readSerial>>
  BY <1>4, <1>10, <1>11, <1>12
<1>14. q \in Seq(Byte) /\ Follows(sent, p, q) /\ After(p, q) = After(b, s) /\ s[n] = p
  <2>1. Follows(sent, b, s)
    BY <1>3 DEF StreamAt, ReaderAt
  <2>2. Remains(sent, b, s, n, p, q)
    BY <2>1, <1>5, <1>6, <1>7, <1>8, <1>11, ReadFollows
  <2>3. QED  BY <2>2 DEF Remains
<1>15. loop \in InputLoop
  <2>1. Finished(task) \in BOOLEAN
    BY DEF Finished
  <2>2. QED  BY <2>1, <1>12, <1>14 DEF InputLoop
<1>16. Len(loops') = 1 /\ loops' # << >> /\ loops'[1] = loop
  <2>1. /\ SetTop(loop) \in Seq(InputLoop) /\ Len(SetTop(loop)) = Len(loops)
        /\ SetTop(loop)[Len(loops)] = loop
    BY <1>1, <1>15, LoopTypes DEF TypeInv
  <2>2. loops' \in Seq(InputLoop) /\ Len(loops') = 1 /\ loops'[1] = loop
    BY <2>1, <1>2, <1>13
  <2>3. Len(<< >>) # 1
    <3>1. Len(<< >>) = 0
      BY EmptySeq
    <3>2. QED  BY <3>1
  <2>4. loops' # << >>
    BY <2>2, <2>3, Zenon
  <2>5. QED  BY <2>2, <2>4
<1>17. Rest' = q /\ (Dispatching' <=> Finished(task))
  BY <1>12, <1>16 DEF Rest, Dispatching
<1>18. LoopsOK'
  BY <1>13, <1>16, <1>17 DEF LoopsOK
<1>19. linkUp => /\ Follows(sent, After(p, q), wire)
                 /\ WriterAt(After(After(p, q), wire))
  BY <1>3, <1>14 DEF StreamAt, LinkAt
<1>20. ~linkUp => wire = << >> /\ ~writerUp /\ writeQueue = << >>
  BY <1>1 DEF StreamAt, LinkAt
<1>21. LinkAt(p)'
  <2>1. CASE linkUp
    <3>1. Follows(sent, After(p, Rest), wire)'
      BY <2>1, <1>1, <1>17, <1>19
    <3>2. After(After(p, Rest'), wire') = After(After(p, q), wire)
      BY <1>1, <1>17
    <3>3. WriterAt(After(After(p, Rest), wire))'
      BY <2>1, <3>2, <1>1, <1>19 DEF WriterAt
    <3>4. writerUp
      BY <2>1 DEF StreamAt, LinkAt
    <3>5. QED  BY <2>1, <3>1, <3>3, <3>4, <1>1 DEF LinkAt
  <2>2. CASE ~linkUp
    BY <2>2, <1>1, <1>20 DEF LinkAt
  <2>3. QED  BY <2>1, <2>2
<1>22. LET t == TaskAt(sent, [frame |-> g, at |-> j + n])
       IN  /\ Finished(t) <=> j + n = Size(sent, g)
           /\ j + n = Size(sent, g) => t.data = Slice(g, HeaderSize, sent[g])
  <2>1. j + n \in Nat
    OBVIOUS
  <2>2. QED  BY <2>1, <1>6, <1>7, TaskAtIs, Zenon
<1>22a. /\ \E i \in 1 .. Len(Rest) : p = Rest[i] /\ Rest' = SubSeq(Rest, i + 1, Len(Rest))
        /\ b.frame = LastDispatched \/ b.frame = p.frame
        /\ Rest[1].frame = p.frame
  <2>1. n \in 1 .. Len(s)
    BY <1>6, <1>7
  <2>2. p.frame = g /\ s[1].frame = g
    BY <1>5, <1>8 DEF Resumes
  <2>3. QED  BY <2>1, <2>2, <1>3, <1>5, <1>11, <1>14, <1>17
<1>23. CASE j + n = Size(sent, g)
  <2>1. Finished(task) /\ task.data = Slice(g, HeaderSize, sent[g]) /\ p = EndOf(sent, g)
    BY <1>6, <1>8, <1>9, <1>22, <1>23 DEF EndOf
  <2>2. PICK m : m = [serial |-> readSerial, data |-> task.data]
    OBVIOUS
  <2>3. m \in [serial : Nat, data : Seq(Byte)] /\ m.data = task.data
    <3>1. readSerial \in Nat /\ TaskOK(readTask')
      BY LoopReadTypes DEF TypeInv, TypeOK
    <3>2. QED  BY <3>1, <2>2, <1>13 DEF TaskOK, ReadTask
  <2>4. dispatched' = Append(dispatched, m)
    BY <2>1, <2>2, <1>13
  <2>5. DispatchedOK' /\ LastDispatched' = g
    BY <2>1, <2>3, <2>4, <1>1, <1>5, DispatchStream DEF StreamAt
  <2>6. \A i \in 1 .. Len(writeQueue) : g < writeQueue[i].frame
    <3>1. CASE linkUp
      BY <3>1, <2>1, <1>14, <1>19, CompletedBeforeQueue DEF StreamAt
    <3>2. CASE ~linkUp
      BY <3>2, <1>20, EmptySeq
    <3>3. QED  BY <3>1, <3>2
  <2>7. QueueOK'
    BY <2>5, <2>6, <1>1 DEF StreamAt, QueueOK
  <2>8. ReaderAt(p)'
    BY <2>1, <2>5, <1>1, <1>6, <1>8, <1>13, <1>14, <1>17 DEF ReaderAt, TaskOf
  <2>9. StreamAt(p)'
    BY <2>5, <2>7, <2>8, <1>18, <1>21 DEF StreamAt
  <2>10. MovesTo(b, p)
    <3>1. dispatched' # dispatched
      BY <2>4, AppendProperties DEF TypeInv, TypeOK
    <3>2. FrameIn(sent, m.data) = g /\ m.serial = readSerial /\ readSerial' = readSerial + 1
      BY <2>1, <2>2, <2>3, <1>6, <1>13, BodyIsOf
    <3>3. QED  BY <2>3, <2>4, <2>5, <3>1, <3>2, <1>8, <1>22a DEF MovesTo
  <2>11. QED  BY <2>9, <2>10, <1>5, <1>8
<1>24. CASE j + n # Size(sent, g)
  <2>1. ~Finished(task) /\ dispatched' = dispatched
    BY <1>8, <1>9, <1>13, <1>22, <1>24
  <2>2. LastDispatched' = LastDispatched /\ DispatchedOK' /\ QueueOK'
    BY <2>1, <1>1 DEF StreamAt, LastDispatched, DispatchedOK, QueueOK
  <2>3. p.frame # 0 /\ p.at \in 1 .. Size(sent, p.frame) - 1 /\ LastDispatched < p.frame
    BY <1>5, <1>6, <1>7, <1>8, <1>24
  <2>4. ReaderAt(p)'
    BY <2>1, <2>2, <2>3, <1>1, <1>6, <1>8, <1>9, <1>13, <1>14, <1>17 DEF ReaderAt, TaskOf
  <2>5. StreamAt(p)'
    BY <2>2, <2>4, <1>18, <1>21 DEF StreamAt
  <2>6. MovesTo(b, p)
    BY <2>1, <2>2, <1>13, <1>22a DEF MovesTo
  <2>7. QED  BY <2>5, <2>6, <1>5, <1>8
<1>25. QED  BY <1>23, <1>24

------------------------------------------------------------------------------
\* Frames arrive whole and in order.

LEMMA StreamInvInit == Init => StreamInv
<1> SUFFICES ASSUME Init PROVE StreamInv
  OBVIOUS
<1>1. /\ loops = << >> /\ dispatched = << >> /\ writeQueue = << >> /\ wire = << >> /\ ~linkUp
      /\ readTask = NewReadTask /\ sent = << >>
  BY DEF Init
<1>2. Rest = << >> /\ ~Dispatching /\ LastDispatched = 0
  BY <1>1 DEF Rest, Dispatching, LastDispatched
<1>3. Len(loops) = 0 /\ Len(dispatched) = 0 /\ Len(writeQueue) = 0 /\ Len(sent) = 0
  BY <1>1, EmptySeq
<1>4. ReaderAt(NoByte)
  <2>1. Follows(sent, NoByte, Rest)
    BY <1>2, FollowsNothing
  <2>2. QED  BY <2>1, <1>1, <1>2, <1>3 DEF ReaderAt, TaskOf, EndOf, NoByte, Positions
<1>5. LinkAt(NoByte) /\ LoopsOK
  BY <1>1, <1>2, <1>3, NewIsUnfinished DEF LinkAt, LoopsOK
<1>6. DispatchedOK /\ QueueOK
  BY <1>3 DEF DispatchedOK, QueueOK
<1>7. QED  BY <1>4, <1>5, <1>6 DEF StreamInv, StreamAt

LEMMA StreamInvStep ==
  ASSUME TypeInv, StreamInv, [Next]_vars
  PROVE  StreamInv'
<1> SUFFICES ASSUME ~torn' PROVE \E c : StreamAt(c)'
  BY DEF StreamInv
<1>1. ~torn
  BY DEF Next, vars, SendConnected, SendConnecting, OutputEvent, WriterHangup, InputEvent,
         LoopRead, DispatchReturns, LoopEnds, ReaderHangup, ReaderConnects, WriterGone,
         ReaderGone
<1>2. PICK b : StreamAt(b)
  BY <1>1 DEF StreamInv
<1>3. ASSUME NEW n \in BodySizes, SendConnected(n) PROVE \E c : StreamAt(c)'
  BY <1>2, <1>3, SendConnectedStream
<1>4. ASSUME NEW n \in BodySizes, SendConnecting(n) PROVE \E c : StreamAt(c)'
  BY <1>2, <1>4, SendConnectingStream
<1>5. ASSUME OutputEvent PROVE \E c : StreamAt(c)'
  BY <1>2, <1>5, OutputStream
<1>6. ASSUME InputEvent PROVE \E c : StreamAt(c)'
  BY <1>2, <1>6, InputStream
<1>7. ASSUME LoopRead PROVE \E c : StreamAt(c)'
  BY <1>2, <1>7, LoopReadStream
<1>8. ASSUME DispatchReturns PROVE \E c : StreamAt(c)'
  BY <1>2, <1>8, DispatchReturnsStream
<1>9. ASSUME LoopEnds PROVE \E c : StreamAt(c)'
  BY <1>2, <1>9, LoopEndsStream
<1>10. ASSUME WriterHangup \/ ReaderHangup \/ UNCHANGED vars PROVE \E c : StreamAt(c)'
  BY <1>2, <1>10, HangupStream
<1>11. ASSUME ReaderConnects PROVE \E c : StreamAt(c)'
  BY <1>2, <1>11, ReaderConnectsStream
<1>12. ASSUME WriterGone PROVE \E c : StreamAt(c)'
  BY <1>2, <1>12, WriterGoneStream
<1>13. ASSUME ReaderGone PROVE \E c : StreamAt(c)'
  BY <1>2, <1>13, ReaderGoneStream
<1>14. QED
  BY <1>3, <1>4, <1>5, <1>6, <1>7, <1>8, <1>9, <1>10, <1>11, <1>12, <1>13 DEF Next

\* Whatever HandleSocketEvent hands to OnIncomingData is one whole body, never twice
\* and never before an earlier one, unless a reconnect caught an end inside a frame
\* or a handler polled its own connection: for all frame sizes and buffer sizes,
\* however a frame is cut by the socket.
THEOREM IntactUnlessTornInvariant == Spec => []IntactUnlessTorn
<1>1. TypeInv /\ StreamInv /\ [Next]_vars => (TypeInv /\ StreamInv)'
  BY TypeInvStep, StreamInvStep
<1>2. TypeInv /\ StreamInv => IntactUnlessTorn
  <2> SUFFICES ASSUME TypeInv, StreamInv, ~torn
               PROVE  /\ \A k \in DOMAIN dispatched : FrameOf(dispatched[k].data) # 0
                      /\ \A j, k \in DOMAIN dispatched :
                           j < k => FrameOf(dispatched[j].data) < FrameOf(dispatched[k].data)
    BY DEF IntactUnlessTorn
  <2>1. DispatchedOK
    BY DEF StreamInv, StreamAt
  <2>2. \A data : FrameOf(data) = FrameIn(sent, data)
    BY DEF FrameOf, Body, FrameIn
  <2>3. DOMAIN dispatched = 1 .. Len(dispatched)
    BY LenProperties DEF TypeInv, TypeOK
  <2>4. QED  BY <2>1, <2>2, <2>3 DEF DispatchedOK
<1>3. QED  BY <1>1, <1>2, TypeInvInit, StreamInvInit, PTL DEF Spec

------------------------------------------------------------------------------
\* Streams without gaps: while the socket does not break no frame is missing either.

Steps(b, s) ==
  \A i \in 1 .. Len(s) : s[i].frame <= (IF i = 1 THEN b ELSE s[i - 1]).frame + 1

LEMMA StepsNothing == ASSUME NEW b PROVE Steps(b, << >>)
BY EmptySeq DEF Steps

LEMMA StepsCut ==
  ASSUME NEW b, NEW s \in Seq(Byte), Steps(b, s), NEW n \in 0 .. Len(s)
  PROVE  /\ Steps(b, SubSeq(s, 1, n))
         /\ Steps(After(b, SubSeq(s, 1, n)), SubSeq(s, n + 1, Len(s)))
         /\ n > 0 => After(b, SubSeq(s, 1, n)) = s[n]
<1> DEFINE p == SubSeq(s, 1, n)
           q == SubSeq(s, n + 1, Len(s))
<1>1. PICK l \in Nat : l = Len(s)
  BY LenProperties
<1>2. n \in Nat /\ n <= l
  BY <1>1
<1>3. p \in Seq(Byte) /\ Len(p) = n /\ \A i \in 1 .. n : p[i] = s[i]
  <2>1. \A i \in 1 .. n : s[i] \in Byte
    BY <1>1, <1>2, ElementOfSeq
  <2>2. /\ p \in Seq(Byte) /\ Len(p) = IF 1 <= n THEN n - 1 + 1 ELSE 0
        /\ \A i \in 1 .. n - 1 + 1 : p[i] = s[1 + i - 1]
    BY <1>2, <2>1, SubSeqProperties
  <2> HIDE DEF p
  <2>3. Len(p) = n
    BY <1>2, <2>2
  <2>4. \A i \in 1 .. n : i \in 1 .. n - 1 + 1 /\ 1 + i - 1 = i
    BY <1>2
  <2>5. \A i \in 1 .. n : p[i] = s[i]
    BY <2>2, <2>4
  <2>6. QED  BY <2>2, <2>3, <2>5
<1>4. q \in Seq(Byte) /\ Len(q) = l - n /\ \A i \in 1 .. l - n : q[i] = s[n + i]
  <2>1. \A i \in n + 1 .. l : s[i] \in Byte
    BY <1>1, <1>2, ElementOfSeq
  <2>2. /\ q \in Seq(Byte) /\ Len(q) = IF n + 1 <= l THEN l - (n + 1) + 1 ELSE 0
        /\ \A i \in 1 .. l - (n + 1) + 1 : q[i] = s[n + 1 + i - 1]
    BY <1>1, <1>2, <2>1, SubSeqProperties
  <2> HIDE DEF q
  <2>3. Len(q) = l - n
    BY <1>2, <2>2
  <2>4. \A i \in 1 .. l - n : i \in 1 .. l - (n + 1) + 1 /\ n + 1 + i - 1 = n + i
    BY <1>2
  <2>5. \A i \in 1 .. l - n : q[i] = s[n + i]
    BY <2>2, <2>4
  <2>6. QED  BY <2>2, <2>3, <2>5
<1> HIDE DEF p, q
<1>5. IF n = 0 THEN After(b, p) = b ELSE After(b, p) = s[n]
  <2>1. CASE n = 0
    <3>1. p = << >>
      BY <2>1, <1>3, EmptySeq
    <3>2. QED  BY <2>1, <3>1 DEF After
  <2>2. CASE n # 0
    <3>1. p # << >>
      <4>1. Len(<< >>) = 0
        BY EmptySeq
      <4>2. QED  BY <4>1, <2>2, <1>3
    <3>2. p[n] = s[n]
      BY <2>2, <1>2, <1>3
    <3>3. QED  BY <2>2, <3>1, <3>2, <1>3 DEF After
  <2>3. QED  BY <2>1, <2>2
<1>6. Steps(b, p)
  <2> SUFFICES ASSUME NEW i \in 1 .. n
               PROVE  p[i].frame <= (IF i = 1 THEN b ELSE p[i - 1]).frame + 1
    BY <1>3 DEF Steps
  <2>1. s[i].frame <= (IF i = 1 THEN b ELSE s[i - 1]).frame + 1
    <3>1. i \in 1 .. Len(s)
      BY <1>1, <1>2
    <3>2. QED  BY <3>1 DEF Steps
  <2>2. i = 1 \/ i - 1 \in 1 .. n
    BY <1>2
  <2>3. QED  BY <2>1, <2>2, <1>3
<1>7. Steps(After(b, p), q)
  <2> SUFFICES ASSUME NEW i \in 1 .. l - n
               PROVE  q[i].frame <= (IF i = 1 THEN After(b, p) ELSE q[i - 1]).frame + 1
    BY <1>4 DEF Steps
  <2>1. PICK k \in 1 .. l : k = n + i
    BY <1>2
  <2>2. s[k].frame <= (IF k = 1 THEN b ELSE s[k - 1]).frame + 1 /\ q[i] = s[k]
    BY <2>1, <1>1, <1>4 DEF Steps
  <2>3. CASE i = 1
    <3>1. k = 1 <=> n = 0
      BY <2>1, <2>3, <1>2
    <3>2. k - 1 = n
      BY <2>1, <2>3, <1>2
    <3>3. After(b, p) = IF k = 1 THEN b ELSE s[k - 1]
      BY <3>1, <3>2, <1>5
    <3>4. QED  BY <2>2, <2>3, <3>3
  <2>4. CASE i # 1
    <3>1. i - 1 \in 1 .. l - n /\ k # 1 /\ n + (i - 1) = k - 1
      BY <2>1, <2>4, <1>2
    <3>2. q[i - 1] = s[k - 1]
      BY <3>1, <1>4
    <3>3. QED  BY <2>2, <2>4, <3>1, <3>2
  <2>5. QED  BY <2>3, <2>4
<1>8. n > 0 => After(b, p) = s[n]
  BY <1>5
<1>9. QED  BY <1>6, <1>7, <1>8 DEF p, q

LEMMA StepsJoin ==
  ASSUME NEW b, NEW s \in Seq(Byte), NEW t \in Seq(Byte), Steps(b, s), Steps(After(b, s), t)
  PROVE  Steps(b, s \o t)
<1> DEFINE u == s \o t
<1>1. PICK m \in Nat, n \in Nat : m = Len(s) /\ n = Len(t)
  BY LenProperties
<1>2. /\ Len(u) = m + n
      /\ \A i \in 1 .. m + n : u[i] = IF i <= m THEN s[i] ELSE t[i - m]
  BY <1>1, ConcatProperties
<1> HIDE DEF u
<1>3. After(b, s) = IF m = 0 THEN b ELSE s[m]
  <2>1. s = << >> <=> m = 0
    BY <1>1, EmptySeq
  <2>2. QED  BY <2>1, <1>1 DEF After
<1>4. ASSUME NEW i \in 1 .. m + n
      PROVE  u[i].frame <= (IF i = 1 THEN b ELSE u[i - 1]).frame + 1
  <2>1. CASE i <= m
    <3>1. i \in 1 .. m /\ (i = 1 \/ (i - 1 \in 1 .. m + n /\ i - 1 <= m))
      BY <2>1
    <3>2. u[i] = s[i] /\ (i = 1 \/ u[i - 1] = s[i - 1])
      BY <3>1, <2>1, <1>2
    <3>3. s[i].frame <= (IF i = 1 THEN b ELSE s[i - 1]).frame + 1
      BY <3>1, <1>1 DEF Steps
    <3>4. QED  BY <3>2, <3>3
  <2>2. CASE ~(i <= m)
    <3>1. PICK k \in 1 .. n : k = i - m
      BY <2>2
    <3>2. u[i] = t[k]
      BY <2>2, <3>1, <1>2
    <3>3. t[k].frame <= (IF k = 1 THEN After(b, s) ELSE t[k - 1]).frame + 1
      BY <1>1 DEF Steps
    <3>4. CASE k = 1
      <4>1. i = m + 1 /\ (i = 1 <=> m = 0) /\ (i = 1 \/ (i - 1 = m /\ m \in 1 .. m + n /\ m <= m))
        BY <3>1, <3>4
      <4>2. i = 1 \/ u[i - 1] = s[m]
        BY <4>1, <1>2
      <4>3. After(b, s) = IF i = 1 THEN b ELSE u[i - 1]
        BY <4>1, <4>2, <1>3
      <4>4. QED  BY <3>2, <3>3, <3>4, <4>3
    <3>5. CASE k # 1
      <4>1. i - 1 \in 1 .. m + n /\ ~(i - 1 <= m) /\ i # 1 /\ (i - 1) - m = k - 1
        BY <3>1, <3>5
      <4>2. u[i - 1] = t[k - 1]
        BY <4>1, <1>2
      <4>3. QED  BY <3>2, <3>3, <3>5, <4>1, <4>2
    <3>6. QED  BY <3>4, <3>5
  <2>3. QED  BY <2>1, <2>2
<1>5. Steps(b, u)
  BY <1>2, <1>4 DEF Steps
<1>6. QED  BY <1>5 DEF u

LEMMA StepsOfSlice ==
  ASSUME NEW e, e.frame \in Nat, NEW f \in Nat \ {0}, f <= e.frame + 1,
         NEW o \in Nat, NEW r \in Nat
  PROVE  Steps(e, Slice(f, o, r))
<1> DEFINE s == Slice(f, o, r)
<1>1. Len(s) = r /\ \A i \in 1 .. r : s[i].frame = f
  <2>1. Len(s) = r
    BY SliceType
  <2>2. QED  BY <2>1 DEF Slice
<1> HIDE DEF s
<1>2. ASSUME NEW i \in 1 .. r PROVE s[i].frame <= (IF i = 1 THEN e ELSE s[i - 1]).frame + 1
  <2>1. CASE i = 1
    BY <2>1, <1>1
  <2>2. CASE i # 1
    <3>1. i - 1 \in 1 .. r
      BY <2>2
    <3>2. s[i].frame = f /\ s[i - 1].frame = f /\ f <= f + 1
      BY <3>1, <1>1
    <3>3. QED  BY <2>2, <3>2
  <2>3. QED  BY <2>1, <2>2
<1>3. Steps(e, s)
  BY <1>1, <1>2 DEF Steps
<1>4. QED  BY <1>3 DEF s

------------------------------------------------------------------------------
\* While the socket does not break: both ends have it, or nothing has happened yet;
\* the k-th frame is the k-th dispatched, under serial k - 1; the queue holds the
\* last frames sent, and none is missing between them and the reader.

Unbroken ==
  /\ ~torn /\ breaks = 0
  /\ writerUp <=> linkUp
  /\ readerUp <=> linkUp
  /\ ~linkUp => /\ sent = << >> /\ writeQueue = << >> /\ loops = << >> /\ dispatched = << >>
                /\ readTask = NewReadTask

Counted ==
  /\ readSerial = Len(dispatched)
  /\ \A k \in 1 .. Len(dispatched) :
       dispatched[k].serial + 1 = k /\ FrameIn(sent, dispatched[k].data) = k
  /\ \A i \in 1 .. Len(writeQueue) : writeQueue[i].frame + Len(writeQueue) = Len(sent) + i

DenseAt(b) ==
  /\ b.frame <= LastDispatched + 1
  /\ Steps(b, Rest)
  /\ linkUp => /\ Steps(After(b, Rest), wire)
               /\ Len(sent) <= After(After(b, Rest), wire).frame + Len(writeQueue)

DenseInv == Unbroken /\ Counted /\ \E b \in Positions : StreamAt(b) /\ DenseAt(b)

LEMMA LastIsCount ==
  ASSUME TypeOK, Counted
  PROVE  LastDispatched = Len(dispatched) /\ Len(dispatched) \in Nat
<1>1. dispatched \in Seq([serial : Nat, data : Seq(Byte)]) /\ Len(dispatched) \in Nat
  BY LenProperties DEF TypeOK
<1>2. CASE dispatched = << >>
  BY <1>1, <1>2, EmptySeq DEF LastDispatched
<1>3. CASE dispatched # << >>
  <2>1. Len(dispatched) \in 1 .. Len(dispatched)
    BY <1>1, <1>3, EmptySeq
  <2>2. QED  BY <2>1, <1>1, <1>3 DEF LastDispatched, Counted
<1>4. QED  BY <1>2, <1>3

\* Send appends the next frame to the queue.
LEMMA EnqueueCounted ==
  ASSUME TypeInv, Counted, NEW n \in BodySizes, Enqueue(n), dispatched' = dispatched,
         readSerial' = Len(dispatched)
  PROVE  Counted' /\ Len(sent') = Len(sent) + 1 /\ Len(writeQueue') = Len(writeQueue) + 1
<1>1. /\ writeQueue \in Seq(WriteTask) /\ sent \in Lengths /\ n \in Nat \ {0}
      /\ sent' = Append(sent, n)
  BY SizesAssumption, SentLengths DEF TypeInv, TypeOK, Enqueue
<1>2. PICK q \in Nat, l \in Nat : q = Len(writeQueue) /\ l = Len(sent)
  BY <1>1, LenProperties DEF Lengths
<1>3. PICK task : task = [frame |-> l + 1, offset |-> 0]
  OBVIOUS
<1>4. task \in WriteTask /\ writeQueue' = Append(writeQueue, task) /\ task.frame = l + 1
  BY <1>2, <1>3 DEF WriteTask, Enqueue
<1>5. /\ Len(writeQueue') = q + 1
      /\ \A i \in 1 .. q : writeQueue'[i] = writeQueue[i]
      /\ writeQueue'[q + 1] = task
  BY <1>1, <1>2, <1>4, AppendProperties
<1>6. Len(sent') = l + 1
  BY <1>1, <1>2, AppendProperties DEF Lengths
<1>7. ASSUME NEW k \in 1 .. Len(dispatched)
      PROVE  dispatched[k].serial + 1 = k /\ FrameIn(sent', dispatched[k].data) = k
  <2>1. dispatched[k].serial + 1 = k /\ FrameIn(sent, dispatched[k].data) = k /\ k # 0
    BY DEF Counted
  <2>2. QED  BY <2>1, <1>1, SendKnown
<1>8. ASSUME NEW i \in 1 .. q + 1
      PROVE  writeQueue'[i].frame + (q + 1) = (l + 1) + i
  <2>1. CASE i \in 1 .. q
    <3>1. writeQueue[i] \in WriteTask /\ writeQueue[i].frame + q = l + i
      BY <2>1, <1>1, <1>2, ElementOfSeq DEF Counted
    <3>2. writeQueue'[i] = writeQueue[i]
      BY <2>1, <1>5
    <3>3. QED  BY <3>1, <3>2 DEF WriteTask
  <2>2. CASE i = q + 1
    BY <2>2, <1>4, <1>5
  <2>3. QED  BY <2>1, <2>2
<1>9. Counted'
  BY <1>5, <1>6, <1>7, <1>8 DEF Counted
<1>10. QED  BY <1>2, <1>5, <1>6, <1>9

LEMMA SendConnectedDense ==
  ASSUME TypeInv, DenseInv, NEW n \in BodySizes, SendConnected(n)
  PROVE  DenseInv'
<1>1. PICK b \in Positions : StreamAt(b) /\ DenseAt(b)
  BY DEF DenseInv
<1>2. /\ Enqueue(n) /\ writerUp /\ linkUp
      /\ UNCHANGED <<writerUp, linkUp, readerUp, wire, readTask, readSerial, loops,
                     dispatched, breaks, torn>>
  BY DEF SendConnected, readerVars, DenseInv, Unbroken
<1>3. StreamAt(b)'
  BY <1>1, SendConnectedStream
<1>4. Unbroken'
  BY <1>2 DEF DenseInv, Unbroken
<1>5. Counted' /\ Len(sent') = Len(sent) + 1 /\ Len(writeQueue') = Len(writeQueue) + 1
  BY <1>2, EnqueueCounted DEF DenseInv, Counted
<1>6. Rest' = Rest
  BY <1>2 DEF Rest
<1>7. LastDispatched' = LastDispatched
  BY <1>1, <1>2, SendHistory, SizesAssumption DEF StreamAt, Enqueue
<1>8. PICK e \in Positions : e = After(After(b, Rest), wire)
  BY <1>1, <1>2, StreamTypes DEF StreamAt, LinkAt
<1>9. Len(sent') <= e.frame + Len(writeQueue')
  <2>1. Len(sent) \in Nat /\ Len(writeQueue) \in Nat /\ e.frame \in Nat
    BY SentTypes, LenProperties DEF TypeInv, TypeOK, Positions
  <2>2. Len(sent) <= e.frame + Len(writeQueue)
    BY <1>1, <1>2, <1>8 DEF DenseAt
  <2>3. QED  BY <2>1, <2>2, <1>5
<1>10. DenseAt(b)'
  BY <1>1, <1>2, <1>6, <1>7, <1>8, <1>9 DEF DenseAt
<1>11. QED  BY <1>3, <1>4, <1>5, <1>10 DEF DenseInv

\* The first end to connect finds nothing sent yet.
LEMMA ConnectingDense ==
  ASSUME TypeInv, DenseInv, NEW n \in BodySizes, SendConnecting(n)
  PROVE  DenseInv'
<1>1. /\ Enqueue(n) /\ loops' = << >> /\ dispatched' = dispatched /\ wire' = << >>
      /\ writerUp' /\ linkUp' /\ readerUp' /\ readSerial' = 0 /\ breaks' = breaks
      /\ readTask' = NewReadTask
      /\ sent = << >> /\ writeQueue = << >> /\ dispatched = << >>
      /\ torn' = (torn \/ (writeQueue # << >> /\ Head(writeQueue).offset > 0))
      /\ sent' = Append(sent, n)
  BY DEF SendConnecting, DenseInv, Unbroken, Enqueue
<1>2. Unbroken'
  BY <1>1 DEF DenseInv, Unbroken
<1>3. Len(sent) = 0 /\ Len(writeQueue) = 0 /\ Len(dispatched) = 0
  BY <1>1, EmptySeq
<1>4. Counted' /\ Len(sent') = 1 /\ Len(writeQueue') = 1
  BY <1>1, <1>3, EnqueueCounted DEF DenseInv
<1>5. Rest' = << >> /\ LastDispatched' = 0
  BY <1>1 DEF Rest, LastDispatched
<1>6. PICK c : StreamAt(c)'
  BY <1>1, <1>2, SendConnectingStream DEF DenseInv, Unbroken
<1>7. c \in Positions /\ c.frame <= Len(sent') /\ TaskOf(c)'
  BY <1>6 DEF StreamAt, ReaderAt
<1>8. c = NoByte
  <2>1. sent' \in Lengths
    <3>1. sent \in Lengths /\ n \in Nat \ {0}
      BY SentLengths, SizesAssumption DEF TypeInv
    <3>2. QED  BY <3>1, <1>1, SendingKeeps
  <2>2. ~(c.frame # 0 /\ c.at \in 1 .. Size(sent', c.frame) - 1 /\ readTask' = TaskAt(sent', c))
    BY <2>1, <1>1, <1>7, InsideIs
  <2>3. c = EndOf(sent', LastDispatched')
    BY <2>2, <1>7 DEF TaskOf
  <2>4. QED  BY <2>3, <1>5 DEF EndOf
<1>9. DenseAt(c)'
  <2>1. Steps(c, Rest)' /\ Steps(c, wire)' /\ After(c, Rest') = c /\ After(c, wire') = c
    BY <1>1, <1>5, StepsNothing, FollowsNothing
  <2>2. c.frame = 0 /\ 0 <= 0 + 1 /\ 1 <= 0 + 1
    BY <1>8 DEF NoByte
  <2>3. Steps(After(c, Rest), wire)' /\ After(After(c, Rest'), wire').frame = 0
    BY <2>1, <2>2
  <2>4. QED  BY <2>1, <2>2, <2>3, <1>4, <1>5 DEF DenseAt
<1>10. QED  BY <1>2, <1>4, <1>6, <1>7, <1>9 DEF DenseInv

LEMMA ReaderConnectsDense ==
  ASSUME TypeInv, DenseInv, ReaderConnects
  PROVE  DenseInv'
<1>1. PICK b \in Positions : StreamAt(b) /\ DenseAt(b)
  BY DEF DenseInv
<1>2. /\ writerUp' /\ linkUp' /\ readerUp' /\ wire' = << >> /\ writeQueue' = << >>
      /\ sent = << >> /\ dispatched = << >> /\ loops = << >> /\ readTask = NewReadTask
      /\ torn' = (torn \/ InsideFrame) /\ ~torn
      /\ UNCHANGED <<breaks, sent, dispatched, loops, readTask, readSerial>>
  BY DEF ReaderConnects, DenseInv, Unbroken
<1>3. ~torn'
  BY <1>2 DEF InsideFrame
<1>4. Unbroken'
  BY <1>2, <1>3 DEF DenseInv, Unbroken
<1>5. StreamAt(b)'
  BY <1>1, <1>3, ReaderConnectsStream
<1>6. Len(sent') = 0 /\ Len(writeQueue') = 0 /\ Len(dispatched') = 0
  BY <1>2, EmptySeq
<1>7. Counted'
  BY <1>2, <1>6 DEF DenseInv, Counted
<1>8. Rest' = Rest /\ LastDispatched' = LastDispatched /\ Rest = << >>
  BY <1>2 DEF Rest, LastDispatched
<1>9. DenseAt(b)'
  <2>1. Steps(b, << >>) /\ After(b, << >>) = b
    BY StepsNothing, FollowsNothing
  <2>2. 0 <= b.frame + 0
    BY DEF Positions
  <2>3. b.frame <= LastDispatched' + 1
    BY <1>1, <1>8 DEF DenseAt
  <2>4. Rest' = << >> /\ wire' = << >>
    BY <1>2, <1>8
  <2>5. Steps(b, Rest') /\ Steps(After(b, Rest'), wire') /\ After(After(b, Rest'), wire') = b
    BY <2>1, <2>4
  <2>6. QED  BY <2>2, <2>3, <2>5, <1>6 DEF DenseAt
<1>10. QED  BY <1>4, <1>5, <1>7, <1>9 DEF DenseInv

LEMMA OutputDense ==
  ASSUME TypeInv, DenseInv, OutputEvent
  PROVE  DenseInv'
<1> DEFINE task == Head(writeQueue)
           left == FrameSize(task.frame) - task.offset
           room == SocketBuffer - Len(wire)
<1>1. PICK b \in Positions : StreamAt(b) /\ DenseAt(b)
  BY DEF DenseInv
<1>2. PICK r \in 1 .. Least(left, room) :
        /\ wire' = wire \o Slice(task.frame, task.offset, r)
        /\ writeQueue' = IF r = left THEN Tail(writeQueue)
                         ELSE [writeQueue EXCEPT ![1].offset = @ + r]
  BY DEF OutputEvent
<1>3. /\ writeQueue \in Seq(WriteTask) /\ writeQueue # << >> /\ wire \in Seq(Byte)
      /\ linkUp /\ writerUp /\ r \in Nat \ {0}
      /\ UNCHANGED <<sent, dispatched, readTask, readSerial, loops, linkUp, writerUp,
                     readerUp, breaks, torn>>
  BY DEF TypeInv, TypeOK, OutputEvent, readerVars
<1>4. PICK l \in Nat \ {0} : l = Len(writeQueue) /\ task = writeQueue[1]
  BY <1>3, EmptySeq
<1>5. PICK f \in Nat \ {0}, o \in Nat : task.frame = f /\ task.offset = o /\ task \in WriteTask
  <2>1. 1 \in 1 .. Len(writeQueue)
    BY <1>4
  <2>2. task \in WriteTask
    BY <2>1, <1>3, <1>4, ElementOfSeq
  <2>3. QED  BY <2>2 DEF WriteTask
<1>6. f + l = Len(sent) + 1 /\ Len(sent) \in Nat
  <2>1. 1 \in 1 .. Len(writeQueue)
    BY <1>4
  <2>2. Len(sent) \in Nat
    BY SentTypes DEF TypeInv
  <2>3. QED  BY <2>1, <2>2, <1>4, <1>5 DEF DenseInv, Counted
<1>7. PICK s \in Seq(Byte) : s = Slice(f, o, r) /\ wire' = wire \o s
  BY <1>2, <1>3, <1>5, SliceType
<1>8. PICK c : c = After(b, Rest)
  OBVIOUS
<1>9. PICK e \in Positions : e = After(c, wire)
  BY <1>1, <1>3, <1>8, StreamTypes DEF StreamAt, LinkAt
<1>10. Steps(c, wire) /\ Len(sent) <= e.frame + l
  BY <1>1, <1>3, <1>4, <1>8, <1>9 DEF DenseAt
<1>11. Steps(c, wire')
  <2>1. f <= e.frame + 1 /\ e.frame \in Nat
    BY <1>6, <1>10 DEF Positions
  <2>2. Steps(e, s)
    BY <2>1, <1>3, <1>7, StepsOfSlice
  <2>3. QED  BY <2>2, <1>3, <1>7, <1>9, <1>10, StepsJoin
<1>12. After(c, wire').frame = f
  <2>1. PICK m \in Nat : m = Len(wire)
    BY <1>3, LenProperties
  <2>2. Len(s) = r /\ s[r].frame = f
    <3>1. Len(Slice(f, o, r)) = r
      BY <1>3, SliceType
    <3>2. Slice(f, o, r)[r].frame = f
      BY <1>3 DEF Slice
    <3>3. QED  BY <3>1, <3>2, <1>7
  <2>3. /\ wire \o s \in Seq(Byte) /\ Len(wire \o s) = m + r
        /\ \A i \in 1 .. m + r : (wire \o s)[i] = IF i <= m THEN wire[i] ELSE s[i - m]
    BY <2>1, <2>2, <1>3, ConcatProperties
  <2>4. m + r \in 1 .. m + r /\ ~(m + r <= m) /\ (m + r) - m = r
    BY <1>3
  <2>5. wire'[Len(wire')] = s[r]
    BY <2>3, <2>4, <1>7
  <2>6. wire' # << >>
    <3>1. Len(<< >>) = 0 /\ m + r # 0
      BY <1>3, EmptySeq
    <3>2. QED  BY <3>1, <2>3, <1>7
  <2>7. QED  BY <2>2, <2>5, <2>6 DEF After
<1>13. /\ Len(sent) <= f + Len(writeQueue')
       /\ \A i \in 1 .. Len(writeQueue') : writeQueue'[i].frame + Len(writeQueue') = Len(sent) + i
  <2>1. CASE r = left
    <3>1. /\ Len(writeQueue') = l - 1
          /\ \A i \in 1 .. Len(writeQueue') : writeQueue'[i] = writeQueue[i + 1]
      BY <2>1, <1>2, <1>3, <1>4, HeadTailProperties
    <3>2. Len(sent) <= f + Len(writeQueue')
      BY <3>1, <1>6
    <3>3. ASSUME NEW i \in 1 .. l - 1
          PROVE  writeQueue'[i].frame + (l - 1) = Len(sent) + i
      <4>1. PICK k \in 1 .. l : k = i + 1
        OBVIOUS
      <4>2. writeQueue[k].frame + l = Len(sent) + k /\ writeQueue[k] \in WriteTask
        BY <1>3, <1>4, ElementOfSeq DEF DenseInv, Counted
      <4>3. writeQueue'[i] = writeQueue[k]
        BY <3>1, <4>1
      <4>4. PICK x \in Nat : x = writeQueue[k].frame
        BY <4>2 DEF WriteTask
      <4>5. x + l = Len(sent) + k
        BY <4>2, <4>4
      <4>6. x + (l - 1) = Len(sent) + i
        BY <4>1, <4>5, <1>6
      <4>7. QED  BY <4>3, <4>4, <4>6
    <3>4. QED  BY <3>1, <3>2, <3>3
  <2>2. CASE r # left
    <3>1. PICK rest : rest = [task EXCEPT !.offset = @ + r]
      OBVIOUS
    <3>2. rest \in WriteTask /\ rest.frame = f
      BY <3>1, <1>3, <1>5 DEF WriteTask
    <3>3. writeQueue' = [writeQueue EXCEPT ![1] = rest]
      BY <2>2, <3>1, <1>2, <1>4
    <3>4. /\ Len(writeQueue') = l
          /\ \A i \in 1 .. l : writeQueue'[i] = IF i = 1 THEN rest ELSE writeQueue[i]
      <4>1. 1 \in 1 .. Len(writeQueue)
        BY <1>4
      <4>2. QED  BY <4>1, <3>2, <3>3, <1>3, <1>4, ExceptSeq
    <3>5. ASSUME NEW i \in 1 .. l PROVE writeQueue'[i].frame = writeQueue[i].frame
      BY <3>2, <3>4, <1>4, <1>5
    <3>6. Len(sent) <= f + l
      BY <1>6
    <3>7. QED  BY <3>4, <3>5, <3>6, <1>4 DEF DenseInv, Counted
  <2>3. QED  BY <2>1, <2>2
<1>14. Rest' = Rest /\ LastDispatched' = LastDispatched
  BY <1>3 DEF Rest, LastDispatched
<1>15. DenseAt(b)'
  <2>1. Steps(After(b, Rest'), wire') /\ After(After(b, Rest'), wire').frame = f
    BY <1>8, <1>11, <1>12, <1>14
  <2>2. QED  BY <2>1, <1>1, <1>3, <1>13, <1>14 DEF DenseAt
<1>16. Counted' /\ Unbroken'
  BY <1>3, <1>13 DEF DenseInv, Counted, Unbroken
<1>17. StreamAt(b)'
  BY <1>1, OutputStream
<1>18. QED  BY <1>15, <1>16, <1>17 DEF DenseInv

LEMMA InputDense ==
  ASSUME TypeInv, DenseInv, InputEvent, MaxDepth <= 1
  PROVE  DenseInv'
<1>1. PICK b \in Positions : StreamAt(b) /\ DenseAt(b)
  BY DEF DenseInv
<1>2. PICK n : n = Least(ReadBufferSize, Len(wire))
  OBVIOUS
<1>3. PICK loop : loop = [rest |-> SubSeq(wire, 1, n), dispatching |-> FALSE]
  OBVIOUS
<1>4. /\ linkUp /\ loops' = Append(loops, loop) /\ torn' = (torn \/ loops # << >>)
      /\ wire' = SubSeq(wire, n + 1, Len(wire)) /\ Len(loops) < MaxDepth
      /\ UNCHANGED <<readTask, readSerial, dispatched, sent, writeQueue, writerUp, linkUp,
                     readerUp, breaks>>
  BY <1>2, <1>3 DEF InputEvent, writerVars
<1>5. loops = << >>
  <2>1. Len(loops) \in Nat /\ MaxDepth \in Nat
    BY LenProperties, BoundsAssumption DEF TypeInv, TypeOK
  <2>2. Len(loops) = 0
    BY <2>1, <1>4
  <2>3. QED  BY <2>2, EmptySeq DEF TypeInv, TypeOK
<1>6. ~torn'
  BY <1>4, <1>5 DEF DenseInv, Unbroken
<1>7. StreamAt(b)'
  BY <1>1, <1>6, InputStream
<1>8. Unbroken' /\ Counted'
  BY <1>4, <1>6 DEF DenseInv, Unbroken, Counted
<1>9. wire \in Seq(Byte) /\ n \in 0 .. Len(wire)
  <2>1. wire \in Seq(Byte) /\ Len(wire) \in Nat /\ ReadBufferSize \in Nat
    BY LenProperties, SizesAssumption DEF TypeInv, TypeOK
  <2>2. n \in Nat /\ n <= Len(wire)
    BY <2>1, <1>2, LeastIsNat
  <2>3. QED  BY <2>1, <2>2
<1>10. Rest = << >> /\ After(b, Rest) = b
  BY <1>5, FollowsNothing DEF Rest
<1>11. Rest' = SubSeq(wire, 1, n)
  <2>1. loops' # << >> /\ loops'[1] = loop
    BY <1>4, <1>5, EmptySeq
  <2>2. loop.rest = SubSeq(wire, 1, n)
    BY <1>3
  <2>3. Rest' = loop.rest
    BY <2>1, Zenon DEF Rest
  <2>4. QED  BY <2>2, <2>3
<1>12. Steps(b, wire) /\ Len(sent) <= After(b, wire).frame + Len(writeQueue)
  BY <1>1, <1>4, <1>10 DEF DenseAt
<1>13. Steps(b, Rest') /\ Steps(After(b, Rest'), wire')
  BY <1>4, <1>9, <1>11, <1>12, StepsCut
<1>14. After(After(b, Rest'), wire') = After(b, wire)
  <2>1. Follows(sent, After(b, Rest), wire)
    BY <1>1, <1>4 DEF StreamAt, LinkAt
  <2>2. Follows(sent, b, wire) /\ sent \in Lengths
    BY <2>1, <1>10, SentLengths DEF TypeInv
  <2>3. QED  BY <2>2, <1>4, <1>9, <1>11, FollowsCut
<1>15. LastDispatched' = LastDispatched
  BY <1>4 DEF LastDispatched
<1>16. DenseAt(b)'
  BY <1>1, <1>4, <1>12, <1>13, <1>14, <1>15 DEF DenseAt
<1>17. QED  BY <1>7, <1>8, <1>16 DEF DenseInv

\* What one more dispatch adds is the next frame under the next serial.
NextDelivered ==
  \E m \in [serial : Nat, data : Seq(Byte)] :
    /\ dispatched' = Append(dispatched, m)
    /\ m.serial = Len(dispatched) /\ FrameIn(sent, m.data) = Len(dispatched) + 1
    /\ Len(dispatched) < Len(sent)

LEMMA LoopReadDense ==
  ASSUME TypeInv, DenseInv, LoopRead
  PROVE  DenseInv' /\ (dispatched' = dispatched \/ NextDelivered)
<1>1. PICK b \in Positions : StreamAt(b) /\ DenseAt(b)
  BY DEF DenseInv
<1>2. PICK c \in Positions : StreamAt(c)' /\ MovesTo(b, c) /\ LastDispatched < c.frame
  BY <1>1, LoopReadStream
<1>3. /\ loops # << >>
      /\ UNCHANGED <<wire, sent, writeQueue, writerUp, linkUp, readerUp, breaks, torn>>
  BY DEF LoopRead, writerVars
<1>4. PICK n \in 1 .. Len(Rest) : c = Rest[n] /\ Rest' = SubSeq(Rest, n + 1, Len(Rest))
  BY <1>2 DEF MovesTo
<1>5. PICK s \in Seq(Byte) : s = Rest /\ Follows(sent, b, s)
  BY <1>1, StreamTypes DEF StreamAt, ReaderAt
<1>6. Steps(b, s) /\ n \in 0 .. Len(s) /\ n > 0 /\ n \in Nat
  <2>1. Len(s) \in Nat
    BY <1>5, LenProperties
  <2>2. QED  BY <2>1, <1>1, <1>4, <1>5 DEF DenseAt
<1>7. Steps(c, Rest') /\ After(b, SubSeq(s, 1, n)) = c
  BY <1>4, <1>5, <1>6, StepsCut
<1>8. After(c, Rest') = After(b, Rest)
  <2>1. sent \in Lengths
    BY SentLengths DEF TypeInv
  <2>2. After(After(b, SubSeq(s, 1, n)), SubSeq(s, n + 1, Len(s))) = After(b, s)
    BY <2>1, <1>5, <1>6, FollowsCut
  <2>3. QED  BY <2>2, <1>4, <1>5, <1>7
<1>9. PICK d \in Nat : d = Len(dispatched) /\ LastDispatched = d /\ readSerial = d
  BY LastIsCount DEF TypeInv, DenseInv, Counted
<1>10. c.frame = d + 1
  <2>1. s[1].frame <= b.frame + 1
    <3>1. 1 \in 1 .. Len(s)
      BY <1>6
    <3>2. QED  BY <3>1, <1>6 DEF Steps
  <2>2. s[1].frame = c.frame /\ (b.frame = d \/ b.frame = c.frame)
    BY <1>2, <1>5, <1>9 DEF MovesTo
  <2>3. b.frame <= d + 1
    BY <1>1, <1>9 DEF DenseAt
  <2>4. QED  BY <2>1, <2>2, <2>3, <1>2, <1>9 DEF Positions
<1>11. Unbroken'
  <2>1. linkUp
    BY <1>3 DEF DenseInv, Unbroken
  <2>2. QED  BY <2>1, <1>3 DEF DenseInv, Unbroken
<1>12. linkUp => /\ Steps(After(c, Rest'), wire')
                 /\ Len(sent') <= After(After(c, Rest'), wire').frame + Len(writeQueue')
  BY <1>1, <1>3, <1>8 DEF DenseAt
<1>13. CASE dispatched' = dispatched
  <2>1. LastDispatched' = d /\ readSerial' = readSerial
    BY <1>2, <1>9, <1>13 DEF MovesTo
  <2>2. c.frame <= LastDispatched' + 1
    BY <2>1, <1>10
  <2>3. DenseAt(c)'
    BY <2>2, <1>3, <1>7, <1>12 DEF DenseAt
  <2>4. Counted'
    BY <2>1, <1>3, <1>13 DEF DenseInv, Counted
  <2>5. QED  BY <2>3, <2>4, <1>2, <1>11, <1>13 DEF DenseInv
<1>14. CASE dispatched' # dispatched
  <2>1. /\ LastDispatched' = c.frame /\ readSerial' = readSerial + 1
        /\ \E m \in [serial : Nat, data : Seq(Byte)] :
             /\ m.serial = readSerial /\ FrameIn(sent, m.data) = c.frame
             /\ dispatched' = Append(dispatched, m)
    BY <1>2, <1>14 DEF MovesTo
  <2>2. PICK m \in [serial : Nat, data : Seq(Byte)] :
          /\ m.serial = d /\ FrameIn(sent, m.data) = d + 1
          /\ dispatched' = Append(dispatched, m)
    BY <2>1, <1>9, <1>10
  <2>3. /\ Len(dispatched') = d + 1
        /\ \A k \in 1 .. d : dispatched'[k] = dispatched[k]
        /\ dispatched'[d + 1] = m
    <3>1. dispatched \in Seq([serial : Nat, data : Seq(Byte)])
      BY DEF TypeInv, TypeOK
    <3>2. QED  BY <3>1, <2>2, <1>9, AppendProperties
  <2>4. ASSUME NEW k \in 1 .. d + 1
        PROVE  dispatched'[k].serial + 1 = k /\ FrameIn(sent, dispatched'[k].data) = k
    <3>1. CASE k \in 1 .. d
      BY <3>1, <2>3, <1>9 DEF DenseInv, Counted
    <3>2. CASE k = d + 1
      BY <3>2, <2>2, <2>3
    <3>3. QED  BY <3>1, <3>2
  <2>5. Counted'
    BY <2>1, <2>3, <2>4, <1>3, <1>9 DEF DenseInv, Counted
  <2>6. c.frame <= LastDispatched' + 1
    BY <2>1, <1>10
  <2>7. DenseAt(c)'
    BY <2>6, <1>3, <1>7, <1>12 DEF DenseAt
  <2>8. Len(dispatched) < Len(sent)
    <3>1. d + 1 <= Len(sent) /\ Len(sent) \in Nat
      <4>1. sent \in Lengths /\ Len(sent) \in Nat
        BY SentLengths, SentTypes DEF TypeInv
      <4>2. FrameIn(sent, m.data) <= Len(sent)
        BY <4>1, FrameInIs
      <4>3. QED  BY <4>1, <4>2, <2>2
    <3>2. QED  BY <3>1, <1>9
  <2>9. NextDelivered
    BY <2>2, <2>8, <1>9 DEF NextDelivered
  <2>10. QED  BY <2>5, <2>7, <2>9, <1>2, <1>11 DEF DenseInv
<1>15. QED  BY <1>13, <1>14

LEMMA LoopDense ==
  ASSUME TypeInv, DenseInv, DispatchReturns \/ LoopEnds
  PROVE  DenseInv' /\ dispatched' = dispatched
<1>1. PICK b \in Positions : StreamAt(b) /\ DenseAt(b)
  BY DEF DenseInv
<1>2. StreamAt(b)'
  BY <1>1, DispatchReturnsStream, LoopEndsStream
<1>3. /\ loops # << >>
      /\ UNCHANGED <<readSerial, dispatched, wire, sent, writeQueue, writerUp, linkUp,
                     readerUp, breaks, torn>>
  BY DEF DispatchReturns, LoopEnds, writerVars
<1>4. Unbroken'
  <2>1. linkUp
    BY <1>3 DEF DenseInv, Unbroken
  <2>2. QED  BY <2>1, <1>3 DEF DenseInv, Unbroken
<1>5. Rest' = Rest
  <2>1. Len(loops) = 1 /\ Top \in InputLoop /\ Rest = Top.rest
    BY <1>1, <1>3, OneLoop DEF StreamAt, TypeInv
  <2>2. CASE LoopEnds
    <3>1. loops' \in Seq(InputLoop) /\ Len(loops') = Len(loops) - 1
      BY <2>2, <1>3, LoopTypes DEF LoopEnds, TypeInv
    <3>2. loops' = << >>
      BY <3>1, <2>1, EmptySeq
    <3>3. QED  BY <3>2, <2>1, <2>2 DEF LoopEnds, Rest
  <2>3. CASE DispatchReturns
    <3>1. PICK loop : loop = [Top EXCEPT !.dispatching = FALSE]
      OBVIOUS
    <3>2. loop \in InputLoop /\ loop.rest = Top.rest /\ loops' = SetTop(loop)
      BY <3>1, <2>1, <2>3 DEF InputLoop, DispatchReturns
    <3>3. Len(loops') = 1 /\ loops'[1] = loop
      BY <3>2, <2>1, <1>3, LoopTypes DEF TypeInv
    <3>4. loops' # << >>
      <4>1. Len(<< >>) # 1
        <5>1. Len(<< >>) = 0
          BY EmptySeq
        <5>2. QED  BY <5>1
      <4>2. QED  BY <4>1, <3>3, Zenon
    <3>5. QED  BY <3>2, <3>3, <3>4, <2>1 DEF Rest
  <2>4. QED  BY <2>2, <2>3
<1>6. LastDispatched' = LastDispatched
  BY <1>3 DEF LastDispatched
<1>7. DenseAt(b)'
  BY <1>1, <1>3, <1>5, <1>6 DEF DenseAt
<1>8. Counted'
  BY <1>3 DEF DenseInv, Counted
<1>9. QED  BY <1>2, <1>3, <1>4, <1>7, <1>8 DEF DenseInv

------------------------------------------------------------------------------
\* The refinement of Channel, for a socket that does not break and at most one input
\* loop: initial states map to initial states, every step to Send, Deliver or a stutter.

Delivered == [k \in DOMAIN dispatched |->
                [serial  |-> dispatched[k].serial, message |-> FrameOf(dispatched[k].data)]]

ChannelStep == [ToChannel!Next]_(ToChannel!chanVars)

LEMMA FrameOfIs == \A data : FrameOf(data) = FrameIn(sent, data)
BY DEF FrameOf, Body, FrameIn

LEMMA DeliveredIs ==
  ASSUME TypeOK, Counted
  PROVE  /\ DOMAIN dispatched = 1 .. Len(dispatched)
         /\ Delivered = [k \in 1 .. Len(dispatched) |-> [serial |-> k - 1, message |-> k]]
<1>1. dispatched \in Seq([serial : Nat, data : Seq(Byte)])
  BY DEF TypeOK
<1>2. DOMAIN dispatched = 1 .. Len(dispatched) /\ Len(dispatched) \in Nat
  BY <1>1, LenProperties
<1>3. ASSUME NEW k \in 1 .. Len(dispatched)
      PROVE  dispatched[k].serial = k - 1 /\ FrameOf(dispatched[k].data) = k
  <2>1. dispatched[k].serial + 1 = k /\ FrameIn(sent, dispatched[k].data) = k
    BY DEF Counted
  <2>2. dispatched[k] \in [serial : Nat, data : Seq(Byte)]
    BY <1>1, ElementOfSeq
  <2>3. dispatched[k].serial = k - 1
    BY <2>1, <2>2
  <2>4. QED  BY <2>1, <2>3, FrameOfIs
<1>4. QED  BY <1>2, <1>3 DEF Delivered

LEMMA DenseInvInit == Init => DenseInv
<1> SUFFICES ASSUME Init PROVE DenseInv
  OBVIOUS
<1>1. /\ writerUp = FALSE /\ readerUp = FALSE /\ linkUp = FALSE /\ breaks = 0 /\ torn = FALSE
      /\ sent = << >> /\ writeQueue = << >> /\ loops = << >> /\ dispatched = << >>
      /\ readTask = NewReadTask /\ readSerial = 0
  BY DEF Init
<1>2. Unbroken
  BY <1>1 DEF Unbroken
<1>3. Counted
  BY <1>1, EmptySeq DEF Counted
<1>4. PICK b : StreamAt(b)
  BY <1>1, StreamInvInit DEF StreamInv
<1>5. b \in Positions /\ b.frame <= 0
  <2>1. Len(sent) = 0
    BY <1>1, EmptySeq
  <2>2. QED  BY <2>1, <1>4 DEF StreamAt, ReaderAt
<1>6. DenseAt(b)
  <2>1. Rest = << >> /\ LastDispatched = 0
    BY <1>1 DEF Rest, LastDispatched
  <2>2. Steps(b, Rest)
    BY <2>1, StepsNothing
  <2>3. b.frame <= LastDispatched + 1
    BY <2>1, <1>5 DEF Positions
  <2>4. QED  BY <2>2, <2>3, <1>1 DEF DenseAt
<1>7. QED  BY <1>2, <1>3, <1>4, <1>5, <1>6 DEF DenseInv

\* Send takes one more message.
LEMMA SendRefines ==
  ASSUME TypeInv, DenseInv, (TypeInv /\ DenseInv)',
         NEW n \in BodySizes, SendConnected(n) \/ SendConnecting(n)
  PROVE  ToChannel!Send
<1>1. dispatched' = dispatched /\ sent' = Append(sent, n)
  BY DEF SendConnected, SendConnecting, readerVars, Enqueue
<1>2. Len(sent') = Len(sent) + 1
  <2>1. sent \in Lengths /\ n \in Nat \ {0}
    BY SentLengths, SizesAssumption DEF TypeInv
  <2>2. QED  BY <2>1, <1>1, AppendProperties DEF Lengths
<1>3. Delivered = [k \in 1 .. Len(dispatched) |-> [serial |-> k - 1, message |-> k]]
  BY DeliveredIs DEF TypeInv, DenseInv
<1>4. ASSUME NEW k \in DOMAIN dispatched
      PROVE  FrameOf(dispatched[k].data)' = FrameOf(dispatched[k].data)
  <2>1. k \in 1 .. Len(dispatched)
    BY DeliveredIs DEF TypeInv, DenseInv
  <2>2. FrameIn(sent, dispatched[k].data) = k /\ FrameIn(sent', dispatched'[k].data) = k
    BY <2>1, <1>1 DEF DenseInv, Counted
  <2>3. FrameOf(dispatched[k].data) = FrameIn(sent, dispatched[k].data)
    BY FrameOfIs
  <2>4. FrameOf(dispatched[k].data)' = FrameIn(sent', dispatched'[k].data)
    BY DEF FrameOf, Body, FrameIn
  <2>5. QED  BY <2>2, <2>3, <2>4
<1>5. Delivered' = Delivered
  BY <1>1, <1>4 DEF Delivered
<1>6. QED  BY <1>2, <1>5 DEF ToChannel!Send, Delivered

LEMMA DeliverRefines ==
  ASSUME TypeInv, DenseInv, (TypeInv /\ DenseInv)', NextDelivered, sent' = sent
  PROVE  ToChannel!Deliver
<1>1. PICK m \in [serial : Nat, data : Seq(Byte)] :
        /\ dispatched' = Append(dispatched, m)
        /\ m.serial = Len(dispatched) /\ FrameIn(sent, m.data) = Len(dispatched) + 1
        /\ Len(dispatched) < Len(sent)
  BY DEF NextDelivered
<1>2. PICK d \in Nat : d = Len(dispatched)
  BY LastIsCount DEF TypeInv, DenseInv
<1>3. /\ Len(dispatched') = d + 1
      /\ \A k \in 1 .. d : dispatched'[k] = dispatched[k]
      /\ dispatched'[d + 1] = m
      /\ DOMAIN dispatched' = 1 .. d + 1 /\ DOMAIN dispatched = 1 .. d
  <2>1. dispatched \in Seq([serial : Nat, data : Seq(Byte)])
    BY DEF TypeInv, TypeOK
  <2>2. dispatched' \in Seq([serial : Nat, data : Seq(Byte)])
    BY DEF TypeInv, TypeOK
  <2>3. /\ Len(dispatched') = d + 1
        /\ \A k \in 1 .. d : dispatched'[k] = dispatched[k]
        /\ dispatched'[d + 1] = m
    BY <2>1, <1>1, <1>2, AppendProperties
  <2>4. QED  BY <2>1, <2>2, <2>3, <1>2, LenProperties
<1>4. PICK record : record = [serial |-> d, message |-> d + 1]
  OBVIOUS
<1>5. Delivered = [k \in 1 .. d |-> [serial |-> k - 1, message |-> k]]
  BY <1>2, DeliveredIs DEF TypeInv, DenseInv
<1>6. Delivered' = [k \in 1 .. d + 1 |-> [serial |-> k - 1, message |-> k]]
  <2>1. ASSUME NEW k \in 1 .. d + 1
        PROVE  dispatched'[k].serial = k - 1 /\ FrameOf(dispatched[k].data)' = k
    <3>1. dispatched'[k].serial + 1 = k /\ FrameIn(sent', dispatched'[k].data) = k
      BY <1>3 DEF DenseInv, Counted
    <3>2. dispatched'[k] \in [serial : Nat, data : Seq(Byte)]
      BY <1>3, ElementOfSeq DEF TypeInv, TypeOK
    <3>3. FrameOf(dispatched[k].data)' = FrameIn(sent', dispatched'[k].data)
      BY DEF FrameOf, Body, FrameIn
    <3>4. dispatched'[k].serial = k - 1
      BY <3>1, <3>2
    <3>5. QED  BY <3>1, <3>3, <3>4
  <2>2. QED  BY <2>1, <1>3 DEF Delivered
<1>7. Delivered' = Append(Delivered, record) /\ Len(Delivered) = d
  <2> DEFINE Record == [serial : Nat, message : Nat]
  <2>1. Delivered \in Seq(Record) /\ Len(Delivered) = d
    <3>1. Delivered \in [1 .. d -> Record]
      <4>1. \A k \in 1 .. d : k - 1 \in Nat /\ k \in Nat
        OBVIOUS
      <4>2. QED  BY <4>1, <1>5
    <3> HIDE DEF Record
    <3>2. Delivered \in Seq(Record)
      BY <3>1, SeqDef
    <3>3. QED  BY <3>1, <3>2, LenProperties
  <2>2. record \in Record
    BY <1>4
  <2>3. Delivered' \in Seq(Record) /\ Len(Delivered') = d + 1
    <3>1. Delivered' \in [1 .. d + 1 -> Record]
      <4>1. \A k \in 1 .. d + 1 : k - 1 \in Nat /\ k \in Nat
        OBVIOUS
      <4>2. QED  BY <4>1, <1>6
    <3>2. d + 1 \in Nat
      OBVIOUS
    <3> HIDE DEF Record
    <3>3. Delivered' \in Seq(Record)
      BY <3>1, <3>2, SeqDef
    <3>4. QED  BY <3>1, <3>2, <3>3, LenProperties
  <2> HIDE DEF Record
  <2>4. /\ Append(Delivered, record) \in Seq(Record) /\ Len(Append(Delivered, record)) = d + 1
        /\ \A k \in 1 .. d : Append(Delivered, record)[k] = Delivered[k]
        /\ Append(Delivered, record)[d + 1] = record
    BY <2>1, <2>2, AppendProperties
  <2>5. ASSUME NEW k \in 1 .. d + 1 PROVE Delivered'[k] = Append(Delivered, record)[k]
    <3>1. CASE k \in 1 .. d
      BY <3>1, <2>4, <1>5, <1>6
    <3>2. CASE k = d + 1
      <4>1. Delivered'[k] = [serial |-> d, message |-> d + 1]
        BY <3>2, <1>6
      <4>2. QED  BY <4>1, <3>2, <2>4, <1>4
    <3>3. k \in 1 .. d \/ k = d + 1
      OBVIOUS
    <3>4. QED  BY <3>1, <3>2, <3>3, Zenon
  <2>6. Delivered' = Append(Delivered, record)
    BY <2>3, <2>4, <2>5, SeqEqual
  <2>7. QED  BY <2>1, <2>6
<1>8. Len(Delivered) < Len(sent)
  BY <1>1, <1>2, <1>7
<1>9. Delivered' = Append(Delivered, [serial |-> Len(Delivered), message |-> Len(Delivered) + 1])
  BY <1>4, <1>7
<1>10. QED  BY <1>8, <1>9 DEF ToChannel!Deliver, Delivered

LEMMA StutterRefines ==
  ASSUME sent' = sent, dispatched' = dispatched
  PROVE  UNCHANGED ToChannel!chanVars
BY DEF ToChannel!chanVars, FrameOf, Body, Slice

\* One step at a time, with no breaks to come.
LEMMA DenseStep ==
  ASSUME MaxBreaks = 0, MaxDepth <= 1, TypeInv, DenseInv, [Next]_vars
  PROVE  DenseInv' /\ ChannelStep
<1>1. TypeInv'
  BY TypeInvStep
<1>2. ASSUME NEW n \in BodySizes, SendConnected(n) \/ SendConnecting(n)
      PROVE  DenseInv' /\ ChannelStep
  <2>1. DenseInv'
    BY <1>2, SendConnectedDense, ConnectingDense
  <2>2. ToChannel!Send
    BY <1>1, <1>2, <2>1, SendRefines
  <2>3. QED  BY <2>1, <2>2 DEF ChannelStep, ToChannel!Next
<1>3. ASSUME OutputEvent PROVE DenseInv' /\ ChannelStep
  <2>1. DenseInv' /\ sent' = sent /\ dispatched' = dispatched
    BY <1>3, OutputDense DEF OutputEvent, readerVars
  <2>2. QED  BY <2>1, StutterRefines DEF ChannelStep
<1>4. ASSUME InputEvent PROVE DenseInv' /\ ChannelStep
  <2>1. DenseInv' /\ sent' = sent /\ dispatched' = dispatched
    BY <1>4, InputDense DEF InputEvent, writerVars
  <2>2. QED  BY <2>1, StutterRefines DEF ChannelStep
<1>5. ASSUME LoopRead PROVE DenseInv' /\ ChannelStep
  <2>1. DenseInv' /\ sent' = sent /\ (dispatched' = dispatched \/ NextDelivered)
    BY <1>5, LoopReadDense DEF LoopRead, writerVars
  <2>2. CASE dispatched' = dispatched
    BY <2>1, <2>2, StutterRefines DEF ChannelStep
  <2>3. CASE NextDelivered
    <3>1. ToChannel!Deliver
      BY <2>1, <2>3, <1>1, DeliverRefines
    <3>2. QED  BY <2>1, <3>1 DEF ChannelStep, ToChannel!Next
  <2>4. QED  BY <2>1, <2>2, <2>3
<1>6. ASSUME DispatchReturns \/ LoopEnds PROVE DenseInv' /\ ChannelStep
  <2>1. DenseInv' /\ sent' = sent /\ dispatched' = dispatched
    BY <1>6, LoopDense DEF DispatchReturns, LoopEnds, writerVars
  <2>2. QED  BY <2>1, StutterRefines DEF ChannelStep
<1>7. ASSUME ReaderConnects PROVE DenseInv' /\ ChannelStep
  <2>1. DenseInv' /\ sent' = sent /\ dispatched' = dispatched
    BY <1>7, ReaderConnectsDense DEF ReaderConnects
  <2>2. QED  BY <2>1, StutterRefines DEF ChannelStep
<1>8. ASSUME UNCHANGED vars PROVE DenseInv' /\ ChannelStep
  <2>1. sent' = sent /\ dispatched' = dispatched
    BY <1>8 DEF vars
  <2>2. Unbroken' /\ Counted'
    BY <1>8 DEF vars, DenseInv, Unbroken, Counted
  <2>3. PICK b \in Positions : StreamAt(b) /\ DenseAt(b)
    BY DEF DenseInv
  <2>4. StreamAt(b)'
    BY <1>8, <2>3, HangupStream
  <2>5. Rest' = Rest /\ LastDispatched' = LastDispatched
    BY <1>8 DEF vars, Rest, LastDispatched
  <2>6. DenseAt(b)'
    BY <1>8, <2>3, <2>5 DEF vars, DenseAt
  <2>7. DenseInv'
    BY <2>2, <2>4, <2>6 DEF DenseInv
  <2>8. QED  BY <2>1, <2>7, StutterRefines DEF ChannelStep
<1>9. ~WriterHangup /\ ~ReaderHangup
  BY DEF WriterHangup, ReaderHangup, DenseInv, Unbroken
<1>10. ~WriterGone /\ ~ReaderGone
  <2>1. ~(breaks < MaxBreaks)
    BY DEF DenseInv, Unbroken
  <2>2. QED  BY <2>1 DEF WriterGone, ReaderGone, Broken
<1>11. QED
  BY <1>2, <1>3, <1>4, <1>5, <1>6, <1>7, <1>8, <1>9, <1>10 DEF Next

LEMMA InitRefines == Init => ToChannel!Init
<1> SUFFICES ASSUME Init PROVE ToChannel!Init
  OBVIOUS
<1>1. sent = << >> /\ dispatched = << >>
  BY DEF Init
<1>2. Len(sent) = 0 /\ DOMAIN dispatched = {}
  BY <1>1, EmptySeq
<1>3. [k \in DOMAIN dispatched |->
         [serial  |-> dispatched[k].serial, message |-> FrameOf(dispatched[k].data)]] = << >>
  BY <1>1, <1>2
<1>4. QED  BY <1>2, <1>3 DEF ToChannel!Init

\* While its socket does not break, and with one input loop at a time, a connection
\* is a Channel: every frame is handed to OnIncomingData once, whole, in the order of
\* sending, and under the serial number that Send returned for it.  This is the
\* safety part of ImplementsChannel, for every size of frames, buffers and sockets.
THEOREM ImplementsChannelSafety ==
  ASSUME MaxBreaks = 0, MaxDepth <= 1
  PROVE  Spec => ToChannel!Init /\ [][ToChannel!Next]_(ToChannel!chanVars)
<1>1. TypeInv /\ DenseInv /\ [Next]_vars => (TypeInv /\ DenseInv)' /\ ChannelStep
  BY TypeInvStep, DenseStep
<1>2. ChannelStep <=> [ToChannel!Next]_(ToChannel!chanVars)
  BY DEF ChannelStep
<1>3. QED
  BY <1>1, <1>2, TypeInvInit, DenseInvInit, InitRefines, PTL DEF Spec

==============================================================================
