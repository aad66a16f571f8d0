--------------------------- MODULE MonitorProofs ---------------------------
(***************************************************************************)
(* What the event log tells, for every set of directories and names, every *)
(* buffer and every number of events.                                      *)
(***************************************************************************)
EXTENDS MonitorEvents, TLAPS, WellFoundedInduction, SequenceTheorems

-----------------------------------------------------------------------------
(* Induction over the numbers, with the property as a set.                 *)

\* A set of numbers has a least one.
LEMMA Least ==
    ASSUME NEW T, T \subseteq Nat, T # {}
    PROVE  \E x \in T : \A y \in T : x <= y
  <1>1. PICK R : R = OpToRel(<, Nat)
    OBVIOUS
  <1>2. IsWellFoundedOn(R, Nat)
    BY <1>1, NatLessThanWellFounded
  <1>3. PICK x \in T : \A y \in T : ~(<<y, x>> \in R)
    BY <1>2, WFMin
  <1>4. \A y, z \in Nat : y < z => <<y, z>> \in R
    BY <1>1 DEF OpToRel
  <1>5. ASSUME NEW y \in T PROVE x <= y
    <2>1. y \in Nat /\ x \in Nat
      OBVIOUS
    <2>2. ~(y < x)
      BY <1>3, <1>4, <2>1
    <2> QED
      BY <2>1, <2>2
  <1> QED
    BY <1>5

\* What holds of 0 and is handed on by every number below N holds up to N.
LEMMA UpTo ==
    ASSUME NEW N \in Nat, NEW S, 0 \in S,
           \A n \in S : n \in 0 .. (N - 1) => n + 1 \in S
    PROVE  \A n \in 0 .. N : n \in S
  <1> DEFINE T == {n \in 0 .. N : n \notin S}
  <1>1. CASE T = {}
    BY <1>1
  <1>2. CASE T # {}
    <2>0. T \subseteq Nat
      OBVIOUS
    <2>1. PICK n \in T : \A m \in T : n <= m
      <3> HIDE DEF T
      <3> QED
        BY <1>2, <2>0, Least
    <2>2. n # 0 /\ n \in 0 .. N /\ n \notin S
      BY <2>1
    <2>3. n - 1 \in 0 .. (N - 1) /\ n - 1 \in 0 .. N /\ ~(n <= n - 1) /\ (n - 1) + 1 = n
      BY <2>2
    <2>4. n - 1 \in S
      BY <2>1, <2>3
    <2> QED
      BY <2>2, <2>3, <2>4
  <1> QED
    BY <1>1, <1>2

-----------------------------------------------------------------------------
(* What one event is in the buffer.                                        *)

\* The length of a name's place: a multiple of the header's size, with room for
\* a NUL, and none if there is no name.
LEMMA NameLens ==
    ASSUME NEW name \in Name \cup {NoName}
    PROVE  /\ NameLen(name) \in 0 .. 256
           /\ \E k \in Nat : NameLen(name) = 16 * k
           /\ name # NoName => /\ name[1] \in 1 .. 255 /\ name[2] \in 33 .. 126
                               /\ name[1] < NameLen(name)
                               /\ 16 <= NameLen(name)
           /\ name = NoName => NameLen(name) = 0
  <1>1. CASE name = NoName
    BY <1>1 DEF NameLen
  <1>2. CASE name # NoName
    <2>1. name[1] \in 1 .. 255 /\ name[2] \in 33 .. 126
      BY <1>2, NameAssumption
    <2>2. PICK n : n = name[1]
      OBVIOUS
    <2>3. NameLen(name) = 16 * (n \div 16 + 1)
      BY <1>2, <2>2 DEF NameLen, IN_EVENT_DATA_LEN
    <2>4. n \in 1 .. 255
      BY <2>1, <2>2
    <2>5. n \div 16 \in 0 .. 15 /\ n < 16 * (n \div 16 + 1)
      BY <2>4
    <2>6. PICK k : k = n \div 16 + 1
      OBVIOUS
    <2>7. k \in 1 .. 16 /\ NameLen(name) = 16 * k /\ n < 16 * k
      BY <2>3, <2>5, <2>6
    <2>8. 16 * k \in 16 .. 256 /\ k \in Nat
      BY <2>7
    <2> QED
      BY <1>2, <2>1, <2>2, <2>7, <2>8
  <1> QED
    BY <1>1, <1>2

\* The bytes of a name's place: its letters, then zeros.
LEMMA NameBytesAre ==
    ASSUME NEW name \in Name \cup {NoName}
    PROVE  /\ NameBytes(name) \in Seq(0 .. 255)
           /\ Len(NameBytes(name)) = NameLen(name)
           /\ \A i \in 1 .. NameLen(name) :
                 /\ NameBytes(name)[i] \in 0 .. 255
                 /\ NameBytes(name)[i] # 0 <=> name # NoName /\ i <= name[1]
  <1>1. PICK n : n = NameLen(name)
    OBVIOUS
  <1>2. n \in Nat
    BY <1>1, NameLens
  <1>3. PICK b : b = NameBytes(name)
    OBVIOUS
  <1>4. b = [i \in 1 .. n |-> IF i < name[1] THEN 120 ELSE IF i = name[1] THEN name[2] ELSE 0]
    BY <1>1, <1>3 DEF NameBytes, Filler
  <1>5. ASSUME NEW i \in 1 .. n
        PROVE  b[i] \in 0 .. 255 /\ (b[i] # 0 <=> name # NoName /\ i <= name[1])
    <2>1. name # NoName
      BY <1>1, NameLens
    <2>2. name[1] \in 1 .. 255 /\ name[2] \in 33 .. 126
      BY <2>1, NameLens
    <2>3. PICK m, c : m = name[1] /\ c = name[2]
      OBVIOUS
    <2>4. b[i] = IF i < m THEN 120 ELSE IF i = m THEN c ELSE 0
      BY <1>4, <2>3
    <2> QED
      BY <2>1, <2>2, <2>3, <2>4
  <1>6. b \in [1 .. n -> 0 .. 255]
    BY <1>4, <1>5
  <1>7. b \in Seq(0 .. 255) /\ Len(b) = n
    BY <1>2, <1>6
  <1> QED
    BY <1>1, <1>3, <1>5, <1>7

\* A number of four bytes is read as it was written.
LEMMA BytesAre ==
    ASSUME NEW n \in Nat, n <= 2147483647
    PROVE  /\ Bytes(n) \in Seq(0 .. 255) /\ Len(Bytes(n)) = 4
           /\ Bytes(n)[1] + 256 * Bytes(n)[2] + 65536 * Bytes(n)[3] + 16777216 * Bytes(n)[4] = n
  <1>1. PICK a, b, c, d : a = n % 256 /\ b = (n \div 256) % 256 /\ c = (n \div 65536) % 256
                          /\ d = n \div 16777216
    BY SMT
  <1>2. Bytes(n) = <<a, b, c, d>>
    BY SMT, <1>1 DEF Bytes
  <1>3. a \in 0 .. 255 /\ b \in 0 .. 255 /\ c \in 0 .. 255 /\ d \in 0 .. 255
    BY SMT, <1>1
  <1>4. PICK p, r : p = n \div 256 /\ r = n \div 65536
    BY SMT
  <1>5. p \in Nat /\ r \in Nat /\ n = 256 * p + a
    BY SMT, <1>1, <1>4
  <1>6. r = p \div 256 /\ d = r \div 256
    BY SMT, <1>1, <1>4
  <1>7. p = 256 * r + b
    BY SMT, <1>1, <1>4, <1>5, <1>6
  <1>8. r = 256 * d + c
    BY SMT, <1>1, <1>4, <1>5, <1>6
  <1>9. a + 256 * b + 65536 * c + 16777216 * d = n
    BY SMT, <1>3, <1>5, <1>7, <1>8
  <1> QED
    BY SMT, <1>2, <1>3, <1>9

\* The number at a place of a sequence of bytes.
Word(s, i) == s[i] + 256 * s[i + 1] + 65536 * s[i + 2] + 16777216 * s[i + 3]

\* Where the parts of two joined sequences are.
LEMMA Joined ==
    ASSUME NEW B, NEW a \in Seq(B), NEW b \in Seq(B), NEW s, s = a \o b
    PROVE  /\ s \in Seq(B) /\ Len(s) = Len(a) + Len(b)
           /\ \A i \in 1 .. Len(a) : s[i] = a[i]
           /\ \A i \in 1 .. Len(b) : s[Len(a) + i] = b[i]
  <1>1. /\ s \in Seq(B) /\ Len(s) = Len(a) + Len(b)
        /\ \A i \in 1 .. Len(a) + Len(b) : s[i] = IF i <= Len(a) THEN a[i] ELSE b[i - Len(a)]
    BY ConcatProperties
  <1>2. PICK m, n : m = Len(a) /\ n = Len(b)
    OBVIOUS
  <1>3. m \in Nat /\ n \in Nat
    BY <1>2
  <1>4. ASSUME NEW i \in 1 .. m PROVE s[i] = a[i]
    BY <1>1, <1>2, <1>3
  <1>5. ASSUME NEW i \in 1 .. n PROVE s[m + i] = b[i]
    <2>1. m + i \in 1 .. m + n /\ ~(m + i <= m) /\ (m + i) - m = i
      BY <1>3
    <2> QED
      BY <1>1, <1>2, <2>1
  <1> QED
    BY <1>1, <1>2, <1>4, <1>5

\* What an event is in the buffer: its descriptor, its mask, the length of its
\* name's place, and that place.
LEMMA EncodedAre ==
    ASSUME NEW e \in FileEvent
    PROVE  /\ Encoded(e) \in Seq(0 .. 255)
           /\ Len(Encoded(e)) = 16 + NameLen(e.name)
           /\ Word(Encoded(e), 1) = e.wd
           /\ Word(Encoded(e), 5) = e.mask
           /\ Word(Encoded(e), 13) = NameLen(e.name)
           /\ \A i \in 1 .. NameLen(e.name) : Encoded(e)[16 + i] = NameBytes(e.name)[i]
  <1>1. e.wd \in Wd /\ e.mask \in Mask /\ e.name \in Name \cup {NoName}
    BY DEF FileEvent
  <1>2. PICK w, m, l : w = e.wd /\ m = e.mask /\ l = NameLen(e.name)
    OBVIOUS
  <1>3. w \in Nat /\ w <= 2147483647 /\ l \in Nat /\ l <= 2147483647
    <2>1. w \in 1 .. 255
      BY <1>1, <1>2, WdAssumption
    <2>2. l \in 0 .. 256
      BY <1>1, <1>2, NameLens
    <2> QED
      BY SMT, <2>1, <2>2
  <1>4. m \in Nat /\ m <= 2147483647
    BY SMT, <1>1, <1>2, MaskAssumption
  <1>5. PICK a, b, c, d, t : a = Bytes(w) /\ b = Bytes(m) /\ c = Bytes(0) /\ d = Bytes(l)
                             /\ t = NameBytes(e.name)
    OBVIOUS
  <1>6. a \in Seq(0 .. 255) /\ Len(a) = 4 /\ Word(a, 1) = w
    BY SMT, <1>3, <1>5, BytesAre DEF Word
  <1>7. b \in Seq(0 .. 255) /\ Len(b) = 4 /\ Word(b, 1) = m
    BY SMT, <1>4, <1>5, BytesAre DEF Word
  <1>8. c \in Seq(0 .. 255) /\ Len(c) = 4
    BY SMT, <1>5, BytesAre
  <1>9. d \in Seq(0 .. 255) /\ Len(d) = 4 /\ Word(d, 1) = l
    BY SMT, <1>3, <1>5, BytesAre DEF Word
  <1>10. t \in Seq(0 .. 255) /\ Len(t) = l
    BY <1>1, <1>2, <1>5, NameBytesAre
  <1>11. PICK s, B : s = Encoded(e) /\ B = 0 .. 255
    OBVIOUS
  <1>12. s = a \o b \o c \o d \o t
    BY <1>2, <1>5, <1>11 DEF Encoded
  <1>13. a \in Seq(B) /\ b \in Seq(B) /\ c \in Seq(B) /\ d \in Seq(B) /\ t \in Seq(B)
    BY <1>6, <1>7, <1>8, <1>9, <1>10, <1>11
  <1>14. /\ s \in Seq(B) /\ Len(s) = 16 + Len(t)
         /\ \A i \in 1 .. 4 : s[i] = a[i] /\ s[4 + i] = b[i] /\ s[12 + i] = d[i]
         /\ \A i \in 1 .. Len(t) : s[16 + i] = t[i]
    <2>1. PICK x : x = a \o b
      OBVIOUS
    <2>2. /\ x \in Seq(B) /\ Len(x) = Len(a) + Len(b)
          /\ \A i \in 1 .. Len(a) : x[i] = a[i]
          /\ \A i \in 1 .. Len(b) : x[Len(a) + i] = b[i]
      BY <1>13, <2>1, Joined
    <2>3. PICK y : y = x \o c
      OBVIOUS
    <2>4. /\ y \in Seq(B) /\ Len(y) = Len(x) + Len(c)
          /\ \A i \in 1 .. Len(x) : y[i] = x[i]
      <3>1. x \in Seq(B) /\ c \in Seq(B)
        BY <1>13, <2>2
      <3> QED
        BY <2>3, <3>1, Joined
    <2>5. PICK z : z = y \o d
      OBVIOUS
    <2>6. /\ z \in Seq(B) /\ Len(z) = Len(y) + Len(d)
          /\ \A i \in 1 .. Len(y) : z[i] = y[i]
          /\ \A i \in 1 .. Len(d) : z[Len(y) + i] = d[i]
      <3>1. y \in Seq(B) /\ d \in Seq(B)
        BY <1>13, <2>4
      <3> QED
        BY <2>5, <3>1, Joined
    <2>7. s = z \o t
      BY <1>12, <2>1, <2>3, <2>5
    <2>8. /\ s \in Seq(B) /\ Len(s) = Len(z) + Len(t)
          /\ \A i \in 1 .. Len(z) : s[i] = z[i]
          /\ \A i \in 1 .. Len(t) : s[Len(z) + i] = t[i]
      <3>1. z \in Seq(B) /\ t \in Seq(B)
        BY <1>13, <2>6
      <3> QED
        BY <2>7, <3>1, Joined
    <2>9. Len(x) = 8 /\ Len(y) = 12 /\ Len(z) = 16
      BY <1>6, <1>7, <1>8, <1>9, <2>2, <2>4, <2>6
    <2>10. ASSUME NEW i \in 1 .. 4
           PROVE  s[i] = a[i] /\ s[4 + i] = b[i] /\ s[12 + i] = d[i]
      <3>1. /\ i \in 1 .. 8 /\ i \in 1 .. 12 /\ i \in 1 .. 16
            /\ 4 + i \in 1 .. 8 /\ 4 + i \in 1 .. 12 /\ 4 + i \in 1 .. 16
            /\ 12 + i \in 1 .. 16
        OBVIOUS
      <3>2. x[i] = a[i] /\ x[4 + i] = b[i] /\ z[12 + i] = d[i]
        BY <1>6, <1>7, <1>9, <2>2, <2>6, <2>9
      <3>3. y[i] = x[i] /\ y[4 + i] = x[4 + i]
        BY <2>4, <2>9, <3>1
      <3>4. z[i] = y[i] /\ z[4 + i] = y[4 + i]
        BY <2>6, <2>9, <3>1
      <3>5. s[i] = z[i] /\ s[4 + i] = z[4 + i] /\ s[12 + i] = z[12 + i]
        BY <2>8, <2>9, <3>1
      <3> QED
        BY <3>2, <3>3, <3>4, <3>5
    <2> QED
      BY <2>8, <2>9, <2>10
  <1>15. /\ s[1] = a[1] /\ s[5] = b[1] /\ s[13] = d[1]
         /\ s[2] = a[2] /\ s[6] = b[2] /\ s[14] = d[2]
         /\ s[3] = a[3] /\ s[7] = b[3] /\ s[15] = d[3]
         /\ s[4] = a[4] /\ s[8] = b[4] /\ s[16] = d[4]
    BY <1>14
  <1>16. Word(s, 1) = w /\ Word(s, 5) = m /\ Word(s, 13) = l
    BY SMT, <1>6, <1>7, <1>9, <1>15 DEF Word
  <1>17. s \in Seq(0 .. 255) /\ Len(s) = 16 + l /\ \A i \in 1 .. l : s[16 + i] = t[i]
    BY <1>10, <1>11, <1>14
  <1> QED
    BY <1>2, <1>5, <1>11, <1>16, <1>17

-----------------------------------------------------------------------------
(* What several events are in the buffer.                                  *)

\* Images() is what its recursion says: there is such a function.
LEMMA ImagesAre ==
    ASSUME NEW q, Len(q) \in Nat
    PROVE  /\ Images(q)[0] = <<>>
           /\ \A i \in 1 .. Len(q) : Images(q)[i] = Images(q)[i - 1] \o Encoded(q[i])
  <1> DEFINE Recursion(f, n) ==
        f = [i \in 0 .. n |-> IF i = 0 THEN <<>> ELSE f[i - 1] \o Encoded(q[i])]
  <1>1. PICK N : N = Len(q)
    OBVIOUS
  <1>2. N \in Nat
    BY <1>1
  <1>3. PICK S : S = {n \in 0 .. N : \E f : Recursion(f, n)}
    OBVIOUS
  <1>4. 0 \in S
    <2>1. Recursion([i \in 0 .. 0 |-> <<>>], 0)
      OBVIOUS
    <2>2. \E f : Recursion(f, 0)
      BY <2>1
    <2> HIDE DEF Recursion
    <2> QED
      BY <1>2, <1>3, <2>2
  <1>5. ASSUME NEW n \in S, n \in 0 .. (N - 1) PROVE n + 1 \in S
    <2>1. \E f : Recursion(f, n)
      <3> HIDE DEF Recursion
      <3> QED
        BY <1>3
    <2>2. PICK f : Recursion(f, n)
      BY <2>1
    <2>3. n \in Nat
      BY <1>2, <1>5
    <2>4. PICK g : g = [i \in 0 .. (n + 1) |-> IF i = n + 1 THEN f[n] \o Encoded(q[n + 1])
                                               ELSE f[i]]
      OBVIOUS
    <2>5. \A i \in 0 .. n : g[i] = f[i]
      BY <2>3, <2>4
    <2>6. ASSUME NEW i \in 0 .. (n + 1)
          PROVE  g[i] = IF i = 0 THEN <<>> ELSE g[i - 1] \o Encoded(q[i])
      <3>1. CASE i = n + 1
        <4>1. g[i] = f[n] \o Encoded(q[i]) /\ i # 0 /\ i - 1 = n
          BY <2>3, <2>4, <3>1
        <4>2. g[n] = f[n]
          BY <2>3, <2>5
        <4> QED
          BY <4>1, <4>2
      <3>2. CASE i # n + 1
        <4>1. i \in 0 .. n /\ (i # 0 => i - 1 \in 0 .. n)
          BY <2>3, <3>2
        <4>2. f[i] = IF i = 0 THEN <<>> ELSE f[i - 1] \o Encoded(q[i])
          BY <2>2, <4>1
        <4> QED
          BY <2>5, <4>1, <4>2
      <3> QED
        BY <3>1, <3>2
    <2>7. Recursion(g, n + 1)
      BY <2>4, <2>6
    <2>8. n + 1 \in 0 .. N
      BY <1>2, <1>5
    <2>9. \E h : Recursion(h, n + 1)
      BY <2>7
    <2> HIDE DEF Recursion
    <2> QED
      BY <1>3, <2>8, <2>9
  <1>6. N \in S
    <2>1. \A n \in 0 .. N : n \in S
      BY <1>2, <1>4, <1>5, UpTo
    <2> QED
      BY <1>2, <2>1
  <1>7. \E f : Recursion(f, N)
    <2> HIDE DEF Recursion
    <2> QED
      BY <1>3, <1>6
  <1>8. PICK f : Recursion(f, N)
    BY <1>7
  <1>9. PICK I : I = Images(q)
    OBVIOUS
  <1>10. Recursion(I, N)
    BY <1>1, <1>8, <1>9 DEF Images
  <1>11. I[0] = <<>>
    BY <1>2, <1>10
  <1>12. ASSUME NEW i \in 1 .. N PROVE I[i] = I[i - 1] \o Encoded(q[i])
    <2>1. i \in 0 .. N /\ i # 0
      BY <1>2
    <2> QED
      BY <1>10, <2>1
  <1> QED
    BY <1>1, <1>9, <1>11, <1>12

\* How the first n events of q lie in their bytes: one after the other, each at a
\* multiple of the header's size, with nothing between them.
Laid(q, n) ==
    /\ Images(q)[n] \in Seq(0 .. 255)
    /\ \E k \in Nat : Len(Images(q)[n]) = 16 * k
    /\ \A x \in 1 .. Len(Images(q)[n]) :
          \E j \in 1 .. n : Len(Images(q)[j - 1]) < x /\ x <= Len(Images(q)[j])
    /\ \A j \in 1 .. n :
          /\ Len(Images(q)[j - 1]) \in Nat
          /\ Len(Images(q)[j]) = Len(Images(q)[j - 1]) + Len(Encoded(q[j]))
          /\ Len(Images(q)[j]) <= Len(Images(q)[n])
          /\ \A x \in 1 .. Len(Encoded(q[j])) :
                Images(q)[n][Len(Images(q)[j - 1]) + x] = Encoded(q[j])[x]

LEMMA ImagesLaid ==
    ASSUME NEW q \in Seq(FileEvent)
    PROVE  \A n \in 0 .. Len(q) : Laid(q, n)
  <1>1. PICK N, I, B : N = Len(q) /\ I = Images(q) /\ B = 0 .. 255
    OBVIOUS
  <1>2. N \in Nat
    BY <1>1
  <1>3. I[0] = <<>> /\ \A i \in 1 .. N : I[i] = I[i - 1] \o Encoded(q[i])
    <2>1. Len(q) \in Nat
      OBVIOUS
    <2> QED
      BY <1>1, <2>1, ImagesAre
  <1>4. PICK S : S = {n \in 0 .. N : Laid(q, n)}
    OBVIOUS
  <1>5. 0 \in S
    <2>1. I[0] \in Seq(0 .. 255) /\ Len(I[0]) = 0
      BY <1>3
    <2>2. Len(I[0]) = 16 * 0
      BY <2>1
    <2>3. Laid(q, 0)
      BY <1>1, <2>1, <2>2 DEF Laid
    <2> QED
      BY <1>2, <1>4, <2>3
  <1>6. ASSUME NEW n \in S, n \in 0 .. (N - 1) PROVE n + 1 \in S
    <2>1. Laid(q, n)
      BY <1>4
    <2>2. n \in Nat /\ n + 1 \in 1 .. N /\ n + 1 \in 0 .. N /\ (n + 1) - 1 = n
      BY <1>2, <1>6
    <2>3. PICK u, e, v : u = I[n] /\ e = q[n + 1] /\ v = I[n + 1]
      OBVIOUS
    <2>4. PICK t : t = Encoded(e)
      OBVIOUS
    <2>5. e \in FileEvent
      BY <1>1, <2>2, <2>3
    <2>6. t \in Seq(B) /\ Len(t) = 16 + NameLen(e.name)
      BY <1>1, <2>4, <2>5, EncodedAre
    <2>7. u \in Seq(B)
      BY <1>1, <2>1, <2>3 DEF Laid
    <2>8. v = u \o t
      BY <1>3, <2>2, <2>3, <2>4
    <2>9. /\ v \in Seq(B) /\ Len(v) = Len(u) + Len(t)
          /\ \A i \in 1 .. Len(u) : v[i] = u[i]
          /\ \A i \in 1 .. Len(t) : v[Len(u) + i] = t[i]
      <3>1. u \in Seq(B) /\ t \in Seq(B)
        BY <2>6, <2>7
      <3> QED
        BY <2>8, <3>1, Joined
    <2>10. PICK a, b, c : a = Len(u) /\ b = Len(t) /\ c = Len(v)
      OBVIOUS
    <2>11. a \in Nat /\ b \in Nat /\ c = a + b
      BY <2>6, <2>7, <2>9, <2>10
    <2>12. \E k \in Nat : c = 16 * k
      <3>1. PICK k \in Nat : a = 16 * k
        BY <1>1, <2>1, <2>3, <2>10 DEF Laid
      <3>2. e.name \in Name \cup {NoName}
        BY <2>5 DEF FileEvent
      <3>3. PICK m \in Nat : NameLen(e.name) = 16 * m
        BY <3>2, NameLens
      <3>4. c = 16 * (k + 1 + m) /\ k + 1 + m \in Nat
        BY <2>6, <2>10, <2>11, <3>1, <3>3
      <3> QED
        BY <3>4
    <2>13. ASSUME NEW x \in 1 .. c
           PROVE  \E j \in 1 .. (n + 1) : Len(I[j - 1]) < x /\ x <= Len(I[j])
      <3>1. CASE x <= a
        <4>1. x \in 1 .. a
          BY <2>11, <3>1
        <4>2. PICK j \in 1 .. n : Len(I[j - 1]) < x /\ x <= Len(I[j])
          BY <1>1, <2>1, <2>3, <2>10, <4>1 DEF Laid
        <4>3. j \in 1 .. (n + 1)
          BY <2>2
        <4> QED
          BY <4>2, <4>3
      <3>2. CASE ~(x <= a)
        <4>1. a < x /\ x <= c
          BY <2>11, <3>2
        <4>2. Len(I[(n + 1) - 1]) < x /\ x <= Len(I[n + 1])
          BY <2>2, <2>3, <2>10, <4>1
        <4>3. n + 1 \in 1 .. (n + 1)
          BY <2>2
        <4> QED
          BY <4>2, <4>3
      <3> QED
        BY <3>1, <3>2
    <2>14. ASSUME NEW j \in 1 .. (n + 1)
           PROVE  /\ Len(I[j - 1]) \in Nat
                  /\ Len(I[j]) = Len(I[j - 1]) + Len(Encoded(q[j]))
                  /\ Len(I[j]) <= c
                  /\ \A x \in 1 .. Len(Encoded(q[j])) : v[Len(I[j - 1]) + x] = Encoded(q[j])[x]
      <3>1. CASE j = n + 1
        <4>1. I[j] = v /\ I[j - 1] = u /\ Encoded(q[j]) = t
          BY <2>2, <2>3, <2>4, <3>1
        <4> QED
          BY <2>9, <2>10, <2>11, <4>1
      <3>2. CASE j # n + 1
        <4>1. j \in 1 .. n
          BY <2>2, <3>2
        <4>2. PICK p, r, s : p = Len(I[j - 1]) /\ s = Encoded(q[j]) /\ r = Len(s)
          OBVIOUS
        <4>3. Len(I[j]) = p + r /\ Len(I[j]) <= a /\ \A x \in 1 .. r : u[p + x] = s[x]
          BY <1>1, <2>1, <2>3, <2>10, <4>1, <4>2 DEF Laid
        <4>4. p \in Nat
          BY <1>1, <2>1, <4>1, <4>2 DEF Laid
        <4>5. r \in Nat
          <5>1. q[j] \in FileEvent
            BY <1>1, <2>2, <4>1
          <5>2. s \in Seq(0 .. 255)
            BY <4>2, <5>1, EncodedAre
          <5> QED
            BY <4>2, <5>2
        <4>6. p + r <= a /\ p + r <= c
          BY <2>11, <4>3, <4>4, <4>5
        <4>7. ASSUME NEW x \in 1 .. r PROVE v[p + x] = s[x]
          <5>1. p + x \in 1 .. a
            BY <2>11, <4>4, <4>5, <4>6
          <5> QED
            BY <2>9, <2>10, <4>3, <5>1
        <4> QED
          BY <4>2, <4>3, <4>4, <4>6, <4>7
      <3> QED
        BY <3>1, <3>2
    <2>15. Laid(q, n + 1)
      BY <1>1, <2>3, <2>9, <2>10, <2>12, <2>13, <2>14 DEF Laid
    <2> QED
      BY <1>4, <2>2, <2>15
  <1>7. \A n \in 0 .. N : n \in S
    BY <1>2, <1>5, <1>6, UpTo
  <1> QED
    BY <1>1, <1>4, <1>7

\* A later event of a read begins further on, by a header at least.
LEMMA LaterIsFurther ==
    ASSUME NEW q \in Seq(FileEvent), NEW j \in 1 .. Len(q), NEW k \in 1 .. Len(q), j < k
    PROVE  Len(Images(q)[j - 1]) + 16 <= Len(Images(q)[k - 1])
  <1>1. PICK I, N : I = Images(q) /\ N = Len(q)
    OBVIOUS
  <1>2. N \in Nat /\ k - 1 \in 0 .. N /\ j \in 1 .. (k - 1)
    BY <1>1
  <1>3. Laid(q, k - 1)
    BY <1>1, <1>2, ImagesLaid
  <1>4. PICK p, r, s : p = Len(I[j - 1]) /\ r = Len(Encoded(q[j])) /\ s = Len(I[k - 1])
    OBVIOUS
  <1>5. p \in Nat /\ Len(I[j]) = p + r /\ Len(I[j]) <= s
    BY <1>1, <1>2, <1>3, <1>4 DEF Laid
  <1>6. PICK m : m = NameLen(q[j].name)
    OBVIOUS
  <1>7. m \in Nat /\ r = 16 + m
    <2>1. q[j] \in FileEvent
      OBVIOUS
    <2>2. q[j].name \in Name \cup {NoName}
      BY <2>1 DEF FileEvent
    <2>3. m \in Nat
      BY <1>6, <2>2, NameLens
    <2>4. r = 16 + m
      BY <1>4, <1>6, <2>1, EncodedAre
    <2> QED
      BY <2>3, <2>4
  <1>8. p + (16 + m) <= s
    BY <1>5, <1>7
  <1>9. s \in Nat
    <2>1. I[k - 1] \in Seq(0 .. 255)
      BY <1>1, <1>3 DEF Laid
    <2> QED
      BY <1>4, <2>1
  <1>10. p + 16 <= s
    BY <1>5, <1>7, <1>8, <1>9
  <1> QED
    BY <1>1, <1>4, <1>10

-----------------------------------------------------------------------------
(* What the walk sees in the buffer.                                       *)

\* The buffer holds the events of the last read; what is left of the walk ends
\* where they end.
Held ==
    /\ Len(Images(present)[Len(present)]) <= Len(buffer)
    /\ \A x \in 1 .. Len(Images(present)[Len(present)]) :
          buffer[x] = Images(present)[Len(present)][x]
    /\ event + length = Len(Images(present)[Len(present)])

\* What the model's variables are for reading the buffer.
Bytewise == present \in Seq(FileEvent) /\ buffer \in Seq(0 .. 255) /\ event \in Nat /\ length \in Nat

\* The bytes of an event are where it was written.
LEMMA EventIsRead ==
    ASSUME Bytewise, Held, NEW j \in 1 .. Len(present),
           NEW p, p = Len(Images(present)[j - 1]),
           NEW m, m = NameLen(present[j].name)
    PROVE  /\ p \in Nat /\ (\E k \in Nat : p = 16 * k)
           /\ m \in Nat /\ p + (16 + m) <= event + length /\ event + length <= Len(buffer)
           /\ \A x \in 1 .. (16 + m) : Byte(p + x - 1) = Encoded(present[j])[x]
  <1>1. PICK q, I, N, e, s : q = present /\ I = Images(present) /\ N = Len(present)
                             /\ e = q[j] /\ s = Encoded(e)
    OBVIOUS
  <1>2. q \in Seq(FileEvent) /\ N \in Nat /\ N = Len(q) /\ j \in 1 .. N /\ I = Images(q)
    BY <1>1 DEF Bytewise
  <1>3. e \in FileEvent
    BY <1>1, <1>2
  <1>4. m \in Nat /\ Len(s) = 16 + m
    <2>1. e.name \in Name \cup {NoName}
      BY <1>3 DEF FileEvent
    <2>2. m = NameLen(e.name)
      BY <1>1
    <2>3. m \in Nat
      BY <2>1, <2>2, NameLens
    <2>4. Len(s) = 16 + m
      BY <1>1, <1>3, <2>2, EncodedAre
    <2> QED
      BY <2>3, <2>4
  <1>5. j - 1 \in 0 .. N /\ N \in 0 .. N
    BY <1>2
  <1>6. Laid(q, j - 1) /\ Laid(q, N)
    BY <1>2, <1>5, ImagesLaid
  <1>7. PICK w, f : w = Len(I[N]) /\ f = I[N]
    OBVIOUS
  <1>8. /\ p \in Nat /\ Len(I[j]) = p + Len(s) /\ Len(I[j]) <= w
        /\ \A x \in 1 .. Len(s) : f[p + x] = s[x]
    <2>1. p = Len(I[j - 1])
      BY <1>1
    <2> QED
      BY <1>1, <1>2, <1>6, <1>7, <2>1 DEF Laid
  <1>9. \E k \in Nat : p = 16 * k
    BY <1>1, <1>2, <1>6 DEF Laid
  <1>10. PICK b, c : b = buffer /\ c = Len(buffer)
    OBVIOUS
  <1>11. c \in Nat
    BY <1>10 DEF Bytewise
  <1>12. w <= c /\ event + length = w /\ \A x \in 1 .. w : b[x] = f[x]
    BY <1>1, <1>7, <1>10 DEF Held
  <1>13. w \in Nat
    BY <1>12 DEF Bytewise
  <1>14. p + (16 + m) <= w
    BY <1>4, <1>8
  <1>15. ASSUME NEW x \in 1 .. (16 + m) PROVE Byte(p + x - 1) = s[x]
    <2>1. f[p + x] = s[x]
      BY <1>4, <1>8
    <2>2. p + x \in 1 .. w
      BY <1>4, <1>8, <1>13, <1>14
    <2>3. b[p + x] = f[p + x]
      BY <1>12, <2>2
    <2>4. p + x - 1 < c /\ (p + x - 1) + 1 = p + x
      BY <1>4, <1>8, <1>11, <1>12, <1>13, <2>2
    <2>5. Byte(p + x - 1) = b[p + x]
      BY <1>10, <2>4 DEF Byte
    <2> QED
      BY <2>1, <2>3, <2>5
  <1> QED
    BY <1>1, <1>4, <1>8, <1>9, <1>10, <1>12, <1>14, <1>15

\* Where an event begins, its descriptor, its mask and its length are read.
LEMMA HeaderIsRead ==
    ASSUME Bytewise, Held, NEW j \in 1 .. Len(present), event = Len(Images(present)[j - 1])
    PROVE  /\ WdAt(event) = present[j].wd
           /\ MaskAt(event) = present[j].mask
           /\ LenAt(event) = NameLen(present[j].name)
  <1>1. PICK p, m, e, s : p = event /\ m = NameLen(present[j].name) /\ e = present[j]
                          /\ s = Encoded(e)
    OBVIOUS
  <1>2. /\ p \in Nat /\ m \in Nat
        /\ \A x \in 1 .. (16 + m) : Byte(p + x - 1) = s[x]
    BY <1>1, EventIsRead
  <1>3. /\ Byte(p) = s[1] /\ Byte(p + 1) = s[2] /\ Byte(p + 2) = s[3] /\ Byte(p + 3) = s[4]
        /\ Byte(p + 4) = s[5] /\ Byte(p + 5) = s[6] /\ Byte(p + 6) = s[7] /\ Byte(p + 7) = s[8]
        /\ Byte(p + 12) = s[13] /\ Byte(p + 13) = s[14] /\ Byte(p + 14) = s[15]
        /\ Byte(p + 15) = s[16]
    <2>1. \A y \in 0 .. 15 : Byte(p + y) = s[y + 1]
      <3>1. TAKE y \in 0 .. 15
      <3>2. y + 1 \in 1 .. (16 + m) /\ p + (y + 1) - 1 = p + y
        BY <1>2
      <3> QED
        BY <1>2, <3>2
    <2>2. Byte(p + 0) = s[0 + 1] /\ p + 0 = p
      BY <1>2, <2>1
    <2> QED
      BY <2>1, <2>2
  <1>4. e \in FileEvent
    BY <1>1 DEF Bytewise
  <1>5. Word(s, 1) = e.wd /\ Word(s, 5) = e.mask /\ Word(s, 13) = m
    BY <1>1, <1>4, EncodedAre
  <1>6. (p + 4) + 1 = p + 5 /\ (p + 4) + 2 = p + 6 /\ (p + 4) + 3 = p + 7
        /\ (p + 12) + 1 = p + 13 /\ (p + 12) + 2 = p + 14 /\ (p + 12) + 3 = p + 15
    BY <1>2
  <1>7. Number(p) = Word(s, 1) /\ Number(p + 4) = Word(s, 5) /\ Number(p + 12) = Word(s, 13)
    BY SMT, <1>3, <1>6 DEF Number, Word
  <1> QED
    BY <1>1, <1>5, <1>7 DEF WdAt, MaskAt, LenAt

LEMMA ByteTyped ==
    ASSUME buffer \in Seq(0 .. 255), NEW i \in Nat
    PROVE  Byte(i) \in 0 .. 255
  <1>1. PICK b, B : b = buffer /\ B = 0 .. 255
    OBVIOUS
  <1>2. b \in Seq(B) /\ 0 \in B
    BY <1>1
  <1>3. CASE i < Len(b)
    <2>1. i + 1 \in 1 .. Len(b)
      BY <1>2, <1>3
    <2>2. b[i + 1] \in B
      BY <1>2, <2>1
    <2> QED
      BY <1>1, <1>3, <2>2 DEF Byte
  <1>4. CASE ~(i < Len(b))
    BY <1>1, <1>2, <1>4 DEF Byte
  <1> QED
    BY <1>3, <1>4

\* A string ends at the first NUL: there is one, behind the buffer's bytes if not
\* among them.
LEMMA NameEnds ==
    ASSUME buffer \in Seq(0 .. 255), NEW i \in Nat, i < Len(buffer)
    PROVE  \E end \in i .. Len(buffer) :
              /\ Byte(end) = 0 /\ \A k \in i .. (end - 1) : Byte(k) # 0
              /\ NameAt(i) = SubSeq(buffer, i + 1, end)
  <1>1. PICK c : c = Len(buffer)
    OBVIOUS
  <1>2. c \in Nat /\ i < c
    BY <1>1
  <1>3. PICK T : T = {k \in i .. c : Byte(k) = 0}
    OBVIOUS
  <1>4. c \in T
    BY <1>1, <1>2, <1>3 DEF Byte
  <1>5. T \subseteq Nat
    BY <1>3
  <1>6. PICK z \in T : \A k \in T : z <= k
    BY <1>4, <1>5, Least
  <1>7. z \in i .. c /\ Byte(z) = 0
    BY <1>3, <1>6
  <1>8. \A k \in i .. (z - 1) : Byte(k) # 0
    <2>1. TAKE k \in i .. (z - 1)
    <2>2. k \in i .. c /\ ~(z <= k)
      BY <1>2, <1>7
    <2> QED
      BY <1>3, <1>6, <2>2
  <1>9. PICK end : end = CHOOSE j \in i .. c : Byte(j) = 0 /\ \A k \in i .. (j - 1) : Byte(k) # 0
    OBVIOUS
  <1>10. end \in i .. c /\ Byte(end) = 0 /\ \A k \in i .. (end - 1) : Byte(k) # 0
    BY <1>7, <1>8, <1>9
  <1>11. NameAt(i) = SubSeq(buffer, i + 1, end)
    <2>1. ~(i >= Len(buffer))
      BY <1>1, <1>2
    <2>2. end = CHOOSE j \in i .. Len(buffer) : Byte(j) = 0 /\ \A k \in i .. (j - 1) : Byte(k) # 0
      BY <1>1, <1>9
    <2> QED
      BY <2>1, <2>2 DEF NameAt
  <1> QED
    BY <1>1, <1>10, <1>11

\* Whatever is read as a name is a string.
LEMMA NameTyped ==
    ASSUME buffer \in Seq(0 .. 255), NEW i \in Nat
    PROVE  NameAt(i) \in Seq(1 .. 255)
  <1>1. CASE i < Len(buffer)
    <2>1. PICK end \in i .. Len(buffer) :
              /\ Byte(end) = 0 /\ \A k \in i .. (end - 1) : Byte(k) # 0
              /\ NameAt(i) = SubSeq(buffer, i + 1, end)
      BY <1>1, NameEnds
    <2>2. PICK s, c, C : s = buffer /\ c = Len(buffer) /\ C = 1 .. 255
      OBVIOUS
    <2>3. c \in Nat /\ end \in Int /\ end <= c
      BY <2>1, <2>2
    <2>4. ASSUME NEW x \in (i + 1) .. end PROVE s[x] \in C
      <3>1. x - 1 \in i .. (end - 1) /\ x - 1 \in Nat /\ x - 1 < c /\ (x - 1) + 1 = x
        BY <2>3
      <3>2. Byte(x - 1) # 0 /\ Byte(x - 1) \in 0 .. 255
        BY <2>1, <3>1, ByteTyped
      <3>3. Byte(x - 1) = s[x]
        BY <2>2, <3>1 DEF Byte
      <3> QED
        BY <2>2, <3>2, <3>3
    <2>5. SubSeq(s, i + 1, end) \in Seq(C)
      BY <2>3, <2>4, SubSeqProperties
    <2> QED
      BY <2>1, <2>2, <2>5
  <1>2. CASE ~(i < Len(buffer))
    <2>1. i >= Len(buffer)
      BY <1>2
    <2>2. NameAt(i) = <<>>
      BY <2>1 DEF NameAt
    <2> QED
      BY <2>2
  <1> QED
    BY <1>1, <1>2

\* Where an event with a name begins, the name is read behind the header.
LEMMA NameIsRead ==
    ASSUME Bytewise, Held, NEW j \in 1 .. Len(present), event = Len(Images(present)[j - 1]),
           NEW name, name = present[j].name, name # NoName
    PROVE  NameAt(event + 16) = [i \in 1 .. name[1] |-> NameBytes(name)[i]]
  <1>1. PICK p, m, s, t, n, c :
             p = event /\ m = NameLen(name) /\ s = Encoded(present[j])
             /\ t = NameBytes(name) /\ n = name[1] /\ c = Len(buffer)
    OBVIOUS
  <1>2. present[j] \in FileEvent
    BY DEF Bytewise
  <1>3. name \in Name \cup {NoName}
    BY <1>2 DEF FileEvent
  <1>4. n \in Nat /\ n >= 1 /\ n < m /\ m \in Nat
    <2>1. name[1] \in 1 .. 255 /\ name[1] < NameLen(name)
      BY <1>3, NameLens
    <2>2. NameLen(name) \in Nat
      BY <1>3, NameLens
    <2>3. n = name[1] /\ m = NameLen(name)
      BY <1>1
    <2>4. n \in 1 .. 255 /\ n < m
      BY <2>1, <2>3
    <2>5. n \in Nat /\ n >= 1
      BY <2>4
    <2> QED
      BY <2>2, <2>3, <2>4, <2>5
  <1>5. /\ p \in Nat
        /\ p + (16 + m) <= event + length /\ event + length <= c
        /\ \A x \in 1 .. (16 + m) : Byte(p + x - 1) = s[x]
    BY <1>1, EventIsRead
  <1>6. c \in Nat /\ p + (16 + m) <= c
    <2>1. c \in Nat /\ event \in Nat /\ length \in Nat
      BY <1>1 DEF Bytewise
    <2> QED
      BY <1>4, <1>5, <2>1
  <1>7. \A x \in 1 .. m : s[16 + x] = t[x]
    BY <1>1, <1>2, EncodedAre
  <1>8. \A x \in 1 .. m : t[x] # 0 <=> x <= n
    BY <1>1, <1>3, NameBytesAre
  <1>9. \A x \in 1 .. m : Byte(p + 16 + x - 1) = t[x]
    <2>1. TAKE x \in 1 .. m
    <2>2. 16 + x \in 1 .. (16 + m) /\ p + (16 + x) - 1 = p + 16 + x - 1
      BY <1>4, <1>5
    <2> QED
      BY <1>5, <1>7, <2>2
  <1>10. p + 16 \in Nat /\ p + 16 < c
    BY <1>4, <1>5, <1>6
  <1>11. PICK end \in (p + 16) .. c :
              /\ Byte(end) = 0 /\ \A k \in (p + 16) .. (end - 1) : Byte(k) # 0
              /\ NameAt(p + 16) = SubSeq(buffer, p + 16 + 1, end)
    <2>1. buffer \in Seq(0 .. 255)
      BY DEF Bytewise
    <2> QED
      BY <1>1, <1>10, <2>1, NameEnds
  <1>12. end = p + 16 + n
    <2>1. end \in Nat
      BY <1>6, <1>10
    <2>2. Byte(p + 16 + n) = 0
      <3>1. n + 1 \in 1 .. m /\ p + 16 + (n + 1) - 1 = p + 16 + n /\ ~(n + 1 <= n)
        BY <1>4, <1>5
      <3> QED
        BY <1>8, <1>9, <3>1
    <2>3. ~(p + 16 + n < end)
      <3>1. p + 16 + n < end => p + 16 + n \in (p + 16) .. (end - 1)
        BY <1>4, <1>5, <2>1
      <3> QED
        BY <1>11, <2>2, <3>1
    <2>4. ~(end < p + 16 + n)
      <3>1. SUFFICES ASSUME end < p + 16 + n PROVE FALSE
        OBVIOUS
      <3>2. PICK x : x = end - (p + 16) + 1
        OBVIOUS
      <3>3. x \in 1 .. m /\ x <= n /\ p + 16 + x - 1 = end
        BY <1>4, <1>5, <1>10, <2>1, <3>1, <3>2
      <3>4. Byte(end) # 0
        BY <1>8, <1>9, <3>3
      <3> QED
        BY <1>11, <3>4
    <2> QED
      BY <1>4, <1>5, <2>1, <2>3, <2>4
  <1>13. PICK r, b, C : r = SubSeq(buffer, p + 16 + 1, end) /\ b = buffer /\ C = 0 .. 255
    OBVIOUS
  <1>14. /\ r \in Seq(C) /\ Len(r) = n
         /\ \A i \in 1 .. n : r[i] = b[p + 16 + 1 + i - 1]
    <2>1. ASSUME NEW x \in (p + 16 + 1) .. end PROVE b[x] \in C
      <3>1. b \in Seq(C) /\ Len(b) = c
        BY <1>1, <1>13 DEF Bytewise
      <3>2. x \in 1 .. c
        BY <1>4, <1>5, <1>6, <1>12
      <3> QED
        BY <3>1, <3>2
    <2>2. p + 16 + 1 \in Int /\ end \in Int /\ p + 16 + 1 <= end /\ end - (p + 16 + 1) + 1 = n
      BY <1>4, <1>5, <1>12
    <2>3. /\ SubSeq(b, p + 16 + 1, end) \in Seq(C)
          /\ Len(SubSeq(b, p + 16 + 1, end)) =
                IF p + 16 + 1 <= end THEN end - (p + 16 + 1) + 1 ELSE 0
          /\ \A i \in 1 .. end - (p + 16 + 1) + 1 :
                SubSeq(b, p + 16 + 1, end)[i] = b[p + 16 + 1 + i - 1]
      BY <2>1, <2>2, SubSeqProperties
    <2> QED
      BY <1>13, <2>2, <2>3
  <1>15. ASSUME NEW i \in 1 .. n PROVE r[i] = t[i]
    <2>1. i \in 1 .. m /\ p + 16 + i - 1 < c /\ (p + 16 + i - 1) + 1 = p + 16 + 1 + i - 1
      BY <1>4, <1>5, <1>6
    <2>2. Byte(p + 16 + i - 1) = b[p + 16 + 1 + i - 1]
      BY <1>1, <1>13, <2>1 DEF Byte
    <2> QED
      BY <1>9, <1>14, <2>1, <2>2
  <1>16. r = [i \in 1 .. n |-> t[i]]
    <2>1. r = [i \in 1 .. n |-> r[i]]
      BY <1>4, <1>14
    <2> QED
      BY <1>15, <2>1
  <1> QED
    BY <1>1, <1>11, <1>13, <1>16

\* At a multiple of the header's size, where no event begins, there is a block of
\* a name. If it reads as a watch descriptor of one byte, the name has ended, and
\* it reads as the length 0: the walk ends there.
LEMMA BlockEndsWalk ==
    ASSUME Bytewise, Held, event % 16 = 0, length >= 16,
           \A j \in 1 .. Len(present) : event # Len(Images(present)[j - 1]),
           WdAt(event) \in 1 .. 255
    PROVE  LenAt(event) = 0
  <1>1. PICK q, I, N, w : q = present /\ I = Images(present) /\ N = Len(present) /\ w = event + length
    OBVIOUS
  <1>2. q \in Seq(FileEvent) /\ N \in Nat /\ N = Len(q) /\ I = Images(q) /\ w \in Nat
    BY <1>1 DEF Bytewise
  <1>3. PICK p : p = event
    OBVIOUS
  <1>4. p \in Nat /\ p + 16 <= w
    BY <1>1, <1>3 DEF Bytewise
  <1>5. w = Len(I[N])
    BY <1>1 DEF Held
  <1>6. Laid(q, N)
    <2>1. N \in 0 .. N
      BY <1>2
    <2> QED
      BY <1>2, <2>1, ImagesLaid
  <1>7. PICK j \in 1 .. N : Len(I[j - 1]) < p + 1 /\ p + 1 <= Len(I[j])
    <2>1. p + 1 \in 1 .. w
      BY <1>2, <1>4
    <2> QED
      BY <1>2, <1>5, <1>6, <2>1 DEF Laid
  <1>8. PICK o, name, m, s, t : o = Len(I[j - 1]) /\ name = q[j].name /\ m = NameLen(name)
                                /\ s = Encoded(q[j]) /\ t = NameBytes(name)
    OBVIOUS
  <1>9. q[j] \in FileEvent
    BY <1>2
  <1>10. name \in Name \cup {NoName}
    BY <1>8, <1>9 DEF FileEvent
  <1>11. /\ o \in Nat /\ (\E k \in Nat : o = 16 * k)
         /\ \A x \in 1 .. (16 + m) : Byte(o + x - 1) = s[x]
    <2>1. j \in 1 .. Len(present) /\ o = Len(Images(present)[j - 1]) /\ m = NameLen(present[j].name)
          /\ s = Encoded(present[j])
      BY <1>1, <1>8
    <2> QED
      BY <2>1, EventIsRead
  <1>12. m \in Nat /\ \E k \in Nat : m = 16 * k
    BY <1>8, <1>10, NameLens
  <1>13. o < p /\ p < o + (16 + m)
    <2>1. Len(s) = 16 + m
      BY <1>8, <1>9, EncodedAre
    <2>2. Len(I[j]) = o + Len(s)
      BY <1>2, <1>6, <1>8 DEF Laid
    <2>3. p # o
      BY <1>1, <1>3, <1>8
    <2>4. o < p + 1
      BY <1>7, <1>8
    <2>5. p + 1 <= o + (16 + m)
      BY <1>7, <2>1, <2>2
    <2> QED
      BY <1>4, <1>11, <1>12, <2>3, <2>4, <2>5
  <1>14. PICK d : d = p - o - 16
    OBVIOUS
  <1>15. d \in Nat /\ d + 16 <= m /\ p = o + 16 + d
    <2>1. PICK a \in Nat : o = 16 * a
      BY <1>11
    <2>2. PICK b \in Nat : m = 16 * b
      BY <1>12
    <2>3. PICK c : c = p \div 16
      OBVIOUS
    <2>4. c \in Nat /\ p = 16 * c
      BY <1>3, <1>4, <2>3
    <2>5. a < c /\ c < a + 1 + b
      BY <1>13, <2>1, <2>2, <2>4
    <2>6. a + 1 <= c /\ c <= a + b
      BY <2>4, <2>5
    <2> QED
      BY <1>14, <2>1, <2>2, <2>4, <2>6
  <1>16. /\ \A y \in 0 .. 15 : Byte(p + y) = t[d + y + 1]
         /\ \A y \in 0 .. 15 : Byte(p + y) \in 0 .. 255
    <2>1. ASSUME NEW y \in 0 .. 15 PROVE Byte(p + y) = t[d + y + 1]
      <3>1. 17 + d + y \in 1 .. (16 + m) /\ o + (17 + d + y) - 1 = p + y
        BY <1>11, <1>12, <1>15
      <3>2. d + y + 1 \in 1 .. m /\ 16 + (d + y + 1) = 17 + d + y
        BY <1>12, <1>15
      <3>3. Byte(p + y) = s[17 + d + y]
        BY <1>11, <3>1
      <3>4. s[16 + (d + y + 1)] = t[d + y + 1]
        BY <1>8, <1>9, <3>2, EncodedAre
      <3> QED
        BY <3>2, <3>3, <3>4
    <2>2. ASSUME NEW y \in 0 .. 15 PROVE Byte(p + y) \in 0 .. 255
      <3>1. p + y \in Nat /\ buffer \in Seq(0 .. 255)
        BY <1>4 DEF Bytewise
      <3> QED
        BY <3>1, ByteTyped
    <2> QED
      BY <2>1, <2>2
  <1>17. Byte(p + 1) = 0
    <2>1. PICK b0, b1, b2, b3 : b0 = Byte(p) /\ b1 = Byte(p + 1) /\ b2 = Byte(p + 2) /\ b3 = Byte(p + 3)
      OBVIOUS
    <2>2. b0 \in Nat /\ b1 \in Nat /\ b2 \in Nat /\ b3 \in Nat
      <3>1. /\ p \in Nat /\ p + 1 \in Nat /\ p + 2 \in Nat /\ p + 3 \in Nat
            /\ buffer \in Seq(0 .. 255)
        BY <1>4 DEF Bytewise
      <3>2. b0 \in 0 .. 255 /\ b1 \in 0 .. 255 /\ b2 \in 0 .. 255 /\ b3 \in 0 .. 255
        BY <2>1, <3>1, ByteTyped
      <3> QED
        BY <3>2
    <2>3. b0 + 256 * b1 + 65536 * b2 + 16777216 * b3 <= 255
      <3>1. WdAt(p) = b0 + 256 * b1 + 65536 * b2 + 16777216 * b3
        BY SMT, <2>1 DEF WdAt, Number
      <3>2. PICK v : v = WdAt(p)
        OBVIOUS
      <3>3. v \in 1 .. 255
        BY <1>3, <3>2
      <3>4. v <= 255
        BY <3>3
      <3> QED
        BY SMT, <3>1, <3>2, <3>4
    <2>4. b1 = 0
      BY SMT, <2>2, <2>3
    <2> QED
      BY <2>1, <2>4
  <1>18. name # NoName /\ ~(d + 2 <= name[1]) /\ name[1] \in Nat
    <2>1. m # 0
      BY <1>12, <1>15
    <2>2. name # NoName
      BY <1>8, <1>10, <2>1, NameLens
    <2>3. t[d + 2] = 0
      <3>1. 1 \in 0 .. 15 /\ d + 1 + 1 = d + 2
        BY <1>15
      <3> QED
        BY <1>16, <1>17, <3>1
    <2>4. d + 2 \in 1 .. m
      BY <1>12, <1>15
    <2>5. t[d + 2] # 0 <=> name # NoName /\ d + 2 <= name[1]
      BY <1>8, <1>10, <2>4, NameBytesAre
    <2>6. name[1] \in 1 .. 255
      BY <1>10, <2>2, NameLens
    <2>7. name[1] \in Nat
      <3>1. PICK n : n = name[1]
        OBVIOUS
      <3>2. n \in 1 .. 255
        BY <2>6, <3>1
      <3>3. n \in Nat
        BY <3>2
      <3> QED
        BY <3>1, <3>3
    <2> QED
      BY <2>2, <2>3, <2>5, <2>7
  <1>19. ASSUME NEW y \in 12 .. 15 PROVE Byte(p + y) = 0
    <2>1. y \in 0 .. 15 /\ d + y + 1 \in 1 .. m
      BY <1>12, <1>15
    <2>2. ~(d + y + 1 <= name[1])
      BY <1>15, <1>18
    <2>3. t[d + y + 1] = 0
      BY <1>8, <1>10, <2>1, <2>2, NameBytesAre
    <2> QED
      BY <1>16, <2>1, <2>3
  <1>20. Byte(p + 12) = 0 /\ Byte(p + 13) = 0 /\ Byte(p + 14) = 0 /\ Byte(p + 15) = 0
    BY <1>19
  <1>21. (p + 12) + 1 = p + 13 /\ (p + 12) + 2 = p + 14 /\ (p + 12) + 3 = p + 15
    BY <1>4
  <1>22. Number(p + 12) = 0
    BY SMT, <1>20, <1>21 DEF Number
  <1> QED
    BY <1>3, <1>22 DEF LenAt

-----------------------------------------------------------------------------
(* The invariant.                                                          *)

\* What is in the buffer was read last.
Recent ==
    \A j \in 1 .. Len(present) : present[j] = taken[Len(taken) - Len(present) + j]

\* A line that tells of an event of the last read tells of one the walk is past.
InOrder ==
    \A i \in DOMAIN source :
        \/ source[i].event < First
        \/ \E j \in 1 .. Len(present) :
              /\ source[i].event = Len(taken) - Len(present) + j
              /\ Len(Images(present)[j - 1]) < event

\* The first event of a read has its line, or it is the walk's next.
HeadsKept ==
    \A h \in heads :
        /\ taken[h].name # NoName
        /\ \/ \E i \in DOMAIN source : source[i].event = h
           \/ pc = "walk" /\ event = 0 /\ h = First

IInv ==
    /\ TypeOK
    /\ Held
    /\ Recent
    /\ NothingInvented
    /\ InOrder
    /\ HeadsKept
    /\ pc = "walk" => present # <<>>

LEMMA LogMessageTyped ==
    ASSUME NEW mask
    PROVE  LogMessage(mask) \in Nat
  <1> DEFINE hits == {i \in DOMAIN event_masks : (mask \div event_masks[i]) % 2 = 1}
  <1>1. \A i \in DOMAIN event_masks : event_masks[i] \in Nat /\ i \in Nat
    BY DEF event_masks
  <1>2. CASE hits = {}
    BY <1>2 DEF LogMessage
  <1>3. CASE hits # {}
    <2>1. hits \subseteq Nat /\ hits \subseteq DOMAIN event_masks
      BY <1>1
    <2>2. PICK h \in hits : \A j \in hits : h <= j
      <3> HIDE DEF hits
      <3> QED
        BY <1>3, <2>1, Least
    <2>3. PICK c : c = CHOOSE i \in hits : \A j \in hits : i <= j
      OBVIOUS
    <2>4. c \in hits
      <3> HIDE DEF hits
      <3> QED
        BY <2>2, <2>3
    <2>5. LogMessage(mask) = event_masks[c]
      BY <1>3, <2>3 DEF LogMessage
    <2> QED
      BY <1>1, <2>1, <2>4, <2>5
  <1> QED
    BY <1>2, <1>3

LEMMA NumberTyped ==
    ASSUME buffer \in Seq(0 .. 255), NEW i \in Nat
    PROVE  Number(i) \in Nat
  <1>1. i + 1 \in Nat /\ i + 2 \in Nat /\ i + 3 \in Nat
    OBVIOUS
  <1>2. PICK a, b, c, d : a = Byte(i) /\ b = Byte(i + 1) /\ c = Byte(i + 2) /\ d = Byte(i + 3)
    OBVIOUS
  <1>3. a \in 0 .. 255 /\ b \in 0 .. 255 /\ c \in 0 .. 255 /\ d \in 0 .. 255
    BY <1>1, <1>2, ByteTyped
  <1>4. a \in Nat /\ b \in Nat /\ c \in Nat /\ d \in Nat
    BY <1>3
  <1>5. a + 256 * b + 65536 * c + 16777216 * d \in Nat
    BY SMT, <1>4
  <1> QED
    BY SMT, <1>2, <1>5 DEF Number

\* The images of the first events of q are images of q.
LEMMA ImagesOfFirst ==
    ASSUME NEW q \in Seq(FileEvent), NEW n \in 0 .. Len(q), NEW r \in Seq(FileEvent),
           Len(r) = n, \A i \in 1 .. n : r[i] = q[i]
    PROVE  \A i \in 0 .. n : Images(r)[i] = Images(q)[i]
  <1>1. PICK I, J, N : I = Images(q) /\ J = Images(r) /\ N = Len(q)
    OBVIOUS
  <1>2. n \in Nat /\ N \in Nat /\ n <= N
    BY <1>1
  <1>3. I[0] = <<>> /\ \A i \in 1 .. N : I[i] = I[i - 1] \o Encoded(q[i])
    <2>1. Len(q) \in Nat
      OBVIOUS
    <2> QED
      BY <1>1, <2>1, ImagesAre
  <1>4. J[0] = <<>> /\ \A i \in 1 .. n : J[i] = J[i - 1] \o Encoded(r[i])
    <2>1. Len(r) \in Nat
      OBVIOUS
    <2>2. J[0] = <<>> /\ \A i \in 1 .. Len(r) : J[i] = J[i - 1] \o Encoded(r[i])
      BY <1>1, <2>1, ImagesAre
    <2> QED
      BY <2>2
  <1>5. PICK S : S = {i \in 0 .. n : J[i] = I[i]}
    OBVIOUS
  <1>6. 0 \in S
    BY <1>2, <1>3, <1>4, <1>5
  <1>7. ASSUME NEW i \in S, i \in 0 .. (n - 1) PROVE i + 1 \in S
    <2>1. i + 1 \in 1 .. n /\ i + 1 \in 1 .. N /\ i + 1 \in 0 .. n /\ (i + 1) - 1 = i
      BY <1>2, <1>7
    <2>2. J[i] = I[i] /\ r[i + 1] = q[i + 1]
      BY <1>5, <2>1
    <2>3. J[i + 1] = J[i] \o Encoded(r[i + 1]) /\ I[i + 1] = I[i] \o Encoded(q[i + 1])
      BY <1>3, <1>4, <2>1
    <2> QED
      BY <1>5, <2>1, <2>2, <2>3
  <1>8. \A i \in 0 .. n : i \in S
    BY <1>2, <1>6, <1>7, UpTo
  <1> QED
    BY <1>1, <1>5, <1>8

\* The event at the walk's pointer.
LEMMA EventHereIs ==
    ASSUME present \in Seq(FileEvent), NEW j \in 1 .. Len(present),
           event = Len(Images(present)[j - 1])
    PROVE  EventHere = Len(taken) - Len(present) + j
  <1>1. Begins(j)
    BY DEF Begins
  <1>2. ASSUME NEW k \in 1 .. Len(present), Begins(k) PROVE k = j
    <2>1. PICK p : p = event
      OBVIOUS
    <2>2. Len(Images(present)[j - 1]) = p /\ Len(Images(present)[k - 1]) = p
      BY <1>1, <1>2, <2>1 DEF Begins
    <2>3. p \in Nat
      <3>1. j - 1 \in 0 .. Len(present)
        OBVIOUS
      <3>2. Laid(present, j - 1)
        BY <3>1, ImagesLaid
      <3>3. PICK s : s = Images(present)[j - 1]
        OBVIOUS
      <3>4. s \in Seq(0 .. 255)
        BY <3>2, <3>3 DEF Laid
      <3> QED
        BY <2>2, <3>3, <3>4
    <2>4. ~(p + 16 <= p)
      BY <2>3
    <2>5. ~(j < k) /\ ~(k < j)
      BY <2>2, <2>4, LaterIsFurther
    <2>6. j \in Nat /\ k \in Nat
      OBVIOUS
    <2> QED
      BY <2>5, <2>6
  <1>3. (CHOOSE k \in 1 .. Len(present) : Begins(k)) = j
    BY <1>1, <1>2
  <1> QED
    BY <1>1, <1>3 DEF EventHere

-----------------------------------------------------------------------------
(* Every action keeps it.                                                  *)

\* The steps between two reads that leave the walk and what it wrote alone.
LEMMA AsideKeepsIInv ==
    ASSUME IInv, UNCHANGED <<walkVars, log, historyVars>>,
           pc' \in {"down", "poll", "walk"}, file' \in BOOLEAN, queue' \in Seq(FileEvent),
           events' \in 0 .. MaxEvents,
           pc' = "walk" => pc = "walk",
           \A h \in heads : pc' = "walk" \/ \E i \in DOMAIN source : source[i].event = h
    PROVE  IInv'
  <1>1. /\ buffer' = buffer /\ event' = event /\ length' = length /\ log' = log
        /\ taken' = taken /\ present' = present /\ source' = source /\ heads' = heads
    BY DEF walkVars, historyVars
  <1>2. TypeOK'
    BY <1>1 DEF IInv, TypeOK
  <1>3. Held'
    BY <1>1 DEF IInv, Held
  <1>4. Recent'
    BY <1>1 DEF IInv, Recent
  <1>5. NothingInvented'
    BY <1>1 DEF IInv, NothingInvented
  <1>6. InOrder'
    BY <1>1 DEF IInv, InOrder, First
  <1>7. HeadsKept'
    BY <1>1 DEF IInv, HeadsKept, First
  <1>8. pc' = "walk" => present' # <<>>
    BY <1>1 DEF IInv
  <1> QED
    BY <1>2, <1>3, <1>4, <1>5, <1>6, <1>7, <1>8 DEF IInv

LEMMA InitIInv == Init => IInv
  <1> SUFFICES ASSUME Init PROVE IInv
    OBVIOUS
  <1>1. /\ pc = "down" /\ file = FALSE /\ queue = <<>> /\ buffer = <<>> /\ event = 0
        /\ length = 0 /\ log = <<>> /\ events = 0 /\ taken = <<>> /\ present = <<>>
        /\ source = <<>> /\ heads = {}
    BY DEF Init
  <1>2. TypeOK
    <2>1. \A S : <<>> \in Seq(S)
      OBVIOUS
    <2>2. /\ queue \in Seq(FileEvent) /\ taken \in Seq(FileEvent) /\ present \in Seq(FileEvent)
          /\ buffer \in Seq(0 .. 255)
          /\ log \in Seq([dir : Nat, message : Nat, name : Seq(1 .. 255)])
          /\ source \in Seq([at : Nat, event : 0 .. Len(taken)])
      BY Zenon, <1>1, <2>1
    <2>3. Len(present) = 0 /\ Len(taken) = 0 /\ Len(source) = 0 /\ Len(log) = 0
      BY <1>1
    <2>4. Len(present) <= Len(taken) /\ Len(source) = Len(log)
      BY <2>3
    <2>5. events \in 0 .. MaxEvents
      BY <1>1, BufferAssumption
    <2> QED
      BY <1>1, <2>2, <2>4, <2>5 DEF TypeOK
  <1>3. Held
    <2>1. Len(present) = 0
      BY <1>1
    <2>2. Images(present)[0] = <<>>
      <3>1. Len(present) \in Nat
        BY <2>1
      <3> QED
        BY <3>1, ImagesAre
    <2> QED
      BY <1>1, <2>1, <2>2 DEF Held
  <1>4. Recent
    BY <1>1 DEF Recent
  <1>5. NothingInvented
    BY <1>1 DEF NothingInvented
  <1>6. InOrder
    BY <1>1 DEF InOrder
  <1>7. HeadsKept
    BY <1>1 DEF HeadsKept
  <1> QED
    BY <1>1, <1>2, <1>3, <1>4, <1>5, <1>6, <1>7 DEF IInv

LEMMA StartKeepsIInv ==
    ASSUME IInv, Start
    PROVE  IInv'
  <1>1. /\ pc = "down" /\ pc' = "poll" /\ file' \in BOOLEAN /\ queue' = queue /\ events' = events
        /\ UNCHANGED <<walkVars, log, historyVars>>
    BY DEF Start
  <1>2. queue' \in Seq(FileEvent) /\ events' \in 0 .. MaxEvents
    BY <1>1 DEF IInv, TypeOK
  <1>3. \A h \in heads : \E i \in DOMAIN source : source[i].event = h
    BY <1>1 DEF IInv, HeadsKept
  <1> QED
    BY <1>1, <1>2, <1>3, AsideKeepsIInv

LEMMA HappenKeepsIInv ==
    ASSUME IInv, NEW e \in FileEvent, Happen(e)
    PROVE  IInv'
  <1>1. /\ pc' = pc /\ file' = file /\ events < MaxEvents /\ events' = events + 1
        /\ queue' = IF queue # <<>> /\ queue[Len(queue)] = e THEN queue ELSE Append(queue, e)
        /\ UNCHANGED <<walkVars, log, historyVars>>
    BY DEF Happen
  <1>2. /\ pc \in {"down", "poll", "walk"} /\ file \in BOOLEAN /\ queue \in Seq(FileEvent)
        /\ events \in 0 .. MaxEvents
    BY DEF IInv, TypeOK
  <1>3. queue' \in Seq(FileEvent)
    BY <1>1, <1>2
  <1>4. events' \in 0 .. MaxEvents
    BY <1>1, <1>2, BufferAssumption
  <1>5. \A h \in heads : pc' = "walk" \/ \E i \in DOMAIN source : source[i].event = h
    BY <1>1 DEF IInv, HeadsKept
  <1> QED
    BY <1>1, <1>2, <1>3, <1>4, <1>5, AsideKeepsIInv

\* While the walk is at the start of the buffer, what it sees is the first event of
\* the read.
LEMMA FirstIsRead ==
    ASSUME IInv, pc = "walk", event = 0, First \in heads
    PROVE  IN_EVENT_OK /\ Monitored(WdAt(event)) /\ EventHere = First
  <1>1. Bytewise /\ Held
    BY DEF IInv, TypeOK, Bytewise
  <1>2. 1 \in 1 .. Len(present)
    <2>1. present # <<>> /\ present \in Seq(FileEvent)
      BY DEF IInv, TypeOK
    <2> QED
      BY <2>1
  <1>3. event = Len(Images(present)[1 - 1])
    <2>1. Len(present) \in Nat
      BY DEF IInv, TypeOK
    <2>2. Images(present)[0] = <<>>
      BY <2>1, ImagesAre
    <2> QED
      BY <2>2
  <1>4. WdAt(event) = present[1].wd /\ LenAt(event) = NameLen(present[1].name)
    BY <1>1, <1>2, <1>3, HeaderIsRead
  <1>5. present[1] \in FileEvent
    BY <1>1, <1>2 DEF Bytewise
  <1>6. present[1].wd \in Wd /\ present[1].name \in Name \cup {NoName}
    BY <1>5 DEF FileEvent
  <1>7. PICK m, n : m = NameLen(present[1].name) /\ n = Len(present)
    OBVIOUS
  <1>8. present[1].name # NoName
    <2>1. taken[First].name # NoName
      BY DEF IInv, HeadsKept
    <2>2. present[1] = taken[Len(taken) - Len(present) + 1]
      BY <1>2 DEF IInv, Recent
    <2> QED
      BY <2>1, <2>2 DEF First
  <1>9. m \in Nat /\ 16 <= m
    BY <1>6, <1>7, <1>8, NameLens
  <1>10. m <= length
    <2>1. PICK p : p = Len(Images(present)[1 - 1])
      OBVIOUS
    <2>2. p + (16 + m) <= event + length
      BY <1>1, <1>2, <1>7, <2>1, EventIsRead
    <2>3. length \in Nat /\ p = 0
      BY <1>1, <1>3, <2>1 DEF Bytewise
    <2> QED
      BY <1>9, <2>2, <2>3
  <1>11. length \in Nat /\ LenAt(event) = m
    BY <1>1, <1>4, <1>7 DEF Bytewise
  <1>12. IN_EVENT_OK
    BY <1>9, <1>10, <1>11 DEF IN_EVENT_OK, IN_EVENT_DATA_LEN
  <1>13. EventHere = Len(taken) - Len(present) + 1
    BY <1>1, <1>2, <1>3, EventHereIs DEF Bytewise
  <1> QED
    BY <1>4, <1>6, <1>12, <1>13 DEF Monitored, First

LEMMA WalkEndsKeepsIInv ==
    ASSUME IInv, WalkEnds
    PROVE  IInv'
  <1>1. /\ pc = "walk" /\ ~IN_EVENT_OK /\ pc' = "poll" /\ file' = file /\ queue' = queue
        /\ events' = events /\ UNCHANGED <<walkVars, log, historyVars>>
    BY DEF WalkEnds
  <1>2. file' \in BOOLEAN /\ queue' \in Seq(FileEvent) /\ events' \in 0 .. MaxEvents
    BY <1>1 DEF IInv, TypeOK
  <1>3. \A h \in heads : \E i \in DOMAIN source : source[i].event = h
    BY <1>1, FirstIsRead DEF IInv, HeadsKept
  <1> QED
    BY <1>1, <1>2, <1>3, AsideKeepsIInv

\* The end of the process, with what is cut off by it.
LEMMA DyingKeepsIInv ==
    ASSUME IInv, NoProcess, CutOff, UNCHANGED <<log, taken, present, source>>,
           buffer' = buffer, event' \in Nat, length' \in Nat, event' + length' = event + length,
           event <= event', events' \in 0 .. MaxEvents
    PROVE  IInv'
  <1>1. /\ pc' = "down" /\ file' = FALSE /\ queue' = <<>> /\ log' = log /\ taken' = taken
        /\ present' = present /\ source' = source
    BY DEF NoProcess
  <1>2. heads' \subseteq heads
    BY DEF CutOff
  <1>3. TypeOK'
    <2>1. /\ buffer' \in Seq(0 .. 255)
          /\ log' \in Seq([dir : Nat, message : Nat, name : Seq(1 .. 255)])
          /\ taken' \in Seq(FileEvent) /\ present' \in Seq(FileEvent)
          /\ Len(present') <= Len(taken')
          /\ source' \in Seq([at : Nat, event : 0 .. Len(taken')]) /\ Len(source') = Len(log')
      BY <1>1 DEF IInv, TypeOK
    <2>2. heads' \subseteq 1 .. Len(taken')
      BY <1>1, <1>2 DEF IInv, TypeOK
    <2>3. queue' \in Seq(FileEvent)
      BY <1>1
    <2>4. pc' \in {"down", "poll", "walk"} /\ file' \in BOOLEAN
      BY <1>1
    <2> QED
      BY <2>1, <2>2, <2>3, <2>4 DEF TypeOK
  <1>4. Held'
    BY <1>1 DEF IInv, Held
  <1>5. Recent'
    BY <1>1 DEF IInv, Recent
  <1>6. NothingInvented'
    BY <1>1 DEF IInv, NothingInvented
  <1>7. InOrder'
    <2>1. ASSUME NEW x \in Nat, x < event PROVE x < event'
      BY <2>1 DEF IInv, TypeOK
    <2>2. \A j \in 1 .. Len(present) : Len(Images(present)[j - 1]) \in Nat
      <3>1. TAKE j \in 1 .. Len(present)
      <3>2. Bytewise /\ Held
        BY DEF IInv, TypeOK, Bytewise
      <3> QED
        BY <3>2, EventIsRead
    <2> QED
      BY <1>1, <2>1, <2>2 DEF IInv, InOrder, First
  <1>8. HeadsKept'
    <2>1. \A h \in heads' : taken[h].name # NoName
      BY <1>2 DEF IInv, HeadsKept
    <2>2. ASSUME NEW h \in heads' PROVE \E i \in DOMAIN source : source[i].event = h
      BY <1>2 DEF IInv, HeadsKept, CutOff
    <2> QED
      BY <1>1, <2>1, <2>2 DEF HeadsKept
  <1> QED
    BY <1>1, <1>3, <1>4, <1>5, <1>6, <1>7, <1>8 DEF IInv

LEMMA CrashKeepsIInv ==
    ASSUME IInv, Crash
    PROVE  IInv'
  <1>1. /\ NoProcess /\ CutOff /\ events < MaxEvents /\ events' = events + 1
        /\ UNCHANGED <<walkVars, log, taken, present, source>>
    BY DEF Crash
  <1>2. buffer' = buffer /\ event' = event /\ length' = length
    BY <1>1 DEF walkVars
  <1>3. event \in Nat /\ length \in Nat /\ events \in 0 .. MaxEvents
    BY DEF IInv, TypeOK
  <1>4. events' \in 0 .. MaxEvents
    BY <1>1, <1>3, BufferAssumption
  <1>5. event <= event' /\ event' \in Nat /\ length' \in Nat /\ event' + length' = event + length
    BY <1>2, <1>3
  <1> QED
    BY <1>1, <1>2, <1>4, <1>5, DyingKeepsIInv

\* After a read: the bytes of the events that it brought are in the buffer, the
\* lines so far are of earlier events, and the first event is the walk's next.
LEMMA ReadKeepsIInv ==
    ASSUME IInv, ReadEvents
    PROVE  IInv'
  <1>1. PICK n \in 1 .. Len(queue) :
           /\ \E image : /\ image = Images(queue)[n]
                         /\ buffer' = image \o SubSeq(buffer, Len(image) + 1, Len(buffer))
                         /\ length' = Len(image)
           /\ queue' = SubSeq(queue, n + 1, Len(queue))
           /\ present' = SubSeq(queue, 1, n)
    BY DEF ReadEvents
  <1>2. PICK image : /\ image = Images(queue)[n]
                     /\ buffer' = image \o SubSeq(buffer, Len(image) + 1, Len(buffer))
                     /\ length' = Len(image)
    BY <1>1
  <1>3. /\ pc = "poll" /\ taken' = taken \o present'
        /\ heads' = heads \cup IF queue[1].name = NoName THEN {} ELSE {Len(taken) + 1}
        /\ event' = 0 /\ pc' = "walk"
        /\ file' = file /\ log' = log /\ events' = events /\ source' = source
    BY DEF ReadEvents
  <1>4. /\ file \in BOOLEAN /\ queue \in Seq(FileEvent) /\ buffer \in Seq(0 .. 255)
        /\ log \in Seq([dir : Nat, message : Nat, name : Seq(1 .. 255)])
        /\ events \in 0 .. MaxEvents /\ taken \in Seq(FileEvent)
        /\ source \in Seq([at : Nat, event : 0 .. Len(taken)]) /\ Len(source) = Len(log)
        /\ heads \subseteq 1 .. Len(taken)
    BY DEF IInv, TypeOK
  <1>5. PICK q, N, r, M : q = queue /\ N = Len(queue) /\ r = present' /\ M = Len(taken)
    OBVIOUS
  <1>6. q \in Seq(FileEvent) /\ N \in Nat /\ N = Len(q) /\ n \in 1 .. N /\ M \in Nat
    BY <1>4, <1>5
  <1>7. r \in Seq(FileEvent) /\ Len(r) = n /\ \A i \in 1 .. n : r[i] = q[i]
    BY <1>1, <1>5, <1>6
  <1>8. queue' \in Seq(FileEvent)
    BY <1>1, <1>4
  <1>9. PICK t : t = taken \o r
    OBVIOUS
  <1>10. /\ t \in Seq(FileEvent) /\ Len(t) = M + n
         /\ \A i \in 1 .. M : t[i] = taken[i]
         /\ \A i \in 1 .. n : t[M + i] = r[i]
    <2>1. /\ t \in Seq(FileEvent) /\ Len(t) = Len(taken) + Len(r)
          /\ \A i \in 1 .. Len(taken) : t[i] = taken[i]
          /\ \A i \in 1 .. Len(r) : t[Len(taken) + i] = r[i]
      <3>1. taken \in Seq(FileEvent) /\ r \in Seq(FileEvent)
        BY <1>4, <1>7
      <3> QED
        BY <1>9, <3>1, Joined
    <2> QED
      BY <1>5, <1>7, <2>1
  <1>11. taken' = t /\ present' = r
    BY <1>3, <1>5, <1>9
  <1>12. Images(r)[n] = image /\ image \in Seq(0 .. 255)
    <2>1. n \in 0 .. Len(q) /\ n \in 0 .. n
      BY <1>6
    <2>2. Images(r)[n] = Images(q)[n]
      BY <1>6, <1>7, <2>1, ImagesOfFirst
    <2>3. Images(q)[n] \in Seq(0 .. 255)
      BY <1>6, <2>1, ImagesLaid DEF Laid
    <2> QED
      BY <1>2, <1>5, <2>2, <2>3
  <1>13. PICK b, rest, w : b = buffer' /\ rest = SubSeq(buffer, Len(image) + 1, Len(buffer))
                           /\ w = Len(image)
    OBVIOUS
  <1>14. w \in Nat
    BY <1>12, <1>13
  <1>15. b \in Seq(0 .. 255) /\ w <= Len(b) /\ \A x \in 1 .. w : b[x] = image[x]
    <2>1. PICK B : B = 0 .. 255
      OBVIOUS
    <2>2. buffer \in Seq(B) /\ image \in Seq(B)
      BY <1>4, <1>12, <2>1
    <2>3. rest \in Seq(B)
      BY <1>13, <1>14, <2>2
    <2>4. b = image \o rest
      BY <1>2, <1>13
    <2>5. /\ b \in Seq(B) /\ Len(b) = Len(image) + Len(rest)
          /\ \A x \in 1 .. Len(image) : b[x] = image[x]
      BY <2>2, <2>3, <2>4, Joined
    <2>6. Len(rest) \in Nat
      BY <2>3
    <2>7. w <= Len(b)
      BY <1>13, <1>14, <2>5, <2>6
    <2> QED
      BY <1>13, <2>1, <2>5, <2>7
  <1>16. TypeOK'
    <2>1. buffer' \in Seq(0 .. 255) /\ length' \in Nat /\ event' \in Nat
      BY <1>2, <1>3, <1>13, <1>14, <1>15
    <2>2. taken' \in Seq(FileEvent) /\ present' \in Seq(FileEvent) /\ Len(present') <= Len(taken')
      <3>1. n <= M + n
        BY <1>6
      <3> QED
        BY <1>7, <1>10, <1>11, <3>1
    <2>3. source' \in Seq([at : Nat, event : 0 .. Len(taken')]) /\ Len(source') = Len(log')
      <3>1. PICK A, D : A = [at : Nat, event : 0 .. M] /\ D = [at : Nat, event : 0 .. (M + n)]
        OBVIOUS
      <3>2. A \subseteq D
        <4>1. \A x \in 0 .. M : x \in 0 .. (M + n)
          BY <1>6
        <4> QED
          BY <3>1, <4>1
      <3>3. source \in Seq(A)
        BY <1>4, <1>5, <3>1
      <3>4. source \in Seq(D)
        BY <3>2, <3>3
      <3> QED
        BY <1>3, <1>4, <1>10, <1>11, <3>1, <3>4
    <2>4. heads' \subseteq 1 .. Len(taken')
      <3>1. \A h \in 1 .. M : h \in 1 .. (M + n)
        BY <1>6
      <3>2. M + 1 \in 1 .. (M + n)
        BY <1>6
      <3>3. heads' \subseteq 1 .. (M + n)
        BY <1>3, <1>4, <1>5, <3>1, <3>2
      <3> QED
        BY <1>10, <1>11, <3>3
    <2>5. /\ pc' \in {"down", "poll", "walk"} /\ file' \in BOOLEAN /\ events' \in 0 .. MaxEvents
          /\ log' \in Seq([dir : Nat, message : Nat, name : Seq(1 .. 255)])
      BY <1>3, <1>4
    <2> QED
      BY <1>8, <2>1, <2>2, <2>3, <2>4, <2>5 DEF TypeOK
  <1>17. Held'
    <2>1. Images(present')[Len(present')] = image
      BY <1>7, <1>11, <1>12
    <2>2. event' + length' = Len(image)
      BY <1>2, <1>3, <1>13, <1>14
    <2> QED
      BY <1>13, <1>15, <2>1, <2>2 DEF Held
  <1>18. Recent'
    <2>1. ASSUME NEW j \in 1 .. n PROVE r[j] = t[Len(t) - n + j]
      <3>1. (M + n) - n + j = M + j
        BY <1>6
      <3> QED
        BY <1>10, <3>1
    <2> QED
      BY <1>7, <1>11, <2>1 DEF Recent
  <1>19. \A i \in DOMAIN source : source[i].event \in 0 .. M
    <2>1. TAKE i \in DOMAIN source
    <2>2. PICK A : A = [at : Nat, event : 0 .. M]
      OBVIOUS
    <2>3. source \in Seq(A)
      BY <1>4, <1>5, <2>2
    <2>4. source[i] \in A
      BY <2>3
    <2> QED
      BY <2>2, <2>4
  <1>20. NothingInvented'
    <2>1. DOMAIN log = DOMAIN source
      BY <1>4
    <2>2. ASSUME NEW i \in DOMAIN log, source[i].event # 0
          PROVE  t[source[i].event] = taken[source[i].event]
      <3>1. source[i].event \in 1 .. M
        BY <1>6, <1>19, <2>1, <2>2
      <3> QED
        BY <1>10, <3>1
    <2> QED
      BY <1>3, <1>11, <2>2 DEF IInv, NothingInvented
  <1>21. First' = M + 1
    <2>1. (M + n) - n + 1 = M + 1
      BY <1>6
    <2> QED
      BY <1>7, <1>10, <1>11, <2>1 DEF First
  <1>22. InOrder'
    <2>1. \A i \in DOMAIN source : source[i].event < M + 1
      BY <1>6, <1>19
    <2> QED
      BY <1>3, <1>21, <2>1 DEF InOrder
  <1>23. HeadsKept'
    <2>1. ASSUME NEW h \in heads
          PROVE  t[h].name # NoName /\ \E i \in DOMAIN source : source[i].event = h
      <3>1. t[h] = taken[h]
        BY <1>4, <1>5, <1>10
      <3>2. taken[h].name # NoName /\ \E i \in DOMAIN source : source[i].event = h
        BY <1>3 DEF IInv, HeadsKept
      <3> QED
        BY <3>1, <3>2
    <2>2. t[M + 1] = queue[1]
      <3>1. 1 \in 1 .. n
        BY <1>6
      <3> QED
        BY <1>5, <1>7, <1>10, <3>1
    <2>3. ASSUME NEW h \in heads', h \notin heads
          PROVE  t[h].name # NoName /\ h = M + 1
      BY <1>3, <1>5, <2>2, <2>3
    <2>4. ASSUME NEW h \in heads'
          PROVE  /\ t[h].name # NoName
                 /\ \/ \E i \in DOMAIN source : source[i].event = h
                    \/ pc' = "walk" /\ event' = 0 /\ h = First'
      BY <1>3, <1>21, <2>1, <2>3
    <2> QED
      BY <1>3, <1>11, <2>4 DEF HeadsKept
  <1>24. present' # <<>>
    BY <1>6, <1>7, <1>11
  <1> QED
    BY <1>16, <1>17, <1>18, <1>20, <1>22, <1>23, <1>24 DEF IInv

\* What a step of the walk goes by: lengths of at least a header, so that it goes
\* on, and not beyond what was read.
LEMMA WalkGoesOn ==
    ASSUME IInv, IN_EVENT_OK, event' = event + Advance, length' = length - Advance
    PROVE  /\ event' \in Nat /\ length' \in Nat /\ event' + length' = event + length
           /\ event < event' /\ length >= 16 /\ LenAt(event) >= 16
  <1>1. PICK p, l, a : p = event /\ l = length /\ a = LenAt(event)
    OBVIOUS
  <1>2. p \in Nat /\ l \in Nat
    BY <1>1 DEF IInv, TypeOK
  <1>3. a \in Nat
    <2>1. p + 12 \in Nat /\ buffer \in Seq(0 .. 255)
      BY <1>2 DEF IInv, TypeOK
    <2> QED
      BY <1>1, <2>1, NumberTyped DEF LenAt
  <1>4. l >= 16 /\ a >= 16 /\ a <= l
    BY <1>1 DEF IN_EVENT_OK, IN_EVENT_DATA_LEN
  <1>5. event' = p + a /\ length' = l - a
    BY <1>1 DEF Advance
  <1>6. p + a \in Nat /\ l - a \in Nat /\ (p + a) + (l - a) = p + l /\ p < p + a
    BY <1>2, <1>3, <1>4
  <1> QED
    BY <1>1, <1>4, <1>5, <1>6

\* The line of a step of the walk: the event that begins at the pointer, with its
\* place in the order of the lines, or none, and then not where a block could be.
LEMMA LineIsRead ==
    ASSUME IInv, IN_EVENT_OK, Monitored(WdAt(event)),
           NEW line, line = Line(WdAt(event), MaskAt(event), NameAt(event + IN_EVENT_DATA_LEN)),
           NEW e, e = EventHere
    PROVE  \/ /\ e = 0 /\ event % 16 # 0
           \/ \E j \in 1 .. Len(present) :
                 /\ e = Len(taken) - Len(present) + j /\ e \in 1 .. Len(taken)
                 /\ Len(Images(present)[j - 1]) = event
                 /\ line = LineOf(taken[e])
                 /\ \A i \in DOMAIN source : source[i].event < e
  <1>1. Bytewise /\ Held
    BY DEF IInv, TypeOK, Bytewise
  <1>2. PICK p : p = event
    OBVIOUS
  <1>3. p \in Nat
    BY <1>1, <1>2 DEF Bytewise
  <1>4. CASE \E j \in 1 .. Len(present) : Len(Images(present)[j - 1]) = event
    <2>1. PICK j \in 1 .. Len(present) : Len(Images(present)[j - 1]) = event
      BY <1>4
    <2>2. PICK N, M : N = Len(present) /\ M = Len(taken)
      OBVIOUS
    <2>3. N \in Nat /\ M \in Nat /\ N <= M /\ j \in 1 .. N
      BY <2>2 DEF IInv, TypeOK
    <2>4. e = M - N + j
      BY <1>1, <2>1, <2>2, EventHereIs DEF Bytewise
    <2>5. e \in 1 .. M
      BY <2>3, <2>4
    <2>6. present[j] = taken[e]
      BY <2>2, <2>4 DEF IInv, Recent
    <2>7. PICK name : name = present[j].name
      OBVIOUS
    <2>8. /\ WdAt(event) = present[j].wd /\ MaskAt(event) = present[j].mask
          /\ LenAt(event) = NameLen(name)
      BY <1>1, <2>1, <2>7, HeaderIsRead
    <2>9. name # NoName
      <3>1. ~(0 >= 16)
        OBVIOUS
      <3>2. LenAt(event) >= 16
        BY DEF IN_EVENT_OK, IN_EVENT_DATA_LEN
      <3>3. name = NoName => NameLen(name) = 0
        BY DEF NameLen
      <3> QED
        BY <2>8, <3>1, <3>2, <3>3
    <2>10. NameAt(event + 16) = [i \in 1 .. name[1] |-> NameBytes(name)[i]]
      BY <1>1, <2>1, <2>7, <2>9, NameIsRead
    <2>11. line = LineOf(taken[e])
      BY <2>6, <2>7, <2>8, <2>10 DEF LineOf, IN_EVENT_DATA_LEN
    <2>12. ASSUME NEW i \in DOMAIN source PROVE source[i].event < e
      <3>1. CASE source[i].event < First
        <4>1. PICK x : x = source[i].event
          OBVIOUS
        <4>2. x \in Nat
          <5>1. PICK A : A = [at : Nat, event : 0 .. M]
            OBVIOUS
          <5>2. source \in Seq(A)
            BY <2>2, <5>1 DEF IInv, TypeOK
          <5>3. source[i] \in A
            BY <5>2
          <5>4. x \in 0 .. M
            BY <4>1, <5>1, <5>3
          <5> QED
            BY <2>3, <5>4
        <4>3. x < M - N + 1
          BY <2>2, <3>1, <4>1 DEF First
        <4>4. x < e
          BY <2>3, <2>4, <4>2, <4>3
        <4> QED
          BY <4>1, <4>4
      <3>2. CASE \E k \in 1 .. N : source[i].event = M - N + k /\ Len(Images(present)[k - 1]) < event
        <4>1. PICK k \in 1 .. N : source[i].event = M - N + k /\ Len(Images(present)[k - 1]) < event
          BY <3>2
        <4>2. PICK o : o = Len(Images(present)[k - 1])
          OBVIOUS
        <4>3. o \in Nat /\ o < p
          <5>1. o \in Nat
            BY <1>1, <2>2, <4>2, EventIsRead
          <5> QED
            BY <1>2, <4>1, <4>2, <5>1
        <4>4. k # j
          BY <1>2, <1>3, <2>1, <4>2, <4>3
        <4>5. ~(j < k)
          <5>1. SUFFICES ASSUME j < k PROVE FALSE
            OBVIOUS
          <5>2. Len(Images(present)[j - 1]) + 16 <= Len(Images(present)[k - 1])
            <6>1. present \in Seq(FileEvent) /\ k \in 1 .. Len(present)
              BY <1>1, <2>2 DEF Bytewise
            <6> QED
              BY <5>1, <6>1, LaterIsFurther
          <5>3. p + 16 <= o
            BY <1>2, <2>1, <4>2, <5>2
          <5> QED
            BY <1>3, <4>3, <5>3
        <4>6. M - N + k < e
          BY <2>3, <2>4, <4>4, <4>5
        <4> QED
          BY <4>1, <4>6
      <3> QED
        BY <2>2, <3>1, <3>2 DEF IInv, InOrder
    <2> QED
      BY <2>1, <2>2, <2>4, <2>5, <2>11, <2>12
  <1>5. CASE ~ \E j \in 1 .. Len(present) : Len(Images(present)[j - 1]) = event
    <2>1. e = 0
      BY <1>5 DEF EventHere, Begins
    <2>2. WdAt(event) \in 1 .. 255
      BY WdAssumption DEF Monitored
    <2>3. length >= 16 /\ LenAt(event) # 0
      <3>1. length >= 16 /\ LenAt(event) >= 16
        BY DEF IN_EVENT_OK, IN_EVENT_DATA_LEN
      <3>2. ~(0 >= 16)
        OBVIOUS
      <3> QED
        BY <3>1, <3>2
    <2>4. event % 16 # 0
      BY <1>1, <1>5, <2>2, <2>3, BlockEndsWalk
    <2> QED
      BY <2>1, <2>4
  <1> QED
    BY <1>4, <1>5

\* What every step of the walk leaves as it should be: the buffer, and the order of
\* the lines so far.
LEMMA WalkHolds ==
    ASSUME IInv, event' \in Nat, event' + length' = event + length, event < event',
           UNCHANGED <<buffer, taken, present>>
    PROVE  /\ Held' /\ Recent'
           /\ \A i \in DOMAIN source :
                 \/ source[i].event < First'
                 \/ \E j \in 1 .. Len(present') :
                       /\ source[i].event = Len(taken') - Len(present') + j
                       /\ Len(Images(present')[j - 1]) < event'
  <1>1. Held'
    BY DEF IInv, Held
  <1>2. Recent'
    BY DEF IInv, Recent
  <1>3. ASSUME NEW x \in Nat, x < event PROVE x < event'
    BY <1>3 DEF IInv, TypeOK
  <1>4. \A j \in 1 .. Len(present) : Len(Images(present)[j - 1]) \in Nat
    <2>1. TAKE j \in 1 .. Len(present)
    <2>2. Bytewise /\ Held
      BY DEF IInv, TypeOK, Bytewise
    <2> QED
      BY <2>2, EventIsRead
  <1> QED
    BY <1>1, <1>2, <1>3, <1>4 DEF IInv, InOrder, First

LEMMA WalkOnKeepsIInv ==
    ASSUME IInv, WalkOn
    PROVE  IInv'
  <1>1. /\ pc = "walk" /\ IN_EVENT_OK /\ event' = event + Advance /\ length' = length - Advance
        /\ buffer' = buffer /\ events' = events /\ taken' = taken /\ present' = present
    BY DEF WalkOn
  <1>2. /\ event' \in Nat /\ length' \in Nat /\ event' + length' = event + length
        /\ event < event'
    BY <1>1, WalkGoesOn
  <1>3. event \in Nat /\ event' # 0 /\ event <= event'
    <2>1. event \in Nat
      BY DEF IInv, TypeOK
    <2> QED
      BY <1>2, <2>1
  <1>4. events \in 0 .. MaxEvents
    BY DEF IInv, TypeOK
  <1>5. /\ Held' /\ Recent'
        /\ \A i \in DOMAIN source :
              \/ source[i].event < First'
              \/ \E j \in 1 .. Len(present') :
                    /\ source[i].event = Len(taken') - Len(present') + j
                    /\ Len(Images(present')[j - 1]) < event'
    BY <1>1, <1>2, WalkHolds
  <1>6. CASE ~Monitored(WdAt(event))
    <2>1. /\ pc' = pc /\ file' = file /\ queue' = queue /\ log' = log /\ source' = source
          /\ heads' = heads
      BY <1>6 DEF WalkOn
    <2>2. TypeOK'
      BY <1>1, <1>2, <2>1 DEF IInv, TypeOK
    <2>3. NothingInvented'
      BY <1>1, <2>1 DEF IInv, NothingInvented
    <2>4. InOrder'
      BY <1>5, <2>1 DEF InOrder
    <2>5. HeadsKept'
      BY <1>1, <1>6, <2>1, FirstIsRead DEF IInv, HeadsKept
    <2>6. present' # <<>>
      BY <1>1 DEF IInv
    <2> QED
      BY <1>5, <2>2, <2>3, <2>4, <2>5, <2>6 DEF IInv
  <1>7. CASE Monitored(WdAt(event)) /\ ~file
    <2>1. NoProcess /\ CutOff /\ UNCHANGED <<log, source>>
      BY <1>7 DEF WalkOn
    <2> QED
      BY <1>1, <1>2, <1>3, <1>4, <2>1, DyingKeepsIInv
  <1>8. CASE Monitored(WdAt(event)) /\ file
    <2>1. LogEvent /\ pc' = pc /\ file' = file /\ queue' = queue /\ heads' = heads
      BY <1>8 DEF WalkOn
    <2>2. PICK line, e, s, L :
             /\ line = Line(WdAt(event), MaskAt(event), NameAt(event + IN_EVENT_DATA_LEN))
             /\ e = EventHere /\ s = [at |-> event, event |-> e] /\ L = Len(log)
      OBVIOUS
    <2>3. log' = Append(log, line) /\ source' = Append(source, s)
      BY <2>1, <2>2 DEF LogEvent
    <2>4. \/ /\ e = 0 /\ event % 16 # 0
          \/ \E j \in 1 .. Len(present) :
                /\ e = Len(taken) - Len(present) + j /\ e \in 1 .. Len(taken)
                /\ Len(Images(present)[j - 1]) = event
                /\ line = LineOf(taken[e])
                /\ \A i \in DOMAIN source : source[i].event < e
      BY <1>1, <1>8, <2>2, LineIsRead
    <2>5. e \in 0 .. Len(taken)
      <3>1. Len(taken) \in Nat
        BY DEF IInv, TypeOK
      <3> QED
        BY <2>4, <3>1
    <2>6. line \in [dir : Nat, message : Nat, name : Seq(1 .. 255)]
      <3>1. PICK p : p = event
        OBVIOUS
      <3>2. p \in Nat /\ p + 4 \in Nat /\ p + 16 \in Nat
        BY <1>3, <3>1
      <3>3. buffer \in Seq(0 .. 255)
        BY DEF IInv, TypeOK
      <3>4. WdAt(p) \in Nat
        BY <3>2, <3>3, NumberTyped DEF WdAt
      <3>5. NameAt(p + 16) \in Seq(1 .. 255)
        BY <3>2, <3>3, NameTyped
      <3>6. LogMessage(MaskAt(p)) \in Nat
        BY LogMessageTyped
      <3> QED
        BY <2>2, <3>1, <3>4, <3>5, <3>6 DEF Line, IN_EVENT_DATA_LEN
    <2>7. PICK R, A : /\ R = [dir : Nat, message : Nat, name : Seq(1 .. 255)]
                      /\ A = [at : Nat, event : 0 .. Len(taken)]
      OBVIOUS
    <2>8. log \in Seq(R) /\ source \in Seq(A) /\ Len(source) = L /\ L = Len(log) /\ L \in Nat
      BY <2>2, <2>7 DEF IInv, TypeOK
    <2>9. line \in R /\ s \in A /\ s.event = e /\ s.at = event
      BY <1>3, <2>2, <2>5, <2>6, <2>7
    <2>10. /\ log' \in Seq(R) /\ Len(log') = L + 1
           /\ \A i \in 1 .. L : log'[i] = log[i]
           /\ log'[L + 1] = line
      BY <2>3, <2>8, <2>9
    <2>11. /\ source' \in Seq(A) /\ Len(source') = L + 1
           /\ \A i \in 1 .. L : source'[i] = source[i]
           /\ source'[L + 1] = s
      BY <2>3, <2>8, <2>9
    <2>12. DOMAIN source = 1 .. L /\ DOMAIN source' = 1 .. (L + 1) /\ DOMAIN log' = 1 .. (L + 1)
           /\ DOMAIN log = 1 .. L
      BY <2>8, <2>10, <2>11
    <2>13. TypeOK'
      <3>1. /\ log' \in Seq([dir : Nat, message : Nat, name : Seq(1 .. 255)])
            /\ source' \in Seq([at : Nat, event : 0 .. Len(taken')]) /\ Len(source') = Len(log')
        BY <1>1, <2>7, <2>10, <2>11
      <3>2. /\ pc' \in {"down", "poll", "walk"} /\ file' \in BOOLEAN /\ queue' \in Seq(FileEvent)
            /\ buffer' \in Seq(0 .. 255) /\ event' \in Nat /\ length' \in Nat
            /\ events' \in 0 .. MaxEvents /\ taken' \in Seq(FileEvent)
            /\ present' \in Seq(FileEvent) /\ Len(present') <= Len(taken')
            /\ heads' \subseteq 1 .. Len(taken')
        BY <1>1, <1>2, <2>1 DEF IInv, TypeOK
      <3> QED
        BY <3>1, <3>2 DEF TypeOK
    <2>14. NothingInvented'
      <3>1. ASSUME NEW i \in 1 .. (L + 1)
            PROVE  /\ source'[i].event # 0 => log'[i] = LineOf(taken[source'[i].event])
                   /\ source'[i].event # 0 =>
                         \A k \in 1 .. i - 1 : source'[k].event < source'[i].event
                   /\ source'[i].event = 0 => source'[i].at % IN_EVENT_DATA_LEN # 0
        <4>1. CASE i = L + 1
          <5>1. \A k \in 1 .. i - 1 : k \in 1 .. L
            BY <2>8, <4>1
          <5>2. source'[i] = s /\ log'[i] = line
            BY <2>10, <2>11, <4>1
          <5>3. e # 0 => \A k \in 1 .. i - 1 : source'[k].event < e
            <6>1. e # 0 => \A k \in 1 .. L : source[k].event < e
              BY <2>4, <2>12
            <6> QED
              BY <2>11, <5>1, <6>1
          <5>4. e # 0 => line = LineOf(taken[e])
            BY <2>4
          <5>5. e = 0 => event % 16 # 0
            <6>1. ~(0 \in 1 .. Len(taken))
              BY DEF IInv, TypeOK
            <6> QED
              BY <2>4, <6>1
          <5> QED
            BY <2>9, <5>2, <5>3, <5>4, <5>5 DEF IN_EVENT_DATA_LEN
        <4>2. CASE i # L + 1
          <5>1. i \in 1 .. L /\ \A k \in 1 .. i - 1 : k \in 1 .. L
            BY <2>8, <4>2
          <5>2. /\ source[i].event # 0 => log[i] = LineOf(taken[source[i].event])
                /\ source[i].event # 0 => \A k \in 1 .. i - 1 : source[k].event < source[i].event
                /\ source[i].event = 0 => source[i].at % IN_EVENT_DATA_LEN # 0
            BY <2>12, <5>1 DEF IInv, NothingInvented
          <5> QED
            BY <2>10, <2>11, <5>1, <5>2
        <4> QED
          BY <4>1, <4>2
      <3> QED
        BY <1>1, <2>12, <3>1 DEF NothingInvented
    <2>15. InOrder'
      <3>1. ASSUME NEW i \in 1 .. (L + 1)
            PROVE  \/ source'[i].event < First'
                   \/ \E j \in 1 .. Len(present') :
                         /\ source'[i].event = Len(taken') - Len(present') + j
                         /\ Len(Images(present')[j - 1]) < event'
        <4>1. CASE i = L + 1
          <5>1. source'[i].event = e
            BY <2>9, <2>11, <4>1
          <5>2. CASE e = 0
            <6>1. 0 < First
              BY DEF First, IInv, TypeOK
            <6>2. First' = First
              BY <1>1 DEF First
            <6> QED
              BY <5>1, <5>2, <6>1, <6>2
          <5>3. CASE e # 0
            <6>1. PICK j \in 1 .. Len(present) :
                     /\ e = Len(taken) - Len(present) + j
                     /\ Len(Images(present)[j - 1]) = event
              BY <2>4, <5>3
            <6> QED
              BY <1>1, <1>2, <5>1, <6>1
          <5> QED
            BY <5>2, <5>3
        <4>2. CASE i # L + 1
          <5>1. i \in 1 .. L
            BY <2>8, <4>2
          <5> QED
            BY <1>5, <2>11, <2>12, <5>1
        <4> QED
          BY <4>1, <4>2
      <3> QED
        BY <2>12, <3>1 DEF InOrder
    <2>16. HeadsKept'
      <3>1. ASSUME NEW h \in heads PROVE \E i \in 1 .. (L + 1) : source'[i].event = h
        <4>1. CASE \E i \in DOMAIN source : source[i].event = h
          <5>1. PICK i \in 1 .. L : source[i].event = h
            BY <2>12, <4>1
          <5>2. i \in 1 .. (L + 1)
            BY <2>8
          <5> QED
            BY <2>11, <5>1, <5>2
        <4>2. CASE event = 0 /\ h = First
          <5>1. e = h
            BY <1>1, <2>2, <4>2, FirstIsRead
          <5>2. L + 1 \in 1 .. (L + 1)
            BY <2>8
          <5> QED
            BY <2>9, <2>11, <5>1, <5>2
        <4> QED
          BY <4>1, <4>2 DEF IInv, HeadsKept
      <3>2. \A h \in heads : taken[h].name # NoName
        BY DEF IInv, HeadsKept
      <3> QED
        BY <1>1, <2>1, <2>12, <3>1, <3>2 DEF HeadsKept
    <2>17. present' # <<>>
      BY <1>1 DEF IInv
    <2> QED
      BY <1>5, <2>13, <2>14, <2>15, <2>16, <2>17 DEF IInv
  <1> QED
    BY <1>6, <1>7, <1>8

LEMMA NextKeepsIInv ==
    ASSUME IInv, [Next]_vars
    PROVE  IInv'
  <1>1. CASE Start
    BY <1>1, StartKeepsIInv
  <1>2. ASSUME NEW e \in FileEvent, Happen(e) PROVE IInv'
    BY <1>2, HappenKeepsIInv
  <1>3. CASE ReadEvents
    BY <1>3, ReadKeepsIInv
  <1>4. CASE WalkOn
    BY <1>4, WalkOnKeepsIInv
  <1>5. CASE WalkEnds
    BY <1>5, WalkEndsKeepsIInv
  <1>6. CASE Crash
    BY <1>6, CrashKeepsIInv
  <1>7. CASE UNCHANGED vars
    <2>1. /\ pc' = pc /\ file' = file /\ queue' = queue /\ events' = events
          /\ UNCHANGED <<walkVars, log, historyVars>>
      BY <1>7 DEF vars
    <2>2. /\ pc' \in {"down", "poll", "walk"} /\ file' \in BOOLEAN /\ queue' \in Seq(FileEvent)
          /\ events' \in 0 .. MaxEvents
      BY <2>1 DEF IInv, TypeOK
    <2>3. \A h \in heads : pc' = "walk" \/ \E i \in DOMAIN source : source[i].event = h
      BY <2>1 DEF IInv, HeadsKept
    <2> QED
      BY <2>1, <2>2, <2>3, AsideKeepsIInv
  <1>8. CASE Idle
    BY <1>7, <1>8 DEF Idle
  <1> QED
    BY <1>1, <1>2, <1>3, <1>4, <1>5, <1>6, <1>7, <1>8 DEF Next

-----------------------------------------------------------------------------
(* No line has anything in it that was not read.                           *)

\* Behind the header that the walk stands at, the bytes of the last read have a
\* NUL: the name it is about to log ends among them, and what an earlier read, or
\* nobody, has written behind them does not matter.
NamesEnd ==
    pc = "walk" /\ IN_EVENT_OK /\ Monitored(WdAt(event)) =>
        \E k \in (event + IN_EVENT_DATA_LEN) .. (event + length - 1) : Byte(k) = 0

\* The last byte that was read is zero: the end of a name's place, or of the length
\* of an event without a name.
LEMMA LastIsNul ==
    ASSUME Bytewise, Held, present # <<>>
    PROVE  /\ \E k \in Nat : event + length = 16 * k
           /\ event + length \in Nat /\ Byte(event + length - 1) = 0
  <1>1. PICK q, I, N, w : q = present /\ I = Images(present) /\ N = Len(present) /\ w = event + length
    OBVIOUS
  <1>2. q \in Seq(FileEvent) /\ N \in Nat /\ N = Len(q) /\ I = Images(q) /\ w \in Nat /\ q # <<>>
    BY <1>1 DEF Bytewise
  <1>3. N \in 1 .. N /\ N \in 0 .. N
    <2>1. N # 0
      BY <1>2
    <2> QED
      BY <1>2, <2>1
  <1>4. w = Len(I[N])
    BY <1>1 DEF Held
  <1>5. Laid(q, N)
    BY <1>2, <1>3, ImagesLaid
  <1>6. PICK p, name, m, s : p = Len(I[N - 1]) /\ name = q[N].name /\ m = NameLen(name)
                             /\ s = Encoded(q[N])
    OBVIOUS
  <1>7. q[N] \in FileEvent
    BY <1>2, <1>3
  <1>8. name \in Name \cup {NoName}
    BY <1>6, <1>7 DEF FileEvent
  <1>9. p \in Nat /\ m \in Nat /\ \A x \in 1 .. (16 + m) : Byte(p + x - 1) = s[x]
    <2>1. N \in 1 .. Len(present) /\ p = Len(Images(present)[N - 1]) /\ m = NameLen(present[N].name)
          /\ s = Encoded(present[N])
      BY <1>1, <1>3, <1>6
    <2> QED
      BY <2>1, EventIsRead
  <1>10. w = p + (16 + m)
    <2>1. Len(s) = 16 + m
      BY <1>6, <1>7, EncodedAre
    <2>2. Len(I[N]) = p + Len(s)
      BY <1>2, <1>3, <1>5, <1>6 DEF Laid
    <2> QED
      BY <1>4, <2>1, <2>2
  <1>11. s[16 + m] = 0
    <2>1. CASE name # NoName
      <3>1. name[1] \in 1 .. 255 /\ name[1] < m /\ 16 <= m
        BY <1>6, <1>8, <2>1, NameLens
      <3>2. PICK n : n = name[1]
        OBVIOUS
      <3>3. n \in 1 .. 255 /\ n < m
        BY <3>1, <3>2
      <3>4. m \in 1 .. m /\ ~(m <= n)
        BY <1>9, <3>3
      <3>5. NameBytes(name)[m] = 0
        BY <1>6, <1>8, <3>2, <3>4, NameBytesAre
      <3>6. s[16 + m] = NameBytes(name)[m]
        BY <1>6, <1>7, <3>4, EncodedAre
      <3> QED
        BY <3>5, <3>6
    <2>2. CASE name = NoName
      <3>1. m = 0
        BY <1>6, <1>8, <2>2, NameLens
      <3>2. Word(s, 13) = 0
        BY <1>6, <1>7, <3>1, EncodedAre
      <3>3. PICK B, a, b, c, d : B = 0 .. 255 /\ a = s[13] /\ b = s[14] /\ c = s[15] /\ d = s[16]
        OBVIOUS
      <3>4. s \in Seq(B) /\ Len(s) = 16
        <4>1. s \in Seq(B) /\ Len(s) = 16 + m
          BY <1>6, <1>7, <3>3, EncodedAre
        <4> QED
          BY <3>1, <4>1
      <3>5. s[13] \in B /\ s[14] \in B /\ s[15] \in B /\ s[16] \in B
        <4>1. s \in Seq(B)
          BY <3>4
        <4>2. \A x \in 1 .. Len(s) : s[x] \in B
          BY <4>1
        <4>3. \A x \in 1 .. 16 : s[x] \in B
          BY <3>4, <4>2
        <4> QED
          BY <4>3
      <3>6. a \in 0 .. 255 /\ b \in 0 .. 255 /\ c \in 0 .. 255 /\ d \in 0 .. 255
        BY <3>3, <3>5
      <3>7. a \in Nat /\ b \in Nat /\ c \in Nat /\ d \in Nat
        BY <3>6
      <3>8. a + 256 * b + 65536 * c + 16777216 * d = 0
        <4>1. 13 + 1 = 14 /\ 13 + 2 = 15 /\ 13 + 3 = 16
          OBVIOUS
        <4> QED
          BY SMT, <3>2, <3>3, <4>1 DEF Word
      <3>9. d = 0
        BY SMT, <3>7, <3>8
      <3>10. 16 + m = 16
        BY <3>1
      <3> QED
        BY <3>3, <3>9, <3>10
    <2> QED
      BY <2>1, <2>2
  <1>12. Byte(w - 1) = 0
    <2>1. 16 + m \in 1 .. (16 + m) /\ p + (16 + m) - 1 = w - 1
      BY <1>9, <1>10
    <2> QED
      BY <1>9, <1>11, <2>1
  <1>13. \E k \in Nat : w = 16 * k
    BY <1>2, <1>4, <1>5 DEF Laid
  <1>14. w = event + length
    BY <1>1
  <1>15. w \in Nat
    BY <1>2
  <1>16. event + length - 1 = w - 1
    BY <1>14 DEF Bytewise
  <1> QED
    BY Zenon, <1>12, <1>13, <1>14, <1>15, <1>16

\* Before a name there is always room for it: where an event begins it is behind
\* the header, and where none begins the header does not end with the read.
LEMMA NameHasRoom ==
    ASSUME IInv, pc = "walk", IN_EVENT_OK, Monitored(WdAt(event))
    PROVE  event + 16 < event + length
  <1>1. Bytewise /\ Held /\ present # <<>>
    BY DEF IInv, TypeOK, Bytewise
  <1>2. PICK p, l, w : p = event /\ l = length /\ w = event + length
    OBVIOUS
  <1>3. p \in Nat /\ l \in Nat /\ w = p + l
    BY <1>1, <1>2 DEF Bytewise
  <1>4. l >= 16 /\ LenAt(event) >= 16
    BY <1>2 DEF IN_EVENT_OK, IN_EVENT_DATA_LEN
  <1>5. CASE \E j \in 1 .. Len(present) : Len(Images(present)[j - 1]) = event
    <2>1. PICK j \in 1 .. Len(present) : Len(Images(present)[j - 1]) = event
      BY <1>5
    <2>2. PICK m : m = NameLen(present[j].name)
      OBVIOUS
    <2>3. LenAt(event) = m
      BY <1>1, <2>1, <2>2, HeaderIsRead
    <2>4. m \in Nat /\ p + (16 + m) <= w
      BY <1>1, <1>2, <2>1, <2>2, EventIsRead
    <2>5. m >= 16
      BY <1>4, <2>3
    <2>6. p + 16 < w
      BY <1>3, <2>4, <2>5
    <2> QED
      BY <1>2, <2>6
  <1>6. CASE ~ \E j \in 1 .. Len(present) : Len(Images(present)[j - 1]) = event
    <2>1. WdAt(event) \in 1 .. 255
      BY WdAssumption DEF Monitored
    <2>2. LenAt(event) # 0
      <3>1. ~(0 >= 16)
        OBVIOUS
      <3> QED
        BY <1>4, <3>1
    <2>3. p % 16 # 0
      <3>1. length >= 16
        BY <1>2, <1>4
      <3>2. event % 16 # 0
        BY <1>1, <1>6, <2>1, <2>2, <3>1, BlockEndsWalk
      <3> QED
        BY <1>2, <3>2
    <2>4. PICK k \in Nat : w = 16 * k
      BY <1>1, <1>2, LastIsNul
    <2>5. p + 16 # w
      <3>1. SUFFICES ASSUME p + 16 = w PROVE FALSE
        OBVIOUS
      <3>2. p = 16 * (k - 1)
        BY <1>3, <2>4, <3>1
      <3>3. p % 16 = 0
        BY <1>3, <2>4, <3>2
      <3> QED
        BY <2>3, <3>3
    <2>6. p + 16 < w
      BY <1>3, <1>4, <2>5
    <2> QED
      BY <1>2, <2>6
  <1> QED
    BY <1>5, <1>6

-----------------------------------------------------------------------------
(* The theorems.                                                           *)

\* In every behaviour, for whatever is in the queue and wherever the walk goes.
LEMMA AlwaysIInv == Spec => []IInv
  <1>1. Init => IInv
    BY InitIInv
  <1>2. IInv /\ [Next]_vars => IInv'
    BY NextKeepsIInv
  <1> QED
    BY <1>1, <1>2, PTL DEF Spec

\* The variables of mon keep their types: what the walk reads as lengths never
\* takes it, or what is left of it, out of what was read.
THEOREM MonitorTypes == Spec => []TypeOK
  <1>1. IInv => TypeOK
    BY DEF IInv
  <1> QED
    BY <1>1, AlwaysIInv, PTL

\* Every line that mt_event_process() logs from where an event begins tells of that
\* event, once and in its turn; the lines that tell of none come from where the
\* walk has taken a letter for a length.
THEOREM NothingIsInvented == Spec => []NothingInvented
  <1>1. IInv => NothingInvented
    BY DEF IInv
  <1> QED
    BY <1>1, AlwaysIInv, PTL

\* Of every read the first event that has a name has its line when mon is back in
\* poll(), however IN_EVENT_NEXT went on from it.
THEOREM HeadsLogged == Spec => []HeadsAreLogged
  <1>1. IInv => HeadsAreLogged
    BY DEF IInv, HeadsKept, HeadsAreLogged
  <1> QED
    BY <1>1, AlwaysIInv, PTL

\* Whatever the walk logs has been read: the name in the line ends before what is
\* left of the buffer does, so that stale bytes behind it never come into a line.
THEOREM NamesEndInRead == Spec => []NamesEnd
  <1>1. ASSUME IInv PROVE NamesEnd
    <2>1. SUFFICES ASSUME pc = "walk", IN_EVENT_OK, Monitored(WdAt(event))
                   PROVE  \E k \in (event + 16) .. (event + length - 1) : Byte(k) = 0
      BY DEF NamesEnd, IN_EVENT_DATA_LEN
    <2>2. Bytewise /\ Held /\ present # <<>>
      BY <1>1, <2>1 DEF IInv, TypeOK, Bytewise
    <2>3. event + 16 < event + length
      BY <1>1, <2>1, NameHasRoom
    <2>4. event + length \in Nat /\ Byte(event + length - 1) = 0
      BY <2>2, LastIsNul
    <2>5. PICK p, w : p = event /\ w = event + length
      OBVIOUS
    <2>6. p \in Nat /\ w \in Nat /\ p + 16 < w /\ Byte(w - 1) = 0
      BY <2>2, <2>3, <2>4, <2>5 DEF Bytewise
    <2>7. w - 1 \in (p + 16) .. (w - 1)
      BY <2>6
    <2>8. \E k \in (p + 16) .. (w - 1) : Byte(k) = 0
      BY <2>6, <2>7
    <2>9. event + 16 = p + 16 /\ event + length - 1 = w - 1
      BY <2>2, <2>5 DEF Bytewise
    <2> QED
      BY Zenon, <2>8, <2>9
  <1> QED
    BY <1>1, AlwaysIInv, PTL
=============================================================================
