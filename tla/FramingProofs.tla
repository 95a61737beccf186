--------------------------- MODULE FramingProofs ---------------------------
(***************************************************************************)
(* What Framing promises, for every limit of a body and any headers the    *)
(* clients send: however the stream is cut into pieces, a reader posts the *)
(* messages that were sent, and refuses none that may be sent.             *)
(*                                                                         *)
(* The bytes a reader has not made a message of, those it holds followed   *)
(* by those under way, are the frames of the messages it has not posted:   *)
(* all of them while the connection holds, the first of them afterwards.   *)
(* at[i] is the number of those bytes in front of the frame of message i.  *)
(* It is -4 for the message whose header has just been taken off.          *)
(***************************************************************************)
EXTENDS Framing, SequenceTheorems, TLAPS

-----------------------------------------------------------------------------
(* Numbers and their bytes.                                                *)

Upper(n) == n \div 256
Lower(n) == n % 256

(* The division by 256 and its remainder, by the multiplication they undo. *)
LEMMA Division ==
  ASSUME NEW n \in Int
  PROVE  /\ Upper(n) \in Int /\ Lower(n) \in Int /\ n = 256 * Upper(n) + Lower(n)
         /\ 0 <= Lower(n) /\ Lower(n) <= 255
  BY DEF Upper, Lower

LEMMA Quotient ==
  ASSUME NEW q \in Int, NEW r \in Int, NEW n \in Int,
         0 <= r, r <= 255, 0 <= n, n <= 65535, n = 256 * q + r
  PROVE  0 <= q /\ q <= 255
  OBVIOUS

(* A number of 16 bits has two bytes.                                      *)
LEMMA TwoBytes ==
  ASSUME NEW u \in Int, 0 <= u, u <= 65535
  PROVE  Upper(u) \in 0 .. 255 /\ Lower(u) \in 0 .. 255 /\ u = Upper(u) * 256 + Lower(u)
  <1>1. PICK q \in Int, r \in Int : q = Upper(u) /\ r = Lower(u)
    BY Division
  <1>2. u = 256 * q + r /\ 0 <= r /\ r <= 255
    BY <1>1, Division
  <1>3. 0 <= q /\ q <= 255
    BY <1>2, Quotient
  <1>4. u = q * 256 + r
    BY <1>2
  <1> QED BY <1>1, <1>2, <1>3, <1>4, SMTT(30)

LEMMA Unsigned ==
  ASSUME NEW s \in Int, -32768 <= s, s <= 32767
  PROVE  s % 65536 = IF s >= 0 THEN s ELSE s + 65536
  OBVIOUS

LEMMA LowerUnsigned ==
  ASSUME NEW s \in Int
  PROVE  Lower(s + 65536) = Lower(s)
  BY DEF Lower

(* The unsigned number that has the bytes of a signed one.                 *)
LEMMA UnsignedOf ==
  ASSUME NEW s \in Int, -32768 <= s, s <= 32767
  PROVE  \E u \in Int : /\ 0 <= u /\ u <= 65535
                        /\ s % 65536 = u /\ Lower(s) = Lower(u)
                        /\ s = IF u < 32768 THEN u ELSE u - 65536
  <1>1. CASE s >= 0
    <2>1. s % 65536 = s
      BY <1>1, Unsigned
    <2>2. 0 <= s /\ s <= 65535 /\ s < 32768
      BY <1>1
    <2> QED BY <2>1, <2>2
  <1>2. CASE ~(s >= 0)
    <2>1. PICK u \in Int : u = s + 65536
      OBVIOUS
    <2>2. 0 <= u /\ u <= 65535 /\ ~(u < 32768) /\ s = u - 65536
      BY <1>2, <2>1
    <2>3. s % 65536 = u
      BY <1>2, <2>1, Unsigned
    <2>4. Lower(s) = Lower(u)
      BY <2>1, LowerUnsigned
    <2> QED BY <2>2, <2>3, <2>4
  <1> QED BY <1>1, <1>2

LEMMA Powers == 2^16 = 65536 /\ 2^15 = 32768
  OBVIOUS

LEMMA ShortRange ==
  ASSUME NEW s \in Short
  PROVE  s \in Int /\ -32768 <= s /\ s <= 32767
  BY Powers DEF Short

(* The bytes of a short on the wire, and the short they are read as.       *)
LEMMA NetBytes ==
  ASSUME NEW s \in Short
  PROVE  /\ Net(s) \in Seq(Byte) /\ Len(Net(s)) = 2 /\ Host(Net(s), 1) = s
  <1>1. PICK u \in Int : /\ 0 <= u /\ u <= 65535
                         /\ s % 65536 = u /\ Lower(s) = Lower(u)
                         /\ s = IF u < 32768 THEN u ELSE u - 65536
    BY ShortRange, UnsignedOf
  <1>2. Net(s) = <<Upper(u), Lower(u)>>
    BY <1>1, Powers DEF Net, Upper, Lower
  <1>3. Upper(u) \in 0 .. 255 /\ Lower(u) \in 0 .. 255 /\ u = Upper(u) * 256 + Lower(u)
    BY <1>1, TwoBytes
  <1>4. Net(s) \in Seq(Byte) /\ Len(Net(s)) = 2
    BY <1>2, <1>3 DEF Byte
  <1>5. Net(s)[1] = Upper(u) /\ Net(s)[1 + 1] = Lower(u)
    BY <1>2
  <1>6. Host(Net(s), 1) = IF u < 32768 THEN u ELSE u - 65536
    BY <1>3, <1>5, Powers DEF Host
  <1> QED BY <1>1, <1>4, <1>6

(* network_to_host_short undoes host_to_network_short.                     *)
LEMMA HostOfNet ==
  ASSUME NEW s \in Short, NEW S, NEW i \in Int, NEW next \in Int, next = i + 1,
         S[i] = Net(s)[1], S[next] = Net(s)[2]
  PROVE  Host(S, i) = s
  <1>1. Host(S, i) = Host(Net(s), 1)
    BY 1 + 1 = 2 DEF Host
  <1> QED BY <1>1, NetBytes

(* A frame: two bytes of the id, two of the length, and the body.          *)
LEMMA FrameBytes ==
  ASSUME NEW m \in Message
  PROVE  /\ FrameOf(m) \in Seq(Byte) /\ Len(FrameOf(m)) = 4 + Len(m.body)
         /\ FrameOf(m)[1] = Net(m.id)[1] /\ FrameOf(m)[2] = Net(m.id)[2]
         /\ FrameOf(m)[3] = Net(m.len)[1] /\ FrameOf(m)[4] = Net(m.len)[2]
         /\ \A j \in 1 .. Len(m.body) : FrameOf(m)[4 + j] = m.body[j]
  <1> DEFINE a == Net(m.id)  b == Net(m.len)  c == m.body
  <1>1. /\ a \in Seq(Byte) /\ Len(a) = 2 /\ b \in Seq(Byte) /\ Len(b) = 2
        /\ c \in Seq(Byte) /\ Len(c) \in Nat
    <2>1. m.id \in Short /\ m.len \in Short /\ m.body \in Seq(Byte)
      BY DEF Message
    <2> QED BY <2>1, NetBytes, LenProperties
  <1>2. FrameOf(m) = a \o b \o c
    BY DEF FrameOf
  <1> HIDE DEF a, b, c
  <1>3. /\ a \o b \in Seq(Byte) /\ Len(a \o b) = 4
        /\ \A j \in 1 .. 4 : (a \o b)[j] = IF j <= 2 THEN a[j] ELSE b[j - 2]
    BY <1>1, ConcatProperties, SMTT(30)
  <1>4. /\ a \o b \o c \in Seq(Byte) /\ Len(a \o b \o c) = 4 + Len(c)
        /\ \A j \in 1 .. 4 + Len(c) :
             (a \o b \o c)[j] = IF j <= 4 THEN (a \o b)[j] ELSE c[j - 4]
    BY <1>1, <1>3, ConcatProperties
  <1>5. FrameOf(m)[1] = a[1] /\ FrameOf(m)[2] = a[2] /\ FrameOf(m)[3] = b[1] /\ FrameOf(m)[4] = b[2]
    BY <1>1, <1>2, <1>3, <1>4
  <1>6. \A j \in 1 .. Len(c) : FrameOf(m)[4 + j] = c[j]
    BY <1>1, <1>2, <1>4
  <1> QED BY <1>2, <1>4, <1>5, <1>6 DEF a, b, c

-----------------------------------------------------------------------------
(* The frames in a sequence of bytes.                                      *)

(* at[i] bytes come before the frame of ms[i], for the messages from k on. *)
Places(ms, k, at) ==
  /\ at \in [k .. Len(ms) + 1 -> Int]
  /\ \A i \in k .. Len(ms) : at[i + 1] = at[i] + 4 + Len(ms[i].body)
  /\ \A i \in k .. Len(ms) + 1 : at[i] <= at[Len(ms) + 1]

(* The bytes there are at those places are the ones of the frames.         *)
Carries(S, ms, k, at) ==
  \A i \in k .. Len(ms) : \A j \in 1 .. 4 + Len(ms[i].body) :
    at[i] + j \in 1 .. Len(S) => S[at[i] + j] = FrameOf(ms[i])[j]

(* S is what comes after the first -off bytes of the frames of the         *)
(* messages from k on: all of it, or the first of it.                      *)
Frames(S, ms, k, off, whole) ==
  \E at : /\ Places(ms, k, at) /\ Carries(S, ms, k, at)
          /\ at[k] = off
          /\ Len(S) <= at[Len(ms) + 1]
          /\ whole => Len(S) = at[Len(ms) + 1]

(* The lengths of the bodies.                                              *)
LEMMA BodyLength ==
  ASSUME NEW ms \in Seq(Message), NEW i \in 1 .. Len(ms)
  PROVE  ms[i] \in Message /\ ms[i].body \in Seq(Byte) /\ Len(ms[i].body) \in Nat
  <1>1. ms[i] \in Message
    BY ElementOfSeq
  <1>2. ms[i].body \in Seq(Byte)
    BY <1>1 DEF Message
  <1> QED BY <1>1, <1>2, LenProperties

(* The first of those bytes.                                               *)
LEMMA Trim ==
  ASSUME NEW B, NEW S \in Seq(B), NEW T \in Seq(B), NEW ms \in Seq(Message),
         NEW k \in 1 .. Len(ms) + 1, NEW off \in Int, NEW whole \in BOOLEAN,
         Len(T) <= Len(S), \A j \in 1 .. Len(T) : T[j] = S[j],
         Frames(S, ms, k, off, whole)
  PROVE  Frames(T, ms, k, off, FALSE)
  <1>1. PICK at : /\ Places(ms, k, at) /\ Carries(S, ms, k, at)
                  /\ at[k] = off /\ Len(S) <= at[Len(ms) + 1]
    BY DEF Frames
  <1>2. Len(S) \in Nat /\ Len(T) \in Nat /\ Len(ms) \in Nat
    BY LenProperties
  <1>3. Carries(T, ms, k, at)
    <2> SUFFICES ASSUME NEW i \in k .. Len(ms), NEW j \in 1 .. 4 + Len(ms[i].body),
                        at[i] + j \in 1 .. Len(T)
                 PROVE  T[at[i] + j] = FrameOf(ms[i])[j]
      BY DEF Carries
    <2>1. at[i] + j \in 1 .. Len(S)
      BY <1>2
    <2>2. S[at[i] + j] = FrameOf(ms[i])[j]
      BY <1>1, <2>1 DEF Carries
    <2> QED BY <2>2
  <1>4. at[Len(ms) + 1] \in Int
    BY <1>1, <1>2 DEF Places
  <1>5. Len(T) <= at[Len(ms) + 1]
    BY <1>1, <1>2, <1>4
  <1> QED BY <1>1, <1>3, <1>5 DEF Frames

(* One more message: its place is the end of the others.                   *)
LEMMA NextPlace ==
  ASSUME NEW ms \in Seq(Message), NEW m \in Message, NEW k \in 1 .. Len(ms) + 1,
         NEW at, Places(ms, k, at)
  PROVE  \E at2 : /\ Places(Append(ms, m), k, at2)
                  /\ \A i \in k .. Len(ms) + 1 : at2[i] = at[i]
                  /\ at2[Len(ms) + 2] = at[Len(ms) + 1] + 4 + Len(m.body)
  <1> DEFINE n == Len(ms)
             ms2 == Append(ms, m)
             end == at[n + 1] + 4 + Len(m.body)
             at2 == [i \in k .. n + 2 |-> IF i = n + 2 THEN end ELSE at[i]]
  <1>1. n \in Nat /\ Len(m.body) \in Nat /\ at[n + 1] \in Int
    <2>1. m.body \in Seq(Byte)
      BY DEF Message
    <2> QED BY <2>1, LenProperties DEF Places
  <1>2. ms2 \in Seq(Message) /\ Len(ms2) = n + 1 /\ ms2[n + 1] = m
        /\ \A i \in 1 .. n : ms2[i] = ms[i]
    BY AppendProperties
  <1>3. \A i \in k .. n + 1 : at2[i] = at[i] /\ at[i] \in Int /\ at[i] <= at[n + 1]
    BY <1>1 DEF Places
  <1>4. at2[n + 2] = end /\ end \in Int /\ at[n + 1] <= end
    BY <1>1, SMTT(30)
  <1> HIDE DEF end
  <1>5. at2 \in [k .. n + 2 -> Int]
    <2> SUFFICES ASSUME NEW i \in k .. n + 2
                 PROVE  (IF i = n + 2 THEN end ELSE at[i]) \in Int
      OBVIOUS
    <2>1. i = n + 2 \/ i \in k .. n + 1
      BY <1>1
    <2> QED BY <2>1, <1>3, <1>4
  <1> HIDE DEF ms2, at2
  <1>6. ASSUME NEW i \in k .. n + 1
        PROVE  at2[i + 1] = at2[i] + 4 + Len(ms2[i].body)
    <2>1. CASE i = n + 1
      BY <2>1, <1>1, <1>2, <1>3, <1>4 DEF end
    <2>2. CASE i \in k .. n
      <3>1. i + 1 \in k .. n + 1 /\ i \in k .. n + 1 /\ i \in 1 .. n
        BY <2>2, <1>1
      <3>2. at2[i + 1] = at[i + 1] /\ at2[i] = at[i] /\ ms2[i] = ms[i]
        BY <3>1, <1>2, <1>3
      <3>3. at[i + 1] = at[i] + 4 + Len(ms[i].body)
        BY <2>2 DEF Places
      <3> QED BY <3>2, <3>3
    <2> QED BY <2>1, <2>2, <1>1
  <1>7. ASSUME NEW i \in k .. n + 2
        PROVE  at2[i] <= at2[n + 2]
    <2>1. CASE i = n + 2
      BY <2>1, <1>4
    <2>2. CASE i \in k .. n + 1
      BY <2>2, <1>1, <1>3, <1>4
    <2> QED BY <2>1, <2>2, <1>1
  <1>8. Places(ms2, k, at2)
    <2>1. Len(ms2) + 1 = n + 2
      BY <1>1, <1>2
    <2> QED BY <2>1, <1>2, <1>5, <1>6, <1>7 DEF Places
  <1> QED BY <1>3, <1>4, <1>8 DEF ms2, end

LEMMA Within ==
  ASSUME NEW p \in Int, NEW b \in Nat, NEW l \in Nat, NEW j \in Int,
         p + 4 + b <= l, j <= 4 + b
  PROVE  p + j <= l
  OBVIOUS

(* A frame that is written follows the others.                             *)
LEMMA Written ==
  ASSUME NEW S \in Seq(Byte), NEW ms \in Seq(Message), NEW m \in Message,
         NEW k \in 1 .. Len(ms) + 1, NEW off \in Int,
         Frames(S, ms, k, off, TRUE)
  PROVE  Frames(S \o FrameOf(m), Append(ms, m), k, off, TRUE)
  <1> DEFINE n == Len(ms)
             ms2 == Append(ms, m)
             f == FrameOf(m)
             T == S \o f
  <1>1. PICK at : /\ Places(ms, k, at) /\ Carries(S, ms, k, at)
                  /\ at[k] = off /\ Len(S) = at[n + 1]
    BY DEF Frames
  <1>2. PICK at2 : /\ Places(ms2, k, at2)
                   /\ \A i \in k .. n + 1 : at2[i] = at[i]
                   /\ at2[n + 2] = at[n + 1] + 4 + Len(m.body)
    BY <1>1, NextPlace
  <1>3. n \in Nat /\ Len(S) \in Nat /\ Len(m.body) \in Nat
    <2>1. m.body \in Seq(Byte)
      BY DEF Message
    <2> QED BY <2>1, LenProperties
  <1>4. f \in Seq(Byte) /\ Len(f) = 4 + Len(m.body)
    BY FrameBytes
  <1>5. ms2 \in Seq(Message) /\ Len(ms2) = n + 1 /\ ms2[n + 1] = m
        /\ \A i \in 1 .. n : ms2[i] = ms[i]
    BY AppendProperties
  <1> HIDE DEF ms2, f
  <1>6. T \in Seq(Byte) /\ Len(T) = Len(S) + Len(f)
        /\ \A j \in 1 .. Len(S) + Len(f) : T[j] = IF j <= Len(S) THEN S[j] ELSE f[j - Len(S)]
    BY <1>4, ConcatProperties, Zenon
  <1> HIDE DEF T
  <1>7. Carries(T, ms2, k, at2)
    <2> SUFFICES ASSUME NEW i \in k .. n + 1, NEW j \in 1 .. 4 + Len(ms2[i].body),
                        at2[i] + j \in 1 .. Len(T)
                 PROVE  T[at2[i] + j] = FrameOf(ms2[i])[j]
      BY <1>5 DEF Carries
    <2>1. CASE i = n + 1
      <3>1. at2[i] = Len(S) /\ ms2[i] = m
        BY <2>1, <1>1, <1>2, <1>3, <1>5
      <3>2. T[Len(S) + j] = f[j]
        BY <3>1, <1>3, <1>4, <1>6
      <3> QED BY <3>1, <3>2 DEF f
    <2>2. CASE i \in k .. n
      <3>1. i \in k .. n + 1 /\ i + 1 \in k .. n + 1 /\ i \in 1 .. n
        BY <2>2, <1>3
      <3>2. at2[i] = at[i] /\ ms2[i] = ms[i]
        BY <3>1, <1>2, <1>5
      <3>3. Len(ms[i].body) \in Nat
        BY <3>1, BodyLength
      <3>4. at[i] \in Int /\ at[i + 1] = at[i] + 4 + Len(ms[i].body) /\ at[i + 1] <= Len(S)
        BY <2>2, <3>1, <1>1 DEF Places
      <3>5. at[i] + j <= Len(S)
        <4>1. PICK p \in Int, b \in Nat, l \in Nat :
                p = at[i] /\ b = Len(ms[i].body) /\ l = Len(S) /\ p + 4 + b <= l
          BY <3>3, <3>4, <1>3
        <4>2. j \in Int /\ j <= 4 + b
          BY <4>1, <3>2, <3>3
        <4>3. p + j <= l
          BY <4>1, <4>2, Within
        <4> QED BY <4>1, <4>3
      <3>6. at[i] + j \in 1 .. Len(S)
        BY <3>2, <3>3, <3>4, <3>5, <1>3
      <3>7. S[at[i] + j] = FrameOf(ms[i])[j]
        BY <3>2, <3>6, <2>2, <1>1 DEF Carries
      <3>8. T[at[i] + j] = S[at[i] + j]
        <4>1. PICK x \in 1 .. Len(S) : x = at[i] + j
          BY <3>6
        <4>2. x \in 1 .. Len(S) + Len(f) /\ x <= Len(S)
          BY <1>3, <1>4
        <4> QED BY <4>1, <4>2, <1>6
      <3> QED BY <3>2, <3>7, <3>8
    <2> QED BY <2>1, <2>2, <1>3
  <1>8. at2[k] = off
    BY <1>1, <1>2, <1>3
  <1>9. Len(T) = at2[n + 2] /\ n + 2 = Len(ms2) + 1
    <2>1. PICK l \in Nat, b \in Nat : l = Len(S) /\ b = Len(m.body)
      BY <1>3
    <2>2. at2[n + 2] = l + 4 + b
      BY <2>1, <1>1, <1>2
    <2>3. Len(T) = l + (4 + b)
      BY <2>1, <1>4, <1>6
    <2>4. l + 4 + b = l + (4 + b)
      OBVIOUS
    <2>5. n + 2 = Len(ms2) + 1
      BY <1>3, <1>5
    <2> QED BY <2>2, <2>3, <2>4, <2>5
  <1>10. Len(T) <= at2[Len(ms2) + 1]
    BY <1>3, <1>4, <1>6, <1>9
  <1>11. Frames(T, ms2, k, off, TRUE)
    BY <1>2, <1>7, <1>8, <1>9, <1>10 DEF Frames
  <1> QED BY <1>11 DEF T, ms2, f

(* A frame that is not written leaves only the first of the bytes.         *)
LEMMA Unwritten ==
  ASSUME NEW S \in Seq(Byte), NEW ms \in Seq(Message), NEW m \in Message,
         NEW k \in 1 .. Len(ms) + 1, NEW off \in Int, NEW whole \in BOOLEAN,
         Frames(S, ms, k, off, whole)
  PROVE  Frames(S, Append(ms, m), k, off, FALSE)
  <1> DEFINE n == Len(ms)
             ms2 == Append(ms, m)
  <1>1. PICK at : /\ Places(ms, k, at) /\ Carries(S, ms, k, at)
                  /\ at[k] = off /\ Len(S) <= at[n + 1]
    BY DEF Frames
  <1>2. PICK at2 : /\ Places(ms2, k, at2)
                   /\ \A i \in k .. n + 1 : at2[i] = at[i]
                   /\ at2[n + 2] = at[n + 1] + 4 + Len(m.body)
    BY <1>1, NextPlace
  <1>3. n \in Nat /\ Len(S) \in Nat /\ Len(m.body) \in Nat /\ at[n + 1] \in Int
    <2>1. m.body \in Seq(Byte)
      BY DEF Message
    <2> QED BY <2>1, <1>1, LenProperties DEF Places
  <1>5. ms2 \in Seq(Message) /\ Len(ms2) = n + 1 /\ ms2[n + 1] = m
        /\ \A i \in 1 .. n : ms2[i] = ms[i]
    BY AppendProperties
  <1> HIDE DEF ms2
  <1>7. Carries(S, ms2, k, at2)
    <2> SUFFICES ASSUME NEW i \in k .. n + 1, NEW j \in 1 .. 4 + Len(ms2[i].body),
                        at2[i] + j \in 1 .. Len(S)
                 PROVE  S[at2[i] + j] = FrameOf(ms2[i])[j]
      BY <1>5 DEF Carries
    <2>1. CASE i = n + 1
      <3>1. at2[i] = at[n + 1] /\ Len(ms2[i].body) \in Nat
        BY <2>1, <1>2, <1>3, <1>5
      <3>2. at2[i] + j > Len(S)
        BY <3>1, <1>1, <1>3
      <3> QED BY <3>1, <3>2, <1>3
    <2>2. CASE i \in k .. n
      <3>1. i \in k .. n + 1 /\ i \in 1 .. n
        BY <2>2, <1>3
      <3>2. at2[i] = at[i] /\ ms2[i] = ms[i]
        BY <3>1, <1>2, <1>5
      <3> QED BY <3>2, <2>2, <1>1 DEF Carries
    <2> QED BY <2>1, <2>2, <1>3, SMTT(30)
  <1>8. at2[k] = off
    BY <1>1, <1>2, <1>3
  <1>9. Len(S) <= at2[Len(ms2) + 1]
    BY <1>1, <1>2, <1>3, <1>5
  <1> QED BY <1>2, <1>7, <1>8, <1>9 DEF Frames, ms2

LEMMA Beyond ==
  ASSUME NEW a \in Int, NEW d \in Nat, NEW l \in Nat, NEW j \in Int, (a - d) + j \in 1 .. l
  PROVE  a + j \in 1 .. d + l /\ ~(a + j <= d) /\ (a + j) - d = (a - d) + j
  OBVIOUS

(* The first bytes are taken off: the places of the others move.           *)
LEMMA TakenOff ==
  ASSUME NEW b \in Seq(Byte), NEW T \in Seq(Byte), NEW ms \in Seq(Message),
         NEW k \in 1 .. Len(ms) + 1, NEW k2 \in k .. Len(ms) + 1,
         NEW off \in Int, NEW whole \in BOOLEAN,
         NEW at, Places(ms, k, at), Carries(b \o T, ms, k, at),
         Len(b \o T) <= at[Len(ms) + 1],
         whole => Len(b \o T) = at[Len(ms) + 1],
         at[k2] = off + Len(b)
  PROVE  Frames(T, ms, k2, off, whole)
  <1> DEFINE n == Len(ms)
             S == b \o T
             d == Len(b)
             at2 == [i \in k2 .. n + 1 |-> at[i] - d]
  <1>1. n \in Nat /\ d \in Nat /\ Len(T) \in Nat
    BY LenProperties
  <1>2. Len(S) = d + Len(T) /\ \A j \in 1 .. d + Len(T) : S[j] = IF j <= d THEN b[j] ELSE T[j - d]
    BY ConcatProperties
  <1> HIDE DEF S, d
  <1>3. \A i \in k2 .. n + 1 : at[i] \in Int /\ at2[i] = at[i] - d
    BY <1>1, SMTT(30) DEF Places
  <1>4. at2 \in [k2 .. n + 1 -> Int]
    BY <1>1, <1>3
  <1> HIDE DEF at2
  <1>5. ASSUME NEW i \in k2 .. n
        PROVE  at2[i + 1] = at2[i] + 4 + Len(ms[i].body)
    <2>1. i \in k .. n /\ i \in k2 .. n + 1 /\ i + 1 \in k2 .. n + 1 /\ i \in 1 .. n
      BY <1>1
    <2>2. at[i + 1] = at[i] + 4 + Len(ms[i].body) /\ Len(ms[i].body) \in Nat
      BY <2>1, BodyLength DEF Places
    <2>3. /\ at[i] \in Int /\ at2[i] = at[i] - d
          /\ at[i + 1] \in Int /\ at2[i + 1] = at[i + 1] - d
      BY <2>1, <1>3
    <2>4. PICK p \in Int, q \in Int, l \in Nat : p = at[i] /\ q = at[i + 1] /\ l = Len(ms[i].body)
      BY <2>2, <2>3
    <2>5. q = p + 4 + l
      BY <2>2, <2>4
    <2>6. q - d = (p - d) + 4 + l
      BY <2>5, <1>1
    <2> QED BY <2>3, <2>4, <2>6
  <1>6. ASSUME NEW i \in k2 .. n + 1
        PROVE  at2[i] <= at2[n + 1]
    <2>1. i \in k .. n + 1 /\ n + 1 \in k2 .. n + 1
      BY <1>1
    <2>2. at[i] <= at[n + 1]
      BY <2>1 DEF Places
    <2>3. /\ at[i] \in Int /\ at2[i] = at[i] - d
          /\ at[n + 1] \in Int /\ at2[n + 1] = at[n + 1] - d
      BY <2>1, <1>3
    <2>4. at[i] - d <= at[n + 1] - d
      BY <2>2, <2>3, <1>1
    <2> QED BY <2>3, <2>4
  <1>7. Places(ms, k2, at2)
    BY <1>4, <1>5, <1>6 DEF Places
  <1>8. Carries(T, ms, k2, at2)
    <2> SUFFICES ASSUME NEW i \in k2 .. n, NEW j \in 1 .. 4 + Len(ms[i].body),
                        at2[i] + j \in 1 .. Len(T)
                 PROVE  T[at2[i] + j] = FrameOf(ms[i])[j]
      BY DEF Carries
    <2>1. i \in k .. n /\ i \in k2 .. n + 1 /\ i \in 1 .. n
      BY <1>1
    <2>2. at2[i] = at[i] - d /\ at[i] \in Int /\ Len(ms[i].body) \in Nat
      BY <2>1, <1>3, BodyLength
    <2>3. at[i] + j \in 1 .. d + Len(T) /\ ~(at[i] + j <= d) /\ (at[i] + j) - d = at2[i] + j
      <3>1. (at[i] - d) + j \in 1 .. Len(T) /\ j \in Int
        BY <2>2
      <3>2. /\ at[i] + j \in 1 .. d + Len(T) /\ ~(at[i] + j <= d)
            /\ (at[i] + j) - d = (at[i] - d) + j
        <4>1. PICK p \in Int : p = at[i]
          BY <2>2
        <4>2. (p - d) + j \in 1 .. Len(T)
          BY <3>1, <4>1
        <4>3. p + j \in 1 .. d + Len(T) /\ ~(p + j <= d) /\ (p + j) - d = (p - d) + j
          BY <4>2, <3>1, <1>1, Beyond
        <4> QED BY <4>1, <4>3
      <3> QED BY <2>2, <3>2
    <2>4. S[at[i] + j] = T[at2[i] + j]
      BY <2>3, <1>2
    <2>5. S[at[i] + j] = FrameOf(ms[i])[j]
      BY <2>1, <2>3, <1>2 DEF Carries, S
    <2> QED BY <2>4, <2>5
  <1>9. at2[k2] = off
    <2>1. k2 \in k2 .. n + 1 /\ at[k2] = off + d
      BY <1>1 DEF d
    <2> QED BY <2>1, <1>1, <1>3
  <1>10. Len(T) <= at2[n + 1] /\ (whole => Len(T) = at2[n + 1])
    <2>1. n + 1 \in k2 .. n + 1
      BY <1>1
    <2>2. PICK x \in Int : x = at[n + 1] /\ at2[n + 1] = x - d
      BY <2>1, <1>3
    <2>3. d + Len(T) <= x /\ (whole => d + Len(T) = x)
      BY <2>2, <1>2 DEF S
    <2>4. Len(T) <= x - d /\ (whole => Len(T) = x - d)
      BY <2>3, <1>1
    <2> QED BY <2>2, <2>4
  <1> QED BY <1>7, <1>8, <1>9, <1>10 DEF Frames

(* What is read where a frame begins is the header of the next message.    *)
LEMMA HeaderTaken ==
  ASSUME NEW b \in Seq(Byte), NEW T \in Seq(Byte), NEW ms \in Seq(Message),
         NEW k \in 1 .. Len(ms) + 1, NEW whole \in BOOLEAN,
         Len(b) = 4, Frames(b \o T, ms, k, 0, whole)
  PROVE  /\ k <= Len(ms)
         /\ Host(b, 1) = ms[k].id /\ Host(b, 3) = ms[k].len
         /\ Frames(T, ms, k, -4, whole)
  <1> DEFINE n == Len(ms)
             S == b \o T
  <1>1. PICK at : /\ Places(ms, k, at) /\ Carries(S, ms, k, at)
                  /\ at[k] = 0 /\ Len(S) <= at[n + 1]
                  /\ whole => Len(S) = at[n + 1]
    BY DEF Frames
  <1>2. n \in Nat /\ Len(T) \in Nat
    BY LenProperties
  <1>3. Len(S) = 4 + Len(T) /\ \A j \in 1 .. 4 + Len(T) : S[j] = IF j <= 4 THEN b[j] ELSE T[j - 4]
    <2>1. /\ Len(S) = Len(b) + Len(T)
          /\ \A j \in 1 .. Len(b) + Len(T) : S[j] = IF j <= Len(b) THEN b[j] ELSE T[j - Len(b)]
      BY ConcatProperties
    <2> QED BY <2>1
  <1>4. k \in 1 .. n
    <2>1. CASE k = n + 1
      BY <2>1, <1>1, <1>2, <1>3
    <2> QED BY <2>1, <1>2
  <1>5. ms[k] \in Message /\ Len(ms[k].body) \in Nat
    BY <1>4, BodyLength
  <1>6. \A j \in 1 .. 4 : b[j] = FrameOf(ms[k])[j]
    <2> SUFFICES ASSUME NEW j \in 1 .. 4
                 PROVE  b[j] = FrameOf(ms[k])[j]
      OBVIOUS
    <2>1. k \in k .. n /\ j \in 1 .. 4 + Len(ms[k].body) /\ at[k] + j = j /\ j \in 1 .. 4 + Len(T)
      BY <1>1, <1>2, <1>4, <1>5
    <2>2. S[j] = FrameOf(ms[k])[j]
      BY <2>1, <1>1, <1>3 DEF Carries
    <2> QED BY <2>1, <2>2, <1>3
  <1>7. ms[k].id \in Short /\ ms[k].len \in Short
    BY <1>5 DEF Message
  <1>8. b[1] = Net(ms[k].id)[1] /\ b[2] = Net(ms[k].id)[2] /\ b[3] = Net(ms[k].len)[1] /\ b[4] = Net(ms[k].len)[2]
    <2>1. /\ b[1] = FrameOf(ms[k])[1] /\ b[2] = FrameOf(ms[k])[2]
          /\ b[3] = FrameOf(ms[k])[3] /\ b[4] = FrameOf(ms[k])[4]
      BY <1>6
    <2> QED BY <2>1, <1>5, FrameBytes
  <1>9. Host(b, 1) = ms[k].id
    <2>1. 2 = 1 + 1
      OBVIOUS
    <2> QED BY <2>1, <1>7, <1>8, HostOfNet, SMTT(30)
  <1>10. Host(b, 3) = ms[k].len
    <2>1. 4 = 3 + 1
      OBVIOUS
    <2> QED BY <2>1, <1>7, <1>8, HostOfNet, SMTT(30)
  <1>11. Frames(T, ms, k, -4, whole)
    <2>1. k \in k .. n + 1 /\ at[k] = -4 + Len(b) /\ -4 \in Int
      BY <1>1, <1>2
    <2> QED BY <2>1, <1>1, TakenOff
  <1> QED BY <1>4, <1>9, <1>10, <1>11

(* What is read after that, as long as its body, is its body.              *)
LEMMA BodyTaken ==
  ASSUME NEW b \in Seq(Byte), NEW T \in Seq(Byte), NEW ms \in Seq(Message),
         NEW k \in 1 .. Len(ms), NEW whole \in BOOLEAN,
         Len(b) = Len(ms[k].body), Frames(b \o T, ms, k, -4, whole)
  PROVE  /\ b = ms[k].body
         /\ Frames(T, ms, k + 1, 0, whole)
  <1> DEFINE n == Len(ms)
             S == b \o T
             d == Len(b)
  <1>1. PICK at : /\ Places(ms, k, at) /\ Carries(S, ms, k, at)
                  /\ at[k] = -4 /\ Len(S) <= at[n + 1]
                  /\ whole => Len(S) = at[n + 1]
    BY DEF Frames
  <1>2. n \in Nat /\ Len(T) \in Nat /\ d \in Nat
    BY LenProperties
  <1>3. ms[k] \in Message /\ ms[k].body \in Seq(Byte)
    BY BodyLength
  <1>4. Len(S) = d + Len(T) /\ \A j \in 1 .. d + Len(T) : S[j] = IF j <= d THEN b[j] ELSE T[j - d]
    BY ConcatProperties
  <1> HIDE DEF S, d
  <1>5. ASSUME NEW j \in 1 .. d
        PROVE  b[j] = ms[k].body[j]
    <2>1. k \in k .. n /\ 4 + j \in 1 .. 4 + d /\ at[k] + (4 + j) = j /\ j \in 1 .. d + Len(T)
      BY <1>1, <1>2
    <2>2. S[j] = FrameOf(ms[k])[4 + j]
      BY <2>1, <1>1, <1>4 DEF Carries, d
    <2>3. S[j] = b[j]
      BY <2>1, <1>4, <1>2
    <2>4. FrameOf(ms[k])[4 + j] = ms[k].body[j]
      BY <1>3, FrameBytes DEF d
    <2> QED BY <2>2, <2>3, <2>4
  <1>6. b = ms[k].body
    BY <1>3, <1>5, SeqEqual DEF d
  <1>7. Frames(T, ms, k + 1, 0, whole)
    <2>1. k + 1 \in k .. n + 1 /\ k \in 1 .. n + 1
      BY <1>2
    <2>2. at[k + 1] = at[k] + 4 + d
      BY <1>1, <1>2 DEF Places, d
    <2>3. at[k + 1] = 0 + Len(b)
      BY <2>2, <1>1, <1>2 DEF d
    <2> QED BY <2>1, <2>3, <1>1, TakenOff DEF S
  <1> QED BY <1>6, <1>7

-----------------------------------------------------------------------------
(* Type correctness.                                                       *)

LEMMA Numbers ==
  /\ MAX_LENGTH \in Int /\ 1 <= MAX_LENGTH /\ MAX_LENGTH <= 32767
  /\ \A h \in ClientHeaders : h.id \in Short /\ h.len \in Short
  /\ MaxToServer \in 0 .. 255 /\ MaxToClient \in 0 .. 255
  BY FramingAssumption, Powers DEF Short

(* The message that Send makes.                                            *)
LEMMA SentMessage ==
  ASSUME NEW n \in Byte, NEW id \in Short, NEW len \in Short,
         NEW m, m = [id |-> id, len |-> len, body |-> [i \in 1 .. len |-> n]]
  PROVE  m \in Message /\ Len(m.body) = IF len > 0 THEN len ELSE 0
  <1> DEFINE d == IF len > 0 THEN len ELSE 0
             body == [i \in 1 .. len |-> n]
  <1>1. len \in Int
    BY ShortRange
  <1>2. d \in Nat /\ 1 .. len = 1 .. d
    BY <1>1
  <1> HIDE DEF d
  <1>3. body \in [1 .. d -> Byte]
    BY <1>2
  <1>4. DOMAIN body = 1 .. d
    BY <1>2
  <1> HIDE DEF body
  <1>5. body \in Seq(Byte)
    BY <1>2, <1>3
  <1>6. Len(body) = d
    BY <1>2, <1>4, <1>5, LenProperties
  <1>7. m.body = body /\ m \in Message
    BY <1>5 DEF Message, body
  <1> QED BY <1>6, <1>7 DEF d

(* Every header of four bytes is read as two shorts.                       *)
LEMMA HostOfBytes ==
  ASSUME NEW S, NEW i \in Int, S[i] \in Byte, S[i + 1] \in Byte
  PROVE  Host(S, i) \in Short
  <1>1. PICK a \in Int, b \in Int : /\ a = S[i] /\ b = S[i + 1]
                                   /\ 0 <= a /\ a <= 255 /\ 0 <= b /\ b <= 255
    <2>1. S[i] \in Int /\ 0 <= S[i] /\ S[i] <= 255
      BY DEF Byte
    <2>2. S[i + 1] \in Int /\ 0 <= S[i + 1] /\ S[i + 1] <= 255
      BY DEF Byte
    <2> QED BY <2>1, <2>2
  <1>2. PICK n \in Int : n = a * 256 + b
    OBVIOUS
  <1>3. 0 <= n /\ n <= 65535
    BY <1>1, <1>2
  <1>4. Host(S, i) = IF n < 32768 THEN n ELSE n - 65536
    BY <1>1, <1>2, Powers DEF Host
  <1>5. Host(S, i) \in Int /\ -32768 <= Host(S, i) /\ Host(S, i) <= 32767
    BY <1>3, <1>4
  <1> QED BY <1>5, Powers DEF Short

LEMMA TypeInit == Init => TypeOK
  BY Powers DEF Init, TypeOK, NoHeader, Short, End

(* Sending. m is the message that is sent.                                 *)
LEMMA SendFacts ==
  ASSUME TypeOK, NEW e \in End, NEW id \in Short, NEW len \in Short,
         Len(sent[e]) < 255, Send(e, id, len)
  PROVE  \E m \in Message :
           /\ Len(m.body) = IF len > 0 THEN len ELSE 0
           /\ m.len = len
           /\ sent' = [sent EXCEPT ![e] = Append(@, m)]
           /\ pipe' = IF link /\ open[e] /\ Reading(e)
                      THEN [pipe EXCEPT ![e] = @ \o FrameOf(m)] ELSE pipe
  <1> DEFINE n == Len(sent[e]) + 1
             m == [id |-> id, len |-> len, body |-> [i \in 1 .. len |-> n]]
  <1>1. n \in Byte
    <2>1. sent[e] \in Seq(Message)
      BY DEF TypeOK
    <2>2. Len(sent[e]) \in Nat
      BY <2>1, LenProperties
    <2>3. PICK l \in Nat : l = Len(sent[e])
      BY <2>2
    <2>4. l < 255
      BY <2>3
    <2>5. l + 1 \in Byte
      BY <2>4 DEF Byte
    <2> QED BY <2>3, <2>5
  <1>2. m \in Message /\ Len(m.body) = IF len > 0 THEN len ELSE 0
    <2> HIDE DEF n
    <2> QED BY <1>1, SentMessage
  <1>3. /\ sent' = [sent EXCEPT ![e] = Append(@, m)]
        /\ pipe' = IF link /\ open[e] /\ Reading(e)
                   THEN [pipe EXCEPT ![e] = @ \o FrameOf(m)] ELSE pipe
    BY DEF Send
  <1>4. m.len = len
    OBVIOUS
  <1> HIDE DEF m
  <1> QED BY <1>2, <1>3, <1>4

LEMMA SendTypes ==
  ASSUME TypeOK, NEW e \in End, NEW id \in Short, NEW len \in Short,
         Len(sent[e]) < 255, Send(e, id, len)
  PROVE  TypeOK'
  <1>1. PICK m \in Message :
           /\ sent' = [sent EXCEPT ![e] = Append(@, m)]
           /\ pipe' = IF link /\ open[e] /\ Reading(e)
                      THEN [pipe EXCEPT ![e] = @ \o FrameOf(m)] ELSE pipe
    BY SendFacts
  <1>2. sent' \in [End -> Seq(Message)]
    <2>1. sent[e] \in Seq(Message)
      BY DEF TypeOK
    <2>2. Append(sent[e], m) \in Seq(Message)
      BY <2>1, AppendProperties
    <2> QED BY <1>1, <2>2 DEF TypeOK
  <1>3. pipe' \in [End -> Seq(Byte)]
    <2>1. pipe[e] \in Seq(Byte) /\ FrameOf(m) \in Seq(Byte)
      BY FrameBytes DEF TypeOK
    <2>2. pipe[e] \o FrameOf(m) \in Seq(Byte)
      BY <2>1, ConcatProperties
    <2> QED BY <1>1, <2>2 DEF TypeOK
  <1>4. UNCHANGED <<reader, buf, header, posted, open, link>>
    BY DEF Send
  <1> QED BY <1>2, <1>3, <1>4 DEF TypeOK

(* A client and a server send as many messages as there are bytes for.     *)
LEMMA Sends ==
  ASSUME TypeOK, ServerSends \/ ClientSends
  PROVE  \E e \in End, id, len \in Short : Len(sent[e]) < 255 /\ Send(e, id, len)
  <1>1. CASE ServerSends
    <2>1. PICK len \in 1 .. MAX_LENGTH : Send("client", 2004, len)
      BY <1>1 DEF ServerSends
    <2>2. len \in Short /\ 2004 \in Short
      BY Numbers, Powers DEF Short
    <2>3. Len(sent["client"]) < 255
      <3>1. sent["client"] \in Seq(Message)
        BY DEF TypeOK, End
      <3>2. Len(sent["client"]) \in Nat /\ Len(sent["client"]) < MaxToClient
        BY <1>1, <3>1, LenProperties DEF ServerSends
      <3> QED BY <3>2, Numbers
    <2> QED BY <2>1, <2>2, <2>3 DEF End
  <1>2. CASE ClientSends
    <2>1. PICK h \in ClientHeaders : Send("server", h.id, h.len)
      BY <1>2 DEF ClientSends
    <2>2. h.len \in Short /\ h.id \in Short
      BY Numbers
    <2>3. Len(sent["server"]) < 255
      <3>1. sent["server"] \in Seq(Message)
        BY DEF TypeOK, End
      <3>2. Len(sent["server"]) \in Nat /\ Len(sent["server"]) < MaxToServer
        BY <1>2, <3>1, LenProperties DEF ClientSends
      <3> QED BY <3>2, Numbers
    <2> QED BY <2>1, <2>2, <2>3 DEF End
  <1> QED BY <1>1, <1>2

(* The bytes a reader takes from the pipe.                                 *)
LEMMA ReceivedBytes ==
  ASSUME NEW b \in Seq(Byte), NEW p \in Seq(Byte), NEW n \in 1 .. Len(p)
  PROVE  /\ b \o SubSeq(p, 1, n) \in Seq(Byte)
         /\ SubSeq(p, n + 1, Len(p)) \in Seq(Byte)
         /\ (b \o SubSeq(p, 1, n)) \o SubSeq(p, n + 1, Len(p)) = b \o p
  <1> DEFINE x == SubSeq(p, 1, n)
             y == SubSeq(p, n + 1, Len(p))
  <1>1. Len(b) \in Nat /\ Len(p) \in Nat
    BY LenProperties
  <1>2. x \in Seq(Byte) /\ Len(x) = n /\ \A i \in 1 .. n : x[i] = p[i]
    <2>1. 1 \in Int /\ n \in Int /\ \A i \in 1 .. n : p[i] \in Byte /\ i \in 1 .. Len(p)
      BY <1>1, ElementOfSeq
    <2> QED BY <2>1, <1>1, SubSeqProperties
  <1>3. y \in Seq(Byte) /\ Len(y) = Len(p) - n /\ \A i \in 1 .. Len(p) - n : y[i] = p[n + i]
    BY <1>1, SubSeqProperties
  <1> HIDE DEF x, y
  <1>4. /\ b \o x \in Seq(Byte) /\ Len(b \o x) = Len(b) + n
        /\ \A i \in 1 .. Len(b) + n : (b \o x)[i] = IF i <= Len(b) THEN b[i] ELSE x[i - Len(b)]
    BY <1>2, ConcatProperties
  <1>5. /\ (b \o x) \o y \in Seq(Byte) /\ Len((b \o x) \o y) = Len(b) + Len(p)
        /\ \A i \in 1 .. Len(b) + Len(p) :
             ((b \o x) \o y)[i] = IF i <= Len(b) + n THEN (b \o x)[i] ELSE y[i - (Len(b) + n)]
    <2>1. (Len(b) + n) + (Len(p) - n) = Len(b) + Len(p)
      BY <1>1
    <2>2. PICK z \in Seq(Byte) : z = b \o x
      BY <1>4
    <2>3. /\ z \o y \in Seq(Byte) /\ Len(z \o y) = Len(z) + Len(y)
          /\ \A i \in 1 .. Len(z) + Len(y) :
               (z \o y)[i] = IF i <= Len(z) THEN z[i] ELSE y[i - Len(z)]
      BY <1>3, ConcatProperties
    <2>4. Len(z) = Len(b) + n /\ Len(z) + Len(y) = Len(b) + Len(p)
      BY <2>1, <2>2, <1>3, <1>4
    <2> QED BY <2>2, <2>3, <2>4
  <1>6. /\ b \o p \in Seq(Byte) /\ Len(b \o p) = Len(b) + Len(p)
        /\ \A i \in 1 .. Len(b) + Len(p) : (b \o p)[i] = IF i <= Len(b) THEN b[i] ELSE p[i - Len(b)]
    BY ConcatProperties
  <1>7. ASSUME NEW i \in 1 .. Len(b) + Len(p)
        PROVE  ((b \o x) \o y)[i] = (b \o p)[i]
    <2>1. PICK l \in Nat, k \in Nat : l = Len(b) /\ k = Len(p)
      BY <1>1
    <2>2. CASE i <= l
      <3>1. i \in 1 .. Len(b) + n /\ i <= Len(b) + n /\ i <= Len(b)
        BY <2>1, <2>2, <1>1
      <3> QED BY <3>1, <1>4, <1>5, <1>6
    <2>3. CASE l < i /\ i <= l + n
      <3>1. i \in 1 .. Len(b) + n /\ i <= Len(b) + n /\ ~(i <= Len(b)) /\ i - Len(b) \in 1 .. n
        BY <2>1, <2>3, <1>1
      <3> QED BY <3>1, <1>2, <1>4, <1>5, <1>6
    <2>4. CASE l + n < i
      <3>1. ~(i <= l + n) /\ ~(i <= l) /\ i - (l + n) \in 1 .. k - n /\ n + (i - (l + n)) = i - l
        BY <2>1, <2>4, <1>1
      <3>2. /\ ~(i <= Len(b) + n) /\ ~(i <= Len(b)) /\ i - (Len(b) + n) \in 1 .. Len(p) - n
            /\ n + (i - (Len(b) + n)) = i - Len(b)
        BY <2>1, <3>1
      <3> QED BY <3>2, <1>3, <1>5, <1>6
    <2>5. i <= l \/ (l < i /\ i <= l + n) \/ l + n < i
      OBVIOUS
    <2> QED BY <2>2, <2>3, <2>4, <2>5
  <1>8. (b \o x) \o y = b \o p
    BY <1>5, <1>6, <1>7, SeqEqual
  <1> QED BY <1>3, <1>4, <1>8 DEF x, y

(* The reader's steps keep the types.                                      *)
LEMMA ReceiveTypes ==
  ASSUME TypeOK, NEW e \in End, Receive(e)
  PROVE  TypeOK'
  <1>1. PICK n \in 1 .. Len(pipe[e]) :
          /\ buf' = [buf EXCEPT ![e] = @ \o SubSeq(pipe[e], 1, n)]
          /\ pipe' = [pipe EXCEPT ![e] = SubSeq(@, n + 1, Len(@))]
    BY DEF Receive
  <1>2. /\ buf[e] \o SubSeq(pipe[e], 1, n) \in Seq(Byte)
        /\ SubSeq(pipe[e], n + 1, Len(pipe[e])) \in Seq(Byte)
    <2>1. buf[e] \in Seq(Byte) /\ pipe[e] \in Seq(Byte)
      BY DEF TypeOK
    <2> QED BY <2>1, ReceivedBytes
  <1>3. UNCHANGED <<sent, reader, header, posted, open, link>>
    BY DEF Receive
  <1> QED BY <1>1, <1>2, <1>3 DEF TypeOK

LEMMA StopTypes ==
  ASSUME TypeOK, NEW e \in End, NEW how \in {"refused", "lost"}, StopReading(e, how),
         UNCHANGED <<sent, header, posted, link>>
  PROVE  TypeOK'
  <1>1. <<>> \in Seq(Byte)
    OBVIOUS
  <1>2. pipe' \in [End -> Seq(Byte)] /\ buf' \in [End -> Seq(Byte)]
    BY <1>1 DEF TypeOK, StopReading
  <1>3. reader' \in [End -> {"head", "body", "refused", "lost"}]
    BY DEF TypeOK, StopReading
  <1>4. open' \in [End -> BOOLEAN]
    BY DEF TypeOK, StopReading
  <1> QED BY <1>2, <1>3, <1>4 DEF TypeOK

(* The header that has been read, and what becomes of the reader.          *)
LEMMA HeadDoneTypes ==
  ASSUME TypeOK, NEW e \in End, HeadDone(e)
  PROVE  TypeOK'
  <1> DEFINE h == [id |-> Host(buf[e], 1), len |-> Host(buf[e], 3)]
  <1>1. h \in [id : Short, len : Short]
    <2>1. buf[e] \in Seq(Byte) /\ Len(buf[e]) = 4
      BY DEF TypeOK, HeadDone, Wanted, HEAD_TOTAL_LEN
    <2>2. \A i \in 1 .. 4 : buf[e][i] \in Byte
      BY <2>1, ElementOfSeq
    <2>3. buf[e][1] \in Byte /\ buf[e][1 + 1] \in Byte /\ buf[e][3] \in Byte /\ buf[e][3 + 1] \in Byte
      BY <2>2
    <2>4. Host(buf[e], 1) \in Short /\ Host(buf[e], 3) \in Short
      BY <2>3, HostOfBytes
    <2> QED BY <2>4
  <1>2. \/ reader' = [reader EXCEPT ![e] = "body"] /\ header' = [header EXCEPT ![e] = h]
           /\ buf' = [buf EXCEPT ![e] = <<>>] /\ UNCHANGED <<pipe, posted, open>>
        \/ Refuse(e)
    BY DEF HeadDone
  <1>3. UNCHANGED <<sent, link>>
    BY DEF HeadDone
  <1> HIDE DEF h
  <1>4. CASE Refuse(e)
    BY <1>3, <1>4, StopTypes DEF Refuse
  <1>5. CASE /\ reader' = [reader EXCEPT ![e] = "body"] /\ header' = [header EXCEPT ![e] = h]
             /\ buf' = [buf EXCEPT ![e] = <<>>] /\ UNCHANGED <<pipe, posted, open>>
    <2>1. header' \in [End -> [id : Short, len : Short]]
      BY <1>1, <1>5 DEF TypeOK
    <2>2. buf' \in [End -> Seq(Byte)]
      <3>1. <<>> \in Seq(Byte)
        OBVIOUS
      <3> QED BY <3>1, <1>5 DEF TypeOK
    <2>3. reader' \in [End -> {"head", "body", "refused", "lost"}]
      BY <1>5 DEF TypeOK
    <2> QED BY <1>3, <1>5, <2>1, <2>2, <2>3 DEF TypeOK
  <1> QED BY <1>2, <1>4, <1>5

LEMMA PostTypes ==
  ASSUME TypeOK, NEW e \in End, Post(e), UNCHANGED <<sent, link>>
  PROVE  TypeOK'
  <1> DEFINE m == [id |-> header[e].id, len |-> header[e].len, body |-> buf[e]]
  <1>1. m \in Message
    <2>1. header[e].id \in Short /\ header[e].len \in Short /\ buf[e] \in Seq(Byte)
      BY DEF TypeOK
    <2> QED BY <2>1 DEF Message
  <1>2. posted' = [posted EXCEPT ![e] = Append(@, m)]
    BY DEF Post
  <1> HIDE DEF m
  <1>3. posted' \in [End -> Seq(Message)]
    <2>1. posted[e] \in Seq(Message)
      BY DEF TypeOK
    <2>2. Append(posted[e], m) \in Seq(Message)
      BY <1>1, <2>1, AppendProperties
    <2> QED BY <1>2, <2>2 DEF TypeOK
  <1>4. buf' \in [End -> Seq(Byte)]
    <2>1. <<>> \in Seq(Byte)
      OBVIOUS
    <2> QED BY <2>1 DEF TypeOK, Post
  <1>5. reader' \in [End -> {"head", "body", "refused", "lost"}]
    BY DEF TypeOK, Post
  <1>6. UNCHANGED <<pipe, header, open>>
    BY DEF Post
  <1> QED BY <1>3, <1>4, <1>5, <1>6 DEF TypeOK

LEMMA TypeNext == TypeOK /\ [Next]_vars => TypeOK'
  <1> SUFFICES ASSUME TypeOK, [Next]_vars
               PROVE  TypeOK'
    OBVIOUS
  <1>1. CASE ServerSends \/ ClientSends
    BY <1>1, Sends, SendTypes
  <1>2. CASE Break
    BY <1>2 DEF TypeOK, Break
  <1>3. ASSUME NEW e \in End, Receive(e) PROVE TypeOK'
    BY <1>3, ReceiveTypes
  <1>4. ASSUME NEW e \in End, HeadDone(e) PROVE TypeOK'
    BY <1>4, HeadDoneTypes
  <1>5. ASSUME NEW e \in End, BodyDone(e) PROVE TypeOK'
    <2>1. CASE Refuse(e)
      BY <1>5, <2>1, StopTypes DEF Refuse, BodyDone
    <2>2. CASE Post(e)
      BY <1>5, <2>2, PostTypes DEF BodyDone
    <2> QED BY <1>5, <2>1, <2>2 DEF BodyDone
  <1>6. ASSUME NEW e \in End, BodyFails(e) PROVE TypeOK'
    BY <1>6, StopTypes DEF BodyFails, Refuse
  <1>7. ASSUME NEW e \in End, StreamEnds(e) PROVE TypeOK'
    BY <1>7, StopTypes DEF StreamEnds
  <1>8. ASSUME NEW e \in End, CloseSocket(e) PROVE TypeOK'
    <2>1. <<>> \in Seq(Byte)
      OBVIOUS
    <2> QED BY <1>8, <2>1 DEF TypeOK, CloseSocket
  <1>9. CASE UNCHANGED vars
    BY <1>9 DEF TypeOK, vars
  <1> QED BY <1>1, <1>2, <1>3, <1>4, <1>5, <1>6, <1>7, <1>8, <1>9 DEF Next, ReadStep

(* The variables keep their types: whatever is cut, lost or refused, the   *)
(* headers read are pairs of shorts, and what is posted is a message of    *)
(* bytes (MsgNode, SendNode and CSession::Start).                          *)
THEOREM TypeCorrect == Spec => []TypeOK
  <1>1. Init => TypeOK
    BY TypeInit
  <1>2. TypeOK /\ [Next]_vars => TypeOK'
    BY TypeNext
  <1> QED BY <1>1, <1>2, PTL DEF Spec

-----------------------------------------------------------------------------
(* The inductive invariant.                                                *)

Ahead(e) == buf[e] \o pipe[e]
Unposted(e) == Len(posted[e]) + 1
Offset(e) == IF reader[e] = "head" THEN 0 ELSE -4
Whole(e) == link /\ open[e]

(* A reader stands where a frame, or the body of one, begins.              *)
Aligned(e) ==
  Reading(e) => Frames(Ahead(e), sent[e], Unposted(e), Offset(e), Whole(e))

(* The header it has read is the one of the next message.                  *)
HeaderIsNext(e) ==
  reader[e] = "body" =>
    /\ Unposted(e) <= Len(sent[e])
    /\ header[e].id = sent[e][Unposted(e)].id
    /\ header[e].len = sent[e][Unposted(e)].len
    /\ Accepts(e, header[e])

BodyAsAnnounced(e) ==
  \A i \in 1 .. Len(sent[e]) :
    Len(sent[e][i].body) = IF sent[e][i].len > 0 THEN sent[e][i].len ELSE 0

PostedInOrder(e) ==
  /\ Len(posted[e]) <= Len(sent[e])
  /\ \A i \in 1 .. Len(posted[e]) : posted[e][i] = sent[e][i] /\ Legal(e, posted[e][i])

RefusedAsIllegal(e) ==
  reader[e] = "refused" =>
    Unposted(e) <= Len(sent[e]) /\ ~Legal(e, sent[e][Unposted(e)])

ReaderInv(e) ==
  /\ Aligned(e) /\ HeaderIsNext(e) /\ BodyAsAnnounced(e)
  /\ PostedInOrder(e) /\ RefusedAsIllegal(e)

IInv == TypeOK /\ \A e \in End : ReaderInv(e)

(* What concerns an end stays as it is when nothing of it changes.         *)
LEMMA Untouched ==
  ASSUME NEW e \in End, ReaderInv(e),
         sent'[e] = sent[e], pipe'[e] = pipe[e], reader'[e] = reader[e], buf'[e] = buf[e],
         header'[e] = header[e], posted'[e] = posted[e], open'[e] = open[e], link' = link
  PROVE  ReaderInv(e)'
  <1>1. Aligned(e)'
    BY DEF ReaderInv, Aligned, Reading, Ahead, Unposted, Offset, Whole
  <1>2. HeaderIsNext(e)'
    BY DEF ReaderInv, HeaderIsNext, Unposted
  <1>3. BodyAsAnnounced(e)' /\ PostedInOrder(e)' /\ RefusedAsIllegal(e)'
    BY DEF ReaderInv, BodyAsAnnounced, PostedInOrder, RefusedAsIllegal, Unposted
  <1> QED BY <1>1, <1>2, <1>3 DEF ReaderInv

(* The types of what concerns an end.                                      *)
LEMMA EndTypes ==
  ASSUME TypeOK, NEW e \in End
  PROVE  /\ sent[e] \in Seq(Message) /\ Len(sent[e]) \in Nat
         /\ posted[e] \in Seq(Message) /\ Len(posted[e]) \in Nat
         /\ pipe[e] \in Seq(Byte) /\ buf[e] \in Seq(Byte) /\ Ahead(e) \in Seq(Byte)
         /\ reader[e] \in {"head", "body", "refused", "lost"}
         /\ open[e] \in BOOLEAN /\ link \in BOOLEAN /\ Whole(e) \in BOOLEAN
         /\ Offset(e) \in Int
         /\ header[e].len \in Int
  <1>1. sent[e] \in Seq(Message) /\ posted[e] \in Seq(Message)
        /\ pipe[e] \in Seq(Byte) /\ buf[e] \in Seq(Byte)
    BY DEF TypeOK
  <1>2. Len(sent[e]) \in Nat /\ Len(posted[e]) \in Nat /\ Ahead(e) \in Seq(Byte)
    BY <1>1, LenProperties, ConcatProperties DEF Ahead
  <1>3. reader[e] \in {"head", "body", "refused", "lost"}
        /\ open[e] \in BOOLEAN /\ link \in BOOLEAN /\ Whole(e) \in BOOLEAN
    BY DEF TypeOK, Whole
  <1>4. Offset(e) \in Int
    BY DEF Offset
  <1>5. header[e].len \in Int
    <2>1. header[e].len \in Short
      BY DEF TypeOK
    <2> QED BY <2>1, ShortRange
  <1> QED BY <1>1, <1>2, <1>3, <1>4, <1>5

LEMMA NextInRange ==
  ASSUME TypeOK, NEW e \in End, PostedInOrder(e)
  PROVE  Unposted(e) \in 1 .. Len(sent[e]) + 1
  BY EndTypes DEF PostedInOrder, Unposted

LEMMA InvInit == Init => IInv
  <1> SUFFICES ASSUME Init, NEW e \in End
               PROVE  ReaderInv(e)
    BY TypeInit DEF IInv
  <1>1. /\ sent[e] = <<>> /\ posted[e] = <<>> /\ pipe[e] = <<>> /\ buf[e] = <<>>
        /\ reader[e] = "head"
    BY DEF Init
  <1>2. Len(<<>>) = 0 /\ <<>> \o <<>> = <<>>
    OBVIOUS
  <1>3. Frames(<<>>, <<>>, 1, 0, Whole(e))
    <2> DEFINE at == [i \in 1 .. 1 |-> 0]
    <2>1. at \in [1 .. 0 + 1 -> Int] /\ at[1] = 0 /\ at[0 + 1] = 0
      OBVIOUS
    <2>2. Places(<<>>, 1, at)
      <3> HIDE DEF at
      <3>1. \A i \in 1 .. 0 + 1 : i = 1
        OBVIOUS
      <3>2. 1 .. 0 = {}
        OBVIOUS
      <3> QED BY <2>1, <1>2, <3>1, <3>2 DEF Places
    <2>3. Carries(<<>>, <<>>, 1, at)
      <3>1. 1 .. 0 = {}
        OBVIOUS
      <3> QED BY <1>2, <3>1 DEF Carries
    <2> HIDE DEF at
    <2> QED BY <2>1, <2>2, <2>3, <1>2 DEF Frames
  <1>4. Aligned(e)
    <2>1. Unposted(e) = 1 /\ Offset(e) = 0
      BY <1>1, <1>2 DEF Unposted, Offset
    <2> QED BY <1>1, <1>2, <1>3, <2>1 DEF Aligned, Ahead
  <1>5. HeaderIsNext(e) /\ RefusedAsIllegal(e)
    BY <1>1 DEF HeaderIsNext, RefusedAsIllegal
  <1>6. BodyAsAnnounced(e) /\ PostedInOrder(e)
    BY <1>1, <1>2 DEF BodyAsAnnounced, PostedInOrder
  <1> QED BY <1>4, <1>5, <1>6 DEF ReaderInv

(* A message is sent: its frame follows, or the bytes that are there are   *)
(* the first ones from now on.                                             *)
LEMMA SendStep ==
  ASSUME TypeOK, NEW e \in End, ReaderInv(e), NEW id \in Short, NEW len \in Short,
         Len(sent[e]) < 255, Send(e, id, len)
  PROVE  ReaderInv(e)'
  <1>1. PICK m \in Message :
           /\ Len(m.body) = IF len > 0 THEN len ELSE 0
           /\ m.len = len
           /\ sent' = [sent EXCEPT ![e] = Append(@, m)]
           /\ pipe' = IF link /\ open[e] /\ Reading(e)
                      THEN [pipe EXCEPT ![e] = @ \o FrameOf(m)] ELSE pipe
    BY SendFacts
  <1>2. UNCHANGED <<reader, buf, header, posted, open, link>>
    BY DEF Send
  <1>3. sent'[e] = Append(sent[e], m)
    BY <1>1 DEF TypeOK
  <1>4. /\ sent'[e] \in Seq(Message) /\ Len(sent'[e]) = Len(sent[e]) + 1
        /\ sent'[e][Len(sent[e]) + 1] = m
        /\ \A i \in 1 .. Len(sent[e]) : sent'[e][i] = sent[e][i]
    BY <1>3, EndTypes, AppendProperties
  <1>5. Unposted(e) \in 1 .. Len(sent[e]) + 1
    BY NextInRange DEF ReaderInv
  <1>6. Unposted(e)' = Unposted(e) /\ Offset(e)' = Offset(e) /\ Whole(e)' = Whole(e)
    BY <1>2 DEF Unposted, Offset, Whole
  <1>7. Aligned(e)'
    <2> SUFFICES ASSUME Reading(e)
                 PROVE  Frames(Ahead(e)', Append(sent[e], m), Unposted(e), Offset(e), Whole(e))
      BY <1>2, <1>3, <1>6 DEF Aligned, Reading
    <2>1. Frames(Ahead(e), sent[e], Unposted(e), Offset(e), Whole(e))
      BY DEF ReaderInv, Aligned
    <2>2. CASE Whole(e)
      <3>1. pipe'[e] = pipe[e] \o FrameOf(m)
        BY <1>1, <2>2 DEF Whole, TypeOK
      <3>2. Ahead(e)' = Ahead(e) \o FrameOf(m)
        <4>1. FrameOf(m) \in Seq(Byte)
          BY FrameBytes
        <4>2. buf[e] \o (pipe[e] \o FrameOf(m)) = (buf[e] \o pipe[e]) \o FrameOf(m)
          <5>1. PICK b \in Seq(Byte), p \in Seq(Byte), f \in Seq(Byte) :
                  b = buf[e] /\ p = pipe[e] /\ f = FrameOf(m)
            BY <4>1, EndTypes
          <5>2. (b \o p) \o f = b \o (p \o f)
            BY ConcatAssociative
          <5> QED BY <5>1, <5>2
        <4> QED BY <3>1, <4>2, <1>2 DEF Ahead
      <3>3. Whole(e) = TRUE
        BY <2>2, EndTypes
      <3>4. Frames(Ahead(e) \o FrameOf(m), Append(sent[e], m), Unposted(e), Offset(e), TRUE)
        BY <2>1, <3>3, <1>5, EndTypes, Written
      <3> QED BY <3>2, <3>3, <3>4
    <2>3. CASE ~Whole(e)
      <3>1. pipe' = pipe
        BY <1>1, <2>3 DEF Whole
      <3>2. Ahead(e)' = Ahead(e) /\ Whole(e) = FALSE
        BY <1>2, <3>1, <2>3, EndTypes DEF Ahead
      <3>3. Frames(Ahead(e), Append(sent[e], m), Unposted(e), Offset(e), FALSE)
        BY <2>1, <1>5, EndTypes, Unwritten
      <3> QED BY <3>2, <3>3
    <2> QED BY <2>2, <2>3
  <1>8. HeaderIsNext(e)'
    BY <1>2, <1>4, <1>5, <1>6, EndTypes, SMTT(30) DEF ReaderInv, HeaderIsNext, Accepts
  <1>9. BodyAsAnnounced(e)'
    <2> SUFFICES ASSUME NEW i \in 1 .. Len(sent'[e])
                 PROVE  Len(sent'[e][i].body) = IF sent'[e][i].len > 0 THEN sent'[e][i].len ELSE 0
      BY DEF BodyAsAnnounced
    <2>1. CASE i = Len(sent[e]) + 1
      BY <2>1, <1>1, <1>4
    <2>2. CASE i \in 1 .. Len(sent[e])
      BY <2>2, <1>4 DEF ReaderInv, BodyAsAnnounced
    <2> QED BY <2>1, <2>2, <1>4, EndTypes
  <1>10. PostedInOrder(e)'
    <2>1. Len(posted[e]) <= Len(sent[e]) + 1 /\ \A i \in 1 .. Len(posted[e]) : i \in 1 .. Len(sent[e])
      BY EndTypes DEF ReaderInv, PostedInOrder
    <2> QED BY <2>1, <1>2, <1>4 DEF ReaderInv, PostedInOrder
  <1>11. RefusedAsIllegal(e)'
    BY <1>2, <1>4, <1>5, <1>6, EndTypes DEF ReaderInv, RefusedAsIllegal
  <1> QED BY <1>7, <1>8, <1>9, <1>10, <1>11 DEF ReaderInv

(* A piece of the stream arrives: it is the same stream.                   *)
LEMMA ReceiveStep ==
  ASSUME TypeOK, NEW e \in End, ReaderInv(e), Receive(e)
  PROVE  ReaderInv(e)'
  <1>1. PICK n \in 1 .. Len(pipe[e]) :
          /\ buf' = [buf EXCEPT ![e] = @ \o SubSeq(pipe[e], 1, n)]
          /\ pipe' = [pipe EXCEPT ![e] = SubSeq(@, n + 1, Len(@))]
    BY DEF Receive
  <1>2. UNCHANGED <<sent, reader, header, posted, open, link>>
    BY DEF Receive
  <1>3. /\ buf'[e] = buf[e] \o SubSeq(pipe[e], 1, n)
        /\ pipe'[e] = SubSeq(pipe[e], n + 1, Len(pipe[e]))
    BY <1>1 DEF TypeOK
  <1>4. Ahead(e)' = Ahead(e)
    <2>1. buf[e] \in Seq(Byte) /\ pipe[e] \in Seq(Byte)
      BY EndTypes
    <2>2. (buf[e] \o SubSeq(pipe[e], 1, n)) \o SubSeq(pipe[e], n + 1, Len(pipe[e])) = buf[e] \o pipe[e]
      BY <2>1, ReceivedBytes
    <2> QED BY <2>2, <1>3 DEF Ahead
  <1>5. Aligned(e)'
    BY <1>2, <1>4 DEF ReaderInv, Aligned, Reading, Unposted, Offset, Whole
  <1>6. HeaderIsNext(e)'
    BY <1>2 DEF ReaderInv, HeaderIsNext, Unposted
  <1>7. BodyAsAnnounced(e)' /\ PostedInOrder(e)' /\ RefusedAsIllegal(e)'
    BY <1>2 DEF ReaderInv, BodyAsAnnounced, PostedInOrder, RefusedAsIllegal, Unposted
  <1> QED BY <1>5, <1>6, <1>7 DEF ReaderInv

(* A reader that ends has nothing to be aligned with.                      *)
LEMMA StopStep ==
  ASSUME TypeOK, NEW e \in End, ReaderInv(e), NEW how \in {"refused", "lost"},
         StopReading(e, how), UNCHANGED <<sent, header, posted, link>>,
         how = "refused" => Unposted(e) <= Len(sent[e]) /\ ~Legal(e, sent[e][Unposted(e)])
  PROVE  ReaderInv(e)'
  <1>1. reader'[e] = how
    BY DEF StopReading, TypeOK
  <1>2. Aligned(e)' /\ HeaderIsNext(e)'
    BY <1>1 DEF Aligned, Reading, HeaderIsNext
  <1>3. RefusedAsIllegal(e)'
    BY <1>1 DEF RefusedAsIllegal, Unposted
  <1>4. BodyAsAnnounced(e)' /\ PostedInOrder(e)'
    BY DEF ReaderInv, BodyAsAnnounced, PostedInOrder
  <1> QED BY <1>2, <1>3, <1>4 DEF ReaderInv

(* What is refused, judging by its header, may not be.                     *)
LEMMA NotAccepted ==
  ASSUME NEW e \in End, NEW h, NEW m \in Message, h.id = m.id, h.len = m.len, ~Accepts(e, h)
  PROVE  ~Legal(e, m)
  <1>1. m.len \in Int /\ m.id \in Int
    <2>1. m.len \in Short /\ m.id \in Short
      BY DEF Message
    <2> QED BY <2>1, ShortRange
  <1>2. SUFFICES ASSUME Legal(e, m) PROVE Accepts(e, h)
    OBVIOUS
  <1>3. 1 <= m.len /\ m.len <= MAX_LENGTH /\ m.len > 0 /\ m.len >= -1
    BY <1>1, <1>2, Numbers DEF Legal
  <1>4. e = "server" => m.id \in MSG_HELLO_WORLD .. 9999
    BY <1>2 DEF Legal
  <1> QED BY <1>3, <1>4 DEF Accepts

(* A header has been read: it is the one of the next message.              *)
LEMMA HeadDoneStep ==
  ASSUME TypeOK, NEW e \in End, ReaderInv(e), HeadDone(e)
  PROVE  ReaderInv(e)'
  <1> DEFINE h == [id |-> Host(buf[e], 1), len |-> Host(buf[e], 3)]
             k == Unposted(e)
             ms == sent[e]
  <1>1. reader[e] = "head" /\ Len(buf[e]) = 4
    BY DEF HeadDone, Wanted, HEAD_TOTAL_LEN
  <1>2. Frames(buf[e] \o pipe[e], ms, k, 0, Whole(e))
    BY <1>1 DEF ReaderInv, Aligned, Reading, Offset, Ahead
  <1>3. k \in 1 .. Len(ms) + 1
    BY NextInRange DEF ReaderInv
  <1>4. /\ k <= Len(ms) /\ Host(buf[e], 1) = ms[k].id /\ Host(buf[e], 3) = ms[k].len
        /\ Frames(pipe[e], ms, k, -4, Whole(e))
    BY <1>1, <1>2, <1>3, EndTypes, HeaderTaken
  <1>5. h.id = ms[k].id /\ h.len = ms[k].len
    BY <1>4
  <1>6. ms[k] \in Message
    BY <1>3, <1>4, EndTypes, BodyLength
  <1>7. /\ UNCHANGED <<sent, link>>
        /\ \/ /\ Accepts(e, h)
              /\ reader' = [reader EXCEPT ![e] = "body"] /\ header' = [header EXCEPT ![e] = h]
              /\ buf' = [buf EXCEPT ![e] = <<>>] /\ UNCHANGED <<pipe, posted, open>>
           \/ ~Accepts(e, h) /\ Refuse(e)
    BY DEF HeadDone
  <1> HIDE DEF h, k
  <1>8. CASE ~Accepts(e, h) /\ Refuse(e)
    <2>1. ~Legal(e, ms[k])
      BY <1>5, <1>6, <1>8, NotAccepted
    <2>2. StopReading(e, "refused") /\ UNCHANGED <<sent, header, posted, link>>
      BY <1>7, <1>8 DEF Refuse
    <2> QED BY <1>4, <2>1, <2>2, StopStep DEF k
  <1>9. CASE /\ Accepts(e, h)
             /\ reader' = [reader EXCEPT ![e] = "body"] /\ header' = [header EXCEPT ![e] = h]
             /\ buf' = [buf EXCEPT ![e] = <<>>] /\ UNCHANGED <<pipe, posted, open>>
    <2>1. reader'[e] = "body" /\ header'[e] = h /\ buf'[e] = <<>> /\ pipe'[e] = pipe[e]
          /\ posted' = posted /\ open' = open /\ sent' = sent /\ link' = link
      BY <1>7, <1>9 DEF TypeOK
    <2>2. Unposted(e)' = k /\ Offset(e)' = -4 /\ Whole(e)' = Whole(e)
      BY <2>1 DEF Unposted, Offset, Whole, k
    <2>3. Ahead(e)' = pipe[e]
      <3>1. <<>> \o pipe[e] = pipe[e]
        BY EndTypes
      <3> QED BY <2>1, <3>1 DEF Ahead
    <2>4. Aligned(e)'
      BY <1>4, <2>1, <2>2, <2>3 DEF Aligned
    <2>5. HeaderIsNext(e)'
      BY <1>4, <1>5, <1>9, <2>1, <2>2 DEF HeaderIsNext, Accepts
    <2>6. RefusedAsIllegal(e)'
      BY <2>1 DEF RefusedAsIllegal
    <2>7. BodyAsAnnounced(e)' /\ PostedInOrder(e)'
      BY <2>1 DEF ReaderInv, BodyAsAnnounced, PostedInOrder
    <2> QED BY <2>4, <2>5, <2>6, <2>7 DEF ReaderInv
  <1> QED BY <1>7, <1>8, <1>9

(* What was announced has been read: it is the body of the next message.   *)
LEMMA BodyIsNext ==
  ASSUME TypeOK, NEW e \in End, ReaderInv(e), reader[e] = "body", Len(buf[e]) = header[e].len
  PROVE  /\ Unposted(e) \in 1 .. Len(sent[e])
         /\ buf[e] = sent[e][Unposted(e)].body
         /\ Frames(pipe[e], sent[e], Unposted(e) + 1, 0, Whole(e))
  <1> DEFINE k == Unposted(e)
             ms == sent[e]
  <1>1. k \in 1 .. Len(ms) /\ header[e].len = ms[k].len
    BY NextInRange, EndTypes DEF ReaderInv, HeaderIsNext
  <1>2. Frames(buf[e] \o pipe[e], ms, k, -4, Whole(e))
    BY DEF ReaderInv, Aligned, Reading, Offset, Ahead
  <1>3. Len(ms[k].body) = IF ms[k].len > 0 THEN ms[k].len ELSE 0
    BY <1>1 DEF ReaderInv, BodyAsAnnounced
  <1>4. Len(buf[e]) \in Nat
    BY EndTypes, LenProperties
  <1>5. Len(buf[e]) = Len(ms[k].body)
    BY <1>1, <1>3, <1>4
  <1> HIDE DEF k
  <1>6. buf[e] \in Seq(Byte) /\ pipe[e] \in Seq(Byte) /\ ms \in Seq(Message) /\ Whole(e) \in BOOLEAN
    BY EndTypes
  <1>7. buf[e] = ms[k].body /\ Frames(pipe[e], ms, k + 1, 0, Whole(e))
    BY <1>1, <1>2, <1>5, <1>6, BodyTaken
  <1> QED BY <1>1, <1>7 DEF k

(* A body without bytes is refused.                                        *)
LEMMA EmptyIsIllegal ==
  ASSUME NEW e \in End, NEW m, m.len \in Int, m.len <= 0
  PROVE  ~Legal(e, m)
  BY DEF Legal

LEMMA BodyDoneStep ==
  ASSUME TypeOK, NEW e \in End, ReaderInv(e), BodyDone(e)
  PROVE  ReaderInv(e)'
  <1> DEFINE k == Unposted(e)
             ms == sent[e]
             m == [id |-> header[e].id, len |-> header[e].len, body |-> buf[e]]
  <1>1. reader[e] = "body" /\ Len(buf[e]) = header[e].len /\ UNCHANGED <<sent, link>>
    BY DEF BodyDone, Wanted
  <1>2. /\ k \in 1 .. Len(ms) /\ buf[e] = ms[k].body
        /\ Frames(pipe[e], ms, k + 1, 0, Whole(e))
    BY <1>1, BodyIsNext
  <1>3. header[e].id = ms[k].id /\ header[e].len = ms[k].len /\ Accepts(e, header[e])
    BY <1>1 DEF ReaderInv, HeaderIsNext
  <1>4. ms[k] \in Message /\ header[e].len \in Int
    BY <1>2, EndTypes, BodyLength
  <1>5. CASE buf[e] = <<>> /\ Refuse(e)
    <2>1. Len(buf[e]) = 0
      BY <1>5
    <2>2. ms[k].len = 0
      BY <2>1, <1>1, <1>3
    <2>3. ~Legal(e, ms[k])
      BY <2>2, EmptyIsIllegal
    <2>4. StopReading(e, "refused") /\ UNCHANGED <<sent, header, posted, link>>
      BY <1>1, <1>5 DEF Refuse
    <2>5. k <= Len(ms)
      BY <1>2
    <2> HIDE DEF k
    <2> QED BY <2>3, <2>4, <2>5, StopStep DEF k
  <1>6. CASE buf[e] # <<>> /\ Post(e)
    <2>1. m = ms[k]
      BY <1>2, <1>3, <1>4 DEF Message
    <2>2. posted'[e] = Append(posted[e], m) /\ buf'[e] = <<>> /\ reader'[e] = "head"
          /\ pipe' = pipe /\ header' = header /\ open' = open
      BY <1>6 DEF Post, TypeOK
    <2>3. Legal(e, ms[k])
      <3>1. header[e].len > 0
        <4>1. Len(buf[e]) \in Nat /\ (Len(buf[e]) = 0 => buf[e] = <<>>)
          BY EndTypes, EmptySeq, LenProperties
        <4> QED BY <4>1, <1>1, <1>6
      <3>2. header[e].len \in 1 .. MAX_LENGTH
        BY <3>1, <1>3, <1>4, Numbers DEF Accepts
      <3>3. e = "server" => header[e].id \in MSG_HELLO_WORLD .. 9999
        BY <1>3 DEF Accepts
      <3> QED BY <3>2, <3>3, <1>3 DEF Legal
    <2> HIDE DEF m
    <2>4. /\ Len(posted'[e]) = k /\ posted'[e][k] = ms[k]
          /\ \A i \in 1 .. Len(posted[e]) : posted'[e][i] = posted[e][i]
      <3>1. m \in Message
        BY <1>4, <2>1
      <3> QED BY <3>1, <2>1, <2>2, EndTypes, AppendProperties DEF Unposted
    <2>5. Unposted(e)' = k + 1 /\ Offset(e)' = 0 /\ Whole(e)' = Whole(e)
      BY <2>2, <2>4, <1>1 DEF Unposted, Offset, Whole
    <2>6. Ahead(e)' = pipe[e]
      <3>1. <<>> \o pipe[e] = pipe[e]
        BY EndTypes
      <3> QED BY <2>2, <3>1 DEF Ahead
    <2>7. Aligned(e)'
      BY <1>1, <1>2, <2>5, <2>6 DEF Aligned
    <2>8. HeaderIsNext(e)' /\ RefusedAsIllegal(e)'
      BY <2>2 DEF HeaderIsNext, RefusedAsIllegal
    <2>9. BodyAsAnnounced(e)'
      BY <1>1 DEF ReaderInv, BodyAsAnnounced
    <2>10. PostedInOrder(e)'
      <3>1. k <= Len(ms) /\ k = Len(posted[e]) + 1
        BY <1>2 DEF Unposted
      <3>2. ASSUME NEW i \in 1 .. k
            PROVE  posted'[e][i] = ms[i] /\ Legal(e, posted'[e][i])
        <4>1. i = k \/ i \in 1 .. Len(posted[e])
          BY <3>1, EndTypes
        <4>2. CASE i = k
          BY <4>2, <2>3, <2>4
        <4>3. CASE i \in 1 .. Len(posted[e])
          BY <4>3, <2>4 DEF ReaderInv, PostedInOrder
        <4> QED BY <4>1, <4>2, <4>3
      <3> QED BY <3>1, <3>2, <2>4, <1>1 DEF PostedInOrder
    <2> QED BY <2>7, <2>8, <2>9, <2>10 DEF ReaderInv
  <1> QED BY <1>5, <1>6 DEF BodyDone

LEMMA BodyFailsStep ==
  ASSUME TypeOK, NEW e \in End, ReaderInv(e), BodyFails(e)
  PROVE  ReaderInv(e)'
  <1> DEFINE k == Unposted(e)
             ms == sent[e]
  <1>1. k <= Len(ms) /\ ms[k].len = -1
    BY DEF BodyFails, ReaderInv, HeaderIsNext
  <1>2. ~Legal(e, ms[k])
    BY <1>1, EmptyIsIllegal
  <1>3. StopReading(e, "refused") /\ UNCHANGED <<sent, header, posted, link>>
    BY DEF BodyFails, Refuse
  <1> HIDE DEF k
  <1> QED BY <1>1, <1>2, <1>3, StopStep DEF k

(* A stream that loses its end: the bytes there are, are still the first.  *)
LEMMA CutStep ==
  ASSUME TypeOK, NEW e \in End, ReaderInv(e), Whole(e)' = FALSE,
         pipe'[e] = pipe[e] \/ pipe'[e] = <<>>,
         sent' = sent, reader' = reader, buf' = buf, header' = header, posted' = posted
  PROVE  ReaderInv(e)'
  <1>1. Aligned(e)'
    <2> SUFFICES ASSUME Reading(e)
                 PROVE  Frames(Ahead(e)', sent[e], Unposted(e), Offset(e), FALSE)
      BY DEF Aligned, Reading, Unposted, Offset
    <2>1. Frames(Ahead(e), sent[e], Unposted(e), Offset(e), Whole(e))
      BY DEF ReaderInv, Aligned
    <2>2. /\ Ahead(e)' \in Seq(Byte) /\ Len(Ahead(e)') <= Len(Ahead(e))
          /\ \A j \in 1 .. Len(Ahead(e)') : Ahead(e)'[j] = Ahead(e)[j]
      <3>1. CASE pipe'[e] = pipe[e]
        <4>1. Ahead(e)' = Ahead(e)
          BY <3>1 DEF Ahead
        <4> QED BY <4>1, EndTypes, LenProperties
      <3>2. CASE pipe'[e] = <<>>
        <4>1. Ahead(e)' = buf[e]
          <5>1. buf[e] \o <<>> = buf[e]
            BY EndTypes
          <5> QED BY <5>1, <3>2 DEF Ahead
        <4>2. /\ Len(Ahead(e)) = Len(buf[e]) + Len(pipe[e])
              /\ \A j \in 1 .. Len(buf[e]) + Len(pipe[e]) : j <= Len(buf[e]) => Ahead(e)[j] = buf[e][j]
          BY EndTypes, ConcatProperties DEF Ahead
        <4>3. Len(buf[e]) \in Nat /\ Len(pipe[e]) \in Nat
          BY EndTypes, LenProperties
        <4>4. Len(buf[e]) <= Len(Ahead(e)) /\ \A j \in 1 .. Len(buf[e]) : Ahead(e)[j] = buf[e][j]
          <5>1. PICK l \in Nat, r \in Nat : l = Len(buf[e]) /\ r = Len(pipe[e])
            BY <4>3
          <5>2. l <= l + r /\ \A j \in 1 .. l : j \in 1 .. l + r /\ j <= l
            OBVIOUS
          <5>3. Len(Ahead(e)) = l + r /\ \A j \in 1 .. l + r : j <= l => Ahead(e)[j] = buf[e][j]
            BY <4>2, <5>1
          <5>4. \A j \in 1 .. l : Ahead(e)[j] = buf[e][j]
            BY <5>2, <5>3
          <5>5. l <= Len(Ahead(e))
            BY <5>2, <5>3
          <5> QED BY <5>1, <5>4, <5>5
        <4> QED BY <4>1, <4>4, EndTypes
      <3> QED BY <3>1, <3>2
    <2>3. Unposted(e) \in 1 .. Len(sent[e]) + 1
      BY NextInRange DEF ReaderInv
    <2> QED BY <2>1, <2>2, <2>3, EndTypes, Trim
  <1>2. HeaderIsNext(e)'
    BY DEF ReaderInv, HeaderIsNext, Unposted
  <1>3. BodyAsAnnounced(e)' /\ PostedInOrder(e)' /\ RefusedAsIllegal(e)'
    BY DEF ReaderInv, BodyAsAnnounced, PostedInOrder, RefusedAsIllegal, Unposted
  <1> QED BY <1>1, <1>2, <1>3 DEF ReaderInv

LEMMA InvSends ==
  ASSUME TypeOK, NEW e \in End, NEW id \in Short, NEW len \in Short,
         Len(sent[e]) < 255, Send(e, id, len), NEW d \in End, ReaderInv(d)
  PROVE  ReaderInv(d)'
  <1>1. CASE d = e
    BY <1>1, SendStep
  <1>2. CASE d # e
    <2>1. sent'[d] = sent[d] /\ pipe'[d] = pipe[d]
      BY <1>2 DEF Send, TypeOK
    <2>2. UNCHANGED <<reader, buf, header, posted, open, link>>
      BY DEF Send
    <2> QED BY <2>1, <2>2, Untouched
  <1> QED BY <1>1, <1>2

(* A step of a reader, or of who closes its socket, is none of the other's.*)
LEMMA InvReads ==
  ASSUME TypeOK, NEW e \in End, ReadStep(e) \/ CloseSocket(e), NEW d \in End, ReaderInv(d)
  PROVE  ReaderInv(d)'
  <1>1. CASE d = e
    <2>1. CASE Receive(e)
      BY <1>1, <2>1, ReceiveStep
    <2>2. CASE HeadDone(e)
      BY <1>1, <2>2, HeadDoneStep
    <2>3. CASE BodyDone(e)
      BY <1>1, <2>3, BodyDoneStep
    <2>4. CASE BodyFails(e)
      BY <1>1, <2>4, BodyFailsStep
    <2>5. CASE StreamEnds(e)
      <3>1. StopReading(e, "lost") /\ UNCHANGED <<sent, header, posted, link>>
        BY <2>5 DEF StreamEnds
      <3> QED BY <1>1, <3>1, StopStep
    <2>6. CASE CloseSocket(e)
      <3>1. open'[e] = FALSE /\ pipe'[e] = <<>>
            /\ UNCHANGED <<sent, reader, buf, header, posted, link>>
        BY <2>6 DEF CloseSocket, TypeOK
      <3>2. Whole(e)' = FALSE
        BY <3>1 DEF Whole
      <3> QED BY <1>1, <3>1, <3>2, CutStep
    <2> QED BY <2>1, <2>2, <2>3, <2>4, <2>5, <2>6 DEF ReadStep
  <1>2. CASE d # e
    <2>1. sent' = sent /\ link' = link
      BY DEF ReadStep, Receive, HeadDone, BodyDone, BodyFails, StreamEnds, CloseSocket
    <2>2. /\ pipe'[d] = pipe[d] /\ reader'[d] = reader[d] /\ buf'[d] = buf[d]
          /\ header'[d] = header[d] /\ posted'[d] = posted[d] /\ open'[d] = open[d]
      <3>1. CASE Receive(e)
        BY <1>2, <3>1 DEF Receive, TypeOK
      <3>2. CASE \E how \in {"refused", "lost"} : StopReading(e, how) /\ UNCHANGED <<header, posted>>
        BY <1>2, <3>2 DEF StopReading, TypeOK, End
      <3>3. CASE HeadDone(e) /\ ~Refuse(e)
        BY <1>2, <3>3 DEF HeadDone, TypeOK
      <3>4. CASE Post(e)
        BY <1>2, <3>4 DEF Post, TypeOK
      <3>5. CASE CloseSocket(e)
        BY <1>2, <3>5 DEF CloseSocket, TypeOK
      <3>6. CASE Refuse(e)
        BY <3>2, <3>6 DEF Refuse
      <3>7. CASE StreamEnds(e)
        BY <3>2, <3>7 DEF StreamEnds
      <3> QED BY <3>1, <3>3, <3>4, <3>5, <3>6, <3>7 DEF ReadStep, BodyDone, BodyFails
    <2> QED BY <2>1, <2>2, Untouched
  <1> QED BY <1>1, <1>2

LEMMA InvBreak ==
  ASSUME TypeOK, Break, NEW d \in End, ReaderInv(d)
  PROVE  ReaderInv(d)'
  <1>1. link' = FALSE /\ UNCHANGED <<sent, pipe, reader, buf, header, posted, open>>
    BY DEF Break
  <1>2. Whole(d)' = FALSE
    BY <1>1 DEF Whole
  <1> QED BY <1>1, <1>2, CutStep

LEMMA InvNext == IInv /\ [Next]_vars => IInv'
  <1> SUFFICES ASSUME TypeOK, [Next]_vars, NEW d \in End, ReaderInv(d)
               PROVE  ReaderInv(d)'
    BY TypeNext DEF IInv
  <1>1. CASE ServerSends \/ ClientSends
    BY <1>1, Sends, InvSends
  <1>2. CASE \E e \in End : ReadStep(e) \/ CloseSocket(e)
    BY <1>2, InvReads
  <1>3. CASE Break
    BY <1>3, InvBreak
  <1>4. CASE UNCHANGED vars
    BY <1>4, Untouched DEF vars
  <1> QED BY <1>1, <1>2, <1>3, <1>4 DEF Next

THEOREM IInvHolds == Spec => []IInv
  <1> QED BY InvInit, InvNext, PTL DEF Spec

-----------------------------------------------------------------------------
(* However the stream is cut into pieces and wherever it ends, the         *)
(* messages that CSession::Start posts, and RecvOneMessage returns, are    *)
(* the ones sent: whole, in order, none left out.                          *)
THEOREM FramesAreFound == Spec => []PostedIsSent
  <1>1. IInv => PostedIsSent
    <2> SUFFICES ASSUME IInv, NEW e \in End
                 PROVE  IsPrefix(posted[e], sent[e])
      BY DEF PostedIsSent
    <2> DEFINE n == Len(posted[e])
    <2>1. TypeOK /\ PostedInOrder(e)
      BY DEF IInv, ReaderInv
    <2>2. /\ posted[e] \in Seq(Message) /\ sent[e] \in Seq(Message)
          /\ n \in Nat /\ Len(sent[e]) \in Nat
      BY <2>1, EndTypes
    <2>3. n <= Len(sent[e]) /\ \A i \in 1 .. n : posted[e][i] = sent[e][i]
      BY <2>1 DEF PostedInOrder
    <2>4. SubSeq(posted[e], 1, n) = SubSeq(sent[e], 1, n)
      <3>1. \A i \in 1 .. n : i \in 1 .. Len(sent[e]) /\ posted[e][i] \in Message /\ sent[e][i] \in Message
        BY <2>2, <2>3, ElementOfSeq
      <3>2. 1 \in Int /\ n \in Int
        BY <2>2
      <3> DEFINE x == SubSeq(posted[e], 1, n)
                 y == SubSeq(sent[e], 1, n)
      <3>3. x \in Seq(Message) /\ Len(x) = n /\ \A i \in 1 .. n : x[i] = posted[e][i]
        BY <2>2, <3>1, <3>2, SubSeqProperties
      <3>4. y \in Seq(Message) /\ Len(y) = n /\ \A i \in 1 .. n : y[i] = sent[e][i]
        BY <2>2, <3>1, <3>2, SubSeqProperties
      <3> HIDE DEF x, y
      <3>5. x = y
        BY <2>3, <3>3, <3>4, SeqEqual
      <3> QED BY <3>5 DEF x, y
    <2> QED BY <2>3, <2>4 DEF IsPrefix
  <1> QED BY <1>1, IInvHolds, PTL

(* What is posted has a body within the limit and an id in the range that  *)
(* CSession::Start compares it with, registered or not, and only what has  *)
(* not is refused, though it compares a length with its upper limit alone. *)
THEOREM OnlyIllegalRefused == Spec => []RefusedIffIllegal
  <1>1. IInv => RefusedIffIllegal
    <2> SUFFICES ASSUME IInv, NEW e \in End
                 PROVE  /\ \A i \in DOMAIN posted[e] : Legal(e, posted[e][i])
                        /\ reader[e] = "refused" =>
                             Len(posted[e]) < Len(sent[e])
                             /\ ~Legal(e, sent[e][Len(posted[e]) + 1])
      BY DEF RefusedIffIllegal
    <2>1. TypeOK /\ PostedInOrder(e) /\ RefusedAsIllegal(e)
      BY DEF IInv, ReaderInv
    <2>2. DOMAIN posted[e] = 1 .. Len(posted[e])
      BY <2>1, EndTypes, LenProperties
    <2>3. \A i \in DOMAIN posted[e] : Legal(e, posted[e][i])
      BY <2>1, <2>2 DEF PostedInOrder
    <2>4. ASSUME reader[e] = "refused"
          PROVE  Len(posted[e]) < Len(sent[e]) /\ ~Legal(e, sent[e][Len(posted[e]) + 1])
      BY <2>1, <2>4, EndTypes DEF RefusedAsIllegal, Unposted
    <2> QED BY <2>3, <2>4
  <1> QED BY <1>1, IInvHolds, PTL
=============================================================================
