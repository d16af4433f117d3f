--------------------------- MODULE Frames_proofs ----------------------------
(***************************************************************************)
(* Proofs about the packets of a lidar once they are in the driver, for any *)
(* lidars, contents, sizes, grids and rates: each is computed once and      *)
(* counted right, the frames are turns, and the clouds and grids that the   *)
(* callback gets are exact.                                                *)
(***************************************************************************)
EXTENDS Sources_proofs

(* PacketDecoder.  A sequence without the members of a set, as Accepted.   *)
Without(s, T) ==
  LET of[i \in 0..Len(s)] ==
        IF i = 0 THEN <<>>
        ELSE IF s[i] \in T THEN of[i - 1]
        ELSE Append(of[i - 1], s[i])
  IN of[Len(s)]

(* Does f count up to it? *)
WithoutBy(f, s, T) ==
  /\ f[0] = <<>> /\ Without(s, T) = f[Len(s)]
  /\ \A i \in 1 .. Len(s) : f[i] = IF s[i] \in T THEN f[i-1] ELSE Append(f[i-1], s[i])

(* It has the value its definition says. *)
LEMMA WithoutExists ==
  ASSUME NEW S, NEW s \in Seq(S), NEW T
  PROVE  \E f : WithoutBy(f, s, T)
<1> DEFINE n == Len(s)
           V == Seq(S)
           e(i, v) == IF s[i] \in T THEN v ELSE Append(v, s[i])
           step == [i \in 1 .. n |-> [v \in V |-> e(i, v)]]
           Of(f) == [i \in 0 .. n |-> IF i = 0 THEN <<>> ELSE e(i, f[i-1])]
           f == CHOOSE h : h = Of(h)
<1>1. n \in Nat /\ \A i \in 1 .. n : s[i] \in S
  BY LenProperties, ElementOfSeq
<1>2. \A i \in 1 .. n : \A v \in V : e(i, v) \in V
  BY <1>1, AppendProperties
<1>3. <<>> \in V
  OBVIOUS
<1>4. Without(s, T) = f[n]
  BY DEF Without
<1> SUFFICES f[0] = <<>> /\ \A i \in 1 .. n : f[i] = e(i, f[i-1])
  BY <1>4 DEF WithoutBy
<1> HIDE DEF n, V, e
<1>5. step \in [1 .. n -> [V -> V]]
  BY <1>2
<1> DEFINE none == <<>>
<1>6. PICK g \in [0 .. n -> V] : g[0] = <<>> /\ \A i \in 1 .. n : g[i] = step[i][g[i-1]]
  <2> HIDE DEF step
  <2>1. \E g : Recurs(g, V, n, <<>>, step)
    BY <1>1, <1>3, <1>5, RecursionExists
  <2> QED
    BY <2>1 DEF Recurs
<1>7. \A i \in 1 .. n : g[i] = e(i, g[i-1])
  <2>1. \A i \in 1 .. n : i - 1 \in 0 .. n
    BY <1>1
  <2>2. \A i \in 1 .. n : g[i-1] \in V
    BY <1>6, <2>1
  <2>3. \A i \in 1 .. n : \A v \in V : step[i][v] = e(i, v)
    OBVIOUS
  <2> HIDE DEF step
  <2> QED
    BY <1>6, <2>2, <2>3
<1>8. g = Of(g)
  BY <1>1, <1>6, <1>7
<1>9. f = Of(f)
  <2> HIDE DEF Of
  <2> QED
    BY <1>8
<1> HIDE DEF f
<1>10. f[0] = <<>> /\ \A i \in 1 .. n : f[i] = e(i, f[i-1])
  BY <1>1, <1>9
<1> QED
  BY <1>10

(* An element behind it. *)
LEMMA WithoutGrows ==
  ASSUME NEW S, NEW s \in Seq(S), NEW x \in S, NEW T
  PROVE  Without(Append(s, x), T) = IF x \in T THEN Without(s, T) ELSE Append(Without(s, T), x)
<1> DEFINE n == Len(s)
           t == Append(s, x)
           e(i, v) == IF t[i] \in T THEN v ELSE Append(v, t[i])
<1>1. n \in Nat /\ n + 1 \in Nat
  BY LenProperties
<1>2. /\ t \in Seq(S) /\ Len(t) = n + 1 /\ t[n+1] = x
      /\ \A i \in 1 .. n : t[i] = s[i]
  BY AppendProperties
<1>3. PICK f : WithoutBy(f, s, T)
  BY WithoutExists
<1> HIDE DEF t
<1>4. PICK g : WithoutBy(g, t, T)
  BY <1>2, WithoutExists
<1>8. /\ f[0] = <<>> /\ Without(s, T) = f[n]
      /\ \A i \in 1 .. n : f[i] = IF s[i] \in T THEN f[i-1] ELSE Append(f[i-1], s[i])
  BY <1>3 DEF WithoutBy
<1>9. /\ g[0] = <<>> /\ Without(t, T) = g[n+1]
      /\ \A i \in 1 .. n+1 : g[i] = IF t[i] \in T THEN g[i-1] ELSE Append(g[i-1], t[i])
  BY <1>2, <1>4 DEF WithoutBy
<1> HIDE DEF n
<1>5. Alike(f, g, n)
  <2>1. \A i \in 1 .. n : f[i] = e(i, f[i-1])
    BY <1>2, <1>8
  <2>2. \A i \in 1 .. n : i \in 1 .. n+1
    BY <1>1
  <2>3. \A i \in 1 .. n : g[i] = e(i, g[i-1])
    BY <1>9, <2>2
  <2> HIDE DEF e
  <2> QED
    BY <1>8, <1>9, <2>1, <2>3 DEF Alike
<1>6. f[n] = g[n]
  BY <1>1, <1>5, Agree
<1>7. g[n+1] = e(n+1, g[n])
  <2> DEFINE k == n+1
  <2>1. k \in 1 .. k /\ k-1 = n
    BY <1>1
  <2>2. \A i \in 1 .. k : g[i] = e(i, g[i-1])
    BY <1>9
  <2>3. g[k] = e(k, g[n])
    <3> HIDE DEF e, k
    <3> QED
      BY <2>1, <2>2, Zenon
  <2> QED
    BY <2>3
<1> QED
  BY <1>2, <1>8, <1>9, <1>6, <1>7 DEF t

(* A set that grows by others. *)
LEMMA WithoutStays ==
  ASSUME NEW S, NEW s \in Seq(S), NEW T, NEW U, \A i \in 1 .. Len(s) : s[i] \in T <=> s[i] \in U
  PROVE  Without(s, T) = Without(s, U)
<1> DEFINE n == Len(s)
<1>1. n \in Nat
  BY LenProperties
<1>2. PICK f : WithoutBy(f, s, T)
  BY WithoutExists
<1>3. PICK g : WithoutBy(g, s, U)
  BY WithoutExists
<1>4. \A i \in 1 .. n : s[i] \in T <=> s[i] \in U
  OBVIOUS
<1>6. /\ f[0] = <<>> /\ Without(s, T) = f[n]
      /\ \A i \in 1 .. n : f[i] = IF s[i] \in T THEN f[i-1] ELSE Append(f[i-1], s[i])
  BY <1>2 DEF WithoutBy
<1>7. /\ g[0] = <<>> /\ Without(s, U) = g[n]
      /\ \A i \in 1 .. n : g[i] = IF s[i] \in U THEN g[i-1] ELSE Append(g[i-1], s[i])
  BY <1>3 DEF WithoutBy
<1> HIDE DEF n
<1>5. Alike(f, g, n)
  BY <1>4, <1>6, <1>7 DEF Alike
<1> QED
  BY <1>1, <1>5, <1>6, <1>7, Agree

(* Of nothing. *)
LEMMA WithoutNone ==
  ASSUME NEW T PROVE Without(<<>>, T) = <<>>
<1> DEFINE s == <<>>
<1>1. s \in Seq(Nat) /\ Len(s) = 0
  OBVIOUS
<1> HIDE DEF s
<1>2. PICK f : WithoutBy(f, s, T)
  BY <1>1, WithoutExists
<1> QED
  BY <1>1, <1>2 DEF WithoutBy, s

-----------------------------------------------------------------------------
(* What Run was given, by number.                                          *)
GotInv ==
  /\ lidar \in Lidars /\ sent \in Nat
  /\ got \in Seq(Nat) /\ \A i \in 1 .. Len(got) : got[i] \in 1 .. sent
  /\ \A p \in odd : \E i \in 1 .. Len(got) : got[i] = p

(* The frame is what of the buffer was given to the handle threads, and it *)
(* and the one before are the last of the accepted packets.                *)
FrameInv ==
  /\ raw \in Seq(Nat) /\ frame \in Seq(Nat) /\ done \in Seq(Nat)
  /\ packetNum = Len(frame) /\ packetNum <= Len(raw)
  /\ got = <<>> => /\ last = (IF lidar.rule \in {"parity", "column"} THEN -1 ELSE 0)
                   /\ lastLast = 0
  /\ got # <<>> => raw # <<>>
  /\ \E pre \in Seq(Nat) : Decoder!Accepted = pre \o (done \o frame)

(* A sequence read backwards. *)
LEMMA ReverseOf ==
  ASSUME NEW S, NEW s \in Seq(S)
  PROVE  Decoder!Reverse(s) \in Seq(S) /\ Len(Decoder!Reverse(s)) = Len(s)
<1>1. Len(s) \in Nat /\ \A i \in 1 .. Len(s) : s[i] \in S
  BY LenProperties, ElementOfSeq
<1> DEFINE r == [i \in 1 .. Len(s) |-> s[Len(s) - i + 1]]
<1>2. \A i \in 1 .. Len(s) : Len(s) - i + 1 \in 1 .. Len(s)
  BY <1>1
<1>3. \A i \in 1 .. Len(s) : r[i] \in S
  BY <1>1, <1>2
<1>4. r \in Seq(S) /\ Len(r) = Len(s)
  BY <1>1, <1>3
<1> QED
  BY <1>4 DEF Decoder!Reverse

(* Sequences that start alike. *)
LEMMA SameStart ==
  ASSUME NEW S, NEW s \in Seq(S), NEW t \in Seq(S), NEW n \in Nat, n <= Len(s), n <= Len(t),
         \A i \in 1 .. n : s[i] = t[i]
  PROVE  SubSeq(s, 1, n) = SubSeq(t, 1, n)
<1>1. Len(s) \in Nat /\ Len(t) \in Nat
  BY LenProperties
<1>2. /\ \A i \in 1 .. n : s[i] \in S
      /\ \A i \in 1 .. n : t[i] \in S
  BY <1>1, ElementOfSeq
<1>3. /\ SubSeq(s, 1, n) \in Seq(S) /\ Len(SubSeq(s, 1, n)) = n
      /\ \A i \in 1 .. n : SubSeq(s, 1, n)[i] = s[i]
  BY <1>2, SubSeqProperties
<1>4. /\ SubSeq(t, 1, n) \in Seq(S) /\ Len(SubSeq(t, 1, n)) = n
      /\ \A i \in 1 .. n : SubSeq(t, 1, n)[i] = t[i]
  BY <1>2, SubSeqProperties
<1> QED
  BY <1>3, <1>4, SeqEqual

(* The end of a sequence is its suffix. *)
LEMMA EndIsSuffix ==
  ASSUME NEW S, NEW u \in Seq(S), NEW s \in Seq(S)
  PROVE  Decoder!IsSuffix(s, u \o s)
<1> DEFINE t == u \o s
<1>1. /\ t \in Seq(S) /\ Len(t) = Len(u) + Len(s) /\ Len(u) \in Nat /\ Len(s) \in Nat
      /\ \A i \in 1 .. Len(s) : t[i + Len(u)] = s[i]
  <2>1. Len(u) \in Nat /\ Len(s) \in Nat
    BY LenProperties
  <2>2. /\ t \in Seq(S) /\ Len(t) = Len(u) + Len(s)
        /\ \A i \in 1 .. Len(u) + Len(s) : t[i] = IF i <= Len(u) THEN u[i] ELSE s[i - Len(u)]
    BY ConcatProperties
  <2>3. \A i \in 1 .. Len(s) : i + Len(u) \in 1 .. Len(u) + Len(s) /\ ~(i + Len(u) <= Len(u)) /\ i + Len(u) - Len(u) = i
    BY <2>1
  <2> HIDE DEF t
  <2> QED
    BY <2>1, <2>2, <2>3
<1> DEFINE rs == Decoder!Reverse(s)
           rt == Decoder!Reverse(t)
<1> HIDE DEF t
<1>2. /\ rs = [i \in 1 .. Len(s) |-> s[Len(s) - i + 1]]
      /\ rt = [i \in 1 .. Len(t) |-> t[Len(t) - i + 1]]
  BY DEF Decoder!Reverse
<1>3. /\ rs \in Seq(S) /\ Len(rs) = Len(s)
      /\ rt \in Seq(S) /\ Len(rt) = Len(t)
  BY <1>1, ReverseOf
<1>4. \A i \in 1 .. Len(s) : rs[i] = rt[i]
  <2> SUFFICES ASSUME NEW i \in 1 .. Len(s) PROVE rs[i] = rt[i]
    OBVIOUS
  <2>1. /\ Len(s) - i + 1 \in 1 .. Len(s) /\ i \in 1 .. Len(t)
        /\ Len(t) - i + 1 = (Len(s) - i + 1) + Len(u)
    BY <1>1
  <2>2. rs[i] = s[Len(s) - i + 1] /\ rt[i] = t[Len(t) - i + 1]
    BY <1>2, <2>1
  <2> QED
    BY <1>1, <2>1, <2>2
<1> HIDE DEF rs, rt
<1>5. Len(rs) <= Len(rt)
  BY <1>1, <1>3
<1>6. SubSeq(rs, 1, Len(rs)) = SubSeq(rt, 1, Len(rs))
  <2>1. /\ \A i \in 1 .. Len(rs) : rs[i] \in S
        /\ \A i \in 1 .. Len(rs) : rt[i] \in S
    BY <1>1, <1>3, ElementOfSeq
  <2> QED
    BY <1>3, <1>4, <2>1, SameStart
<1> QED
  BY <1>5, <1>6 DEF Decoder!IsSuffix, Decoder!IsPrefix, rs, rt, t

(* What a packet carries is a number; a column is not negative. *)
LEMMA KeyTyped ==
  ASSUME lidar \in Lidars, NEW p \in Nat
  PROVE  /\ Decoder!Key(p) \in Int
         /\ lidar.rule = "column" => Decoder!Key(p) >= 0
         /\ lidar.rule \in {"azimuth", "field", "parity", "column"}
<1>1. /\ lidar.rule \in {"azimuth", "field", "parity", "column"}
      /\ lidar.dir \in Int /\ lidar.first \in Nat /\ lidar.step \in Nat \ {0}
      /\ lidar.echoes \in Nat \ {0}
  BY DecoderParameters DEF Decoder!DecoderAssumption
<1>2. {Circle, Stride, FrameLen} \subseteq Nat \ {0}
  BY DecoderParameters DEF Decoder!DecoderAssumption
<1>3. /\ Decoder!Column(p) \in Int /\ Decoder!Column(p) >= 0
      /\ Decoder!FrameOf(p) \in Int
  BY <1>1, <1>2 DEF Decoder!Column, Decoder!FrameOf
<1>4. Decoder!Moved(p) \in Int
  <2>1. (p - 1) \div lidar.echoes \in Int
    BY <1>1
  <2> QED
    BY <1>1, <2>1 DEF Decoder!Moved
<1>5. CASE lidar.rule = "azimuth"
  <2>1. Decoder!Key(p) = (lidar.first + lidar.dir * Decoder!Moved(p)) % Circle
    BY <1>5 DEF Decoder!Key
  <2>2. lidar.dir * Decoder!Moved(p) \in Int
    BY <1>1, <1>4
  <2>3. lidar.first + lidar.dir * Decoder!Moved(p) \in Int
    BY <1>1, <2>2
  <2> QED
    BY <1>1, <1>2, <1>5, <2>1, <2>3
<1>6. CASE lidar.rule = "field"
  <2>1. Decoder!FrameOf(p) % 3 \in Int
    BY <1>3
  <2>2. Stride * (Decoder!FrameOf(p) % 3) \in Int
    BY <1>2, <2>1
  <2>3. Decoder!Key(p) = Stride * (Decoder!FrameOf(p) % 3) + 2
          + (IF lidar.dir = 1 THEN Decoder!Column(p) ELSE FrameLen - 1 - Decoder!Column(p))
    BY <1>6 DEF Decoder!Key, Decoder!FirstColumn
  <2> QED
    BY <1>1, <1>2, <1>3, <1>6, <2>2, <2>3
<1>7. CASE lidar.rule = "parity"
  <2>1. Decoder!Key(p) = Decoder!FrameOf(p) % 2
    BY <1>7 DEF Decoder!Key
  <2> QED
    BY <1>1, <1>3, <1>7, <2>1
<1>8. CASE lidar.rule = "column"
  <2>1. Decoder!Key(p) = Decoder!Column(p)
    BY <1>8 DEF Decoder!Key
  <2> QED
    BY <1>1, <1>3, <1>8, <2>1
<1> QED
  BY <1>1, <1>5, <1>6, <1>7, <1>8

(* The first packet does not end a frame. *)
LEMMA FirstBeginsFrame ==
  ASSUME lidar \in Lidars, NEW p \in Nat,
         last = (IF lidar.rule \in {"parity", "column"} THEN -1 ELSE 0), lastLast = 0
  PROVE  ~ Decoder!Completes(Decoder!Key(p))
<1> DEFINE key == Decoder!Key(p)
<1>1. /\ key \in Int
      /\ lidar.rule = "column" => key >= 0
      /\ lidar.rule \in {"azimuth", "field", "parity", "column"}
  BY KeyTyped
<1> HIDE DEF key
<1>2. CASE lidar.rule = "azimuth"
  <2>1. last = 0
    BY <1>2
  <2>2. Decoder!Division(key) = 0
    BY <1>1, <2>1 DEF Decoder!Division, Decoder!Abs
  <2>3. ~ Decoder!PassesStart(key)
    BY <2>2 DEF Decoder!PassesStart
  <2> QED
    BY <1>2, <2>3 DEF Decoder!Completes, Decoder!IsNeedFrameSplit, key
<1>3. CASE lidar.rule = "field"
  BY <1>3 DEF Decoder!Completes, Decoder!IsNeedFrameSplit, Decoder!Jumps, key
<1>4. CASE lidar.rule = "parity"
  BY <1>4 DEF Decoder!Completes, Decoder!IsNeedFrameSplit, key
<1>5. CASE lidar.rule = "column"
  <2>1. last = -1 /\ ~(key < last)
    BY <1>1, <1>5
  <2> QED
    BY <1>5, <2>1 DEF Decoder!Completes, Decoder!IsNeedFrameSplit, key
<1> QED
  BY <1>1, <1>2, <1>3, <1>4, <1>5

(* A packet is added to what was accepted, unless it is of another size. *)
LEMMA PacketGiven ==
  ASSUME GotInv, NEW p \in Nat \ {0}, NEW fits \in BOOLEAN, Decoder!Deliver(p, fits),
         \A i \in 1 .. Len(got) : got[i] # p
  PROVE  /\ GotInv'
         /\ Decoder!Accepted' = IF fits THEN Append(Decoder!Accepted, p) ELSE Decoder!Accepted
<1> DEFINE n == Len(got)
<1>1. /\ lidar \in Lidars /\ sent \in Nat /\ got \in Seq(Nat)
      /\ \A i \in 1 .. n : got[i] \in 1 .. sent
      /\ \A q \in odd : \E i \in 1 .. n : got[i] = q
  BY DEF GotInv
<1>2. /\ lidar' = lidar /\ got' = Append(got, p)
      /\ sent' = (IF p > sent THEN p ELSE sent)
      /\ odd' = (IF fits THEN odd ELSE odd \cup {p})
  BY DEF Decoder!Deliver
<1>3. n \in Nat /\ Len(got') = n + 1 /\ got' \in Seq(Nat)
      /\ \A i \in 1 .. n : got'[i] = got[i]
  BY <1>1, <1>2, LenProperties, AppendProperties
<1>4. got'[n+1] = p
  BY <1>1, <1>2, AppendProperties
<1> HIDE DEF n
<1>5. \A i \in 1 .. n+1 : got'[i] \in 1 .. sent'
  BY <1>1, <1>2, <1>3, <1>4
<1>6. \A q \in odd' : \E i \in 1 .. n+1 : got'[i] = q
  <2> SUFFICES ASSUME NEW q \in odd' PROVE \E i \in 1 .. n+1 : got'[i] = q
    OBVIOUS
  <2>1. n + 1 \in 1 .. n+1 /\ 1 .. n \subseteq 1 .. n+1
    BY <1>3
  <2>2. CASE q = p
    BY <1>4, <2>1, <2>2
  <2>3. CASE q \in odd
    BY <1>1, <1>3, <2>1, <2>3
  <2> QED
    BY <1>2, <2>2, <2>3
<1>7. GotInv'
  BY <1>1, <1>2, <1>3, <1>5, <1>6 DEF GotInv
<1>8. Decoder!Accepted = Without(got, odd)
  BY DEF Decoder!Accepted, Without
<1>9. Decoder!Accepted' = Without(got', odd')
  BY DEF Decoder!Accepted, Without
<1>10. Without(got', odd') = IF p \in odd' THEN Without(got, odd') ELSE Append(Without(got, odd'), p)
  <2>1. p \in Nat
    OBVIOUS
  <2>2. \A T : Without(Append(got, p), T) = IF p \in T THEN Without(got, T) ELSE Append(Without(got, T), p)
    BY <1>1, <2>1, WithoutGrows
  <2> QED
    BY <1>2, <2>2
<1>11. Without(got, odd') = Without(got, odd)
  <2>1. \A i \in 1 .. Len(got) : got[i] \in odd' <=> got[i] \in odd
    BY <1>2
  <2> QED
    BY <1>1, <2>1, WithoutStays
<1>12. p \in odd' <=> ~fits
  BY <1>1, <1>2 DEF n
<1> QED
  BY <1>7, <1>8, <1>9, <1>10, <1>11, <1>12

(* The parts of a sequence may be grouped the other way. *)
Regroups(s, t, u) == s \o (t \o u) = (s \o t) \o u

(* They may. *)
LEMMA PartsRegrouped ==
  ASSUME NEW S, NEW s \in Seq(S), NEW t \in Seq(S), NEW u \in Seq(S)
  PROVE  Regroups(s, t, u)
BY ConcatAssociative, SMTT(30) DEF Regroups

(* A packet behind a sequence of three parts. *)
Behind(s, t, u, p) ==
  /\ Append(s \o (t \o u), p) = s \o (t \o Append(u, p))
  /\ Append(s \o (t \o u), p) = (s \o t) \o (u \o <<p>>)
  /\ s \o t \in Seq(Nat)

(* Where it is. *)
LEMMA PacketBehind ==
  ASSUME NEW s \in Seq(Nat), NEW t \in Seq(Nat), NEW u \in Seq(Nat), NEW p \in Nat
  PROVE  Behind(s, t, u, p)
<1> DEFINE S == Nat
<1>1. s \in Seq(S) /\ t \in Seq(S) /\ u \in Seq(S) /\ p \in S
  OBVIOUS
<1> HIDE DEF S
<1>2. <<p>> \in Seq(S) /\ Append(u, p) = u \o <<p>>
  BY <1>1, AppendProperties, AppendIsConcat
<1>3. t \o u \in Seq(S) /\ s \o t \in Seq(S) /\ s \o (t \o u) \in Seq(S) /\ u \o <<p>> \in Seq(S)
  BY <1>1, <1>2, ConcatProperties
<1>4. Append(s \o (t \o u), p) = (s \o (t \o u)) \o <<p>>
  BY <1>1, <1>3, AppendIsConcat
<1>5. Regroups(s, t \o u, <<p>>) /\ Regroups(t, u, <<p>>) /\ Regroups(s, t, u \o <<p>>)
  BY <1>1, <1>2, <1>3, PartsRegrouped
<1> QED
  BY <1>2, <1>3, <1>4, <1>5 DEF S, Regroups, Behind

(* A packet that ends a frame, one that goes into it, and one of another    *)
(* size, leave the frames at the end of what was accepted.                  *)
LEMMA DeliverKeepsFrame ==
  ASSUME OddIsInside, GotInv, FrameInv, NEW p \in Nat \ {0}, NEW fits \in BOOLEAN,
         Decoder!Deliver(p, fits), \A i \in 1 .. Len(got) : got[i] # p
  PROVE  FrameInv'
<1> DEFINE acc == Decoder!Accepted
           splits == Decoder!Completes(Decoder!Key(p))
<1>1. acc' = IF fits THEN Append(acc, p) ELSE acc
  BY PacketGiven
<1> HIDE DEF acc
<1>2. /\ raw \in Seq(Nat) /\ frame \in Seq(Nat) /\ done \in Seq(Nat)
      /\ packetNum = Len(frame) /\ packetNum <= Len(raw)
      /\ got # <<>> => raw # <<>>
  BY DEF FrameInv
<1>3. PICK pre \in Seq(Nat) : acc = pre \o (done \o frame)
  BY DEF FrameInv, acc
<1>4. /\ fits \/ got # <<>>
      /\ ~fits => ~splits
      /\ got' = Append(got, p)
      /\ splits => Decoder!StartWith(p, fits)
      /\ ~splits /\ fits => Decoder!Add(p)
      /\ ~splits /\ ~fits => UNCHANGED <<raw, packetNum, frame, done>>
  BY DEF Decoder!Deliver, Decoder!frames
<1>5. splits => got # <<>>
  <2>1. ASSUME got = <<>> PROVE ~splits
    BY <2>1, FirstBeginsFrame DEF GotInv, FrameInv
  <2> QED
    BY <2>1
<1> HIDE DEF splits
<1>6. got' # <<>>
  BY <1>4, AppendProperties DEF GotInv
<1> DEFINE Kept == /\ raw' \in Seq(Nat) /\ frame' \in Seq(Nat) /\ done' \in Seq(Nat)
                   /\ packetNum' = Len(frame') /\ packetNum' <= Len(raw')
                   /\ raw' # <<>>
                   /\ \E q \in Seq(Nat) : acc' = q \o (done' \o frame')
<1>11. SUFFICES Kept
  BY <1>6 DEF FrameInv, acc
<1>12. /\ Append(acc, p) = pre \o (done \o Append(frame, p))
       /\ Append(acc, p) = (pre \o done) \o (frame \o <<p>>)
       /\ pre \o done \in Seq(Nat)
  <2>1. p \in Nat
    OBVIOUS
  <2>2. frame \in Seq(Nat) /\ done \in Seq(Nat)
    BY <1>2
  <2>3. Behind(pre, done, frame, p)
    BY <2>1, <2>2, PacketBehind
  <2> QED
    BY <1>3, <2>3 DEF Behind
<1>7. CASE splits
  <2>1. fits /\ acc' = Append(acc, p) /\ raw # <<>>
    BY <1>1, <1>2, <1>4, <1>5, <1>7
  <2>2. /\ raw' = [raw EXCEPT ![1] = p] /\ packetNum' = 1
        /\ frame' = <<raw'[1]>> /\ done' = frame
    BY <1>4, <1>7, <2>1 DEF Decoder!StartWith
  <2>3. Len(raw) \in Nat /\ Len(raw) >= 1 /\ 1 \in 1 .. Len(raw)
    BY <1>2, <2>1, EmptySeq
  <2>4. raw' \in Seq(Nat) /\ Len(raw') = Len(raw) /\ raw'[1] = p
    BY <1>2, <2>2, <2>3, ExceptSeq
  <2>5. frame' = <<p>> /\ frame' \in Seq(Nat) /\ Len(frame') = 1
    BY <2>2, <2>4
  <2>6. raw' # <<>>
    BY <2>3, <2>4
  <2>7. pre \o done \in Seq(Nat) /\ acc' = (pre \o done) \o (done' \o frame')
    BY <1>12, <2>1, <2>2, <2>5
  <2> QED
    BY <1>2, <2>2, <2>3, <2>4, <2>5, <2>6, <2>7
<1>8. CASE ~splits /\ fits
  <2>1. /\ raw' = IF packetNum < Len(raw) THEN [raw EXCEPT ![packetNum + 1] = p] ELSE Append(raw, p)
        /\ packetNum' = packetNum + 1 /\ done' = done
        /\ frame' = IF packetNum' # Len(frame) THEN Append(frame, raw'[Len(frame) + 1]) ELSE frame
    BY <1>4, <1>8 DEF Decoder!Add
  <2>2. Len(raw) \in Nat /\ Len(frame) \in Nat
    BY <1>2, LenProperties
  <2>3. raw' \in Seq(Nat) /\ packetNum + 1 <= Len(raw') /\ raw'[packetNum + 1] = p
    <3>1. CASE packetNum < Len(raw)
      <4>1. packetNum + 1 \in 1 .. Len(raw)
        BY <1>2, <2>2, <3>1
      <4> QED
        BY <1>2, <2>1, <2>2, <3>1, <4>1, ExceptSeq
    <3>2. CASE ~(packetNum < Len(raw))
      <4>1. packetNum = Len(raw) /\ raw' = Append(raw, p)
        BY <1>2, <2>1, <2>2, <3>2
      <4> QED
        BY <1>2, <2>2, <4>1, AppendProperties
    <3> QED
      BY <3>1, <3>2
  <2>4. packetNum' # Len(frame) /\ frame' = Append(frame, p)
    BY <1>2, <2>1, <2>2, <2>3
  <2>5. frame' \in Seq(Nat) /\ Len(frame') = Len(frame) + 1
    BY <1>2, <2>4, AppendProperties
  <2>6. raw' # <<>>
    BY <1>2, <2>2, <2>3, EmptySeq
  <2>7. acc' = pre \o (done' \o frame')
    BY <1>1, <1>8, <1>12, <2>1, <2>4
  <2> QED
    BY <1>2, <1>3, <2>1, <2>2, <2>3, <2>5, <2>6, <2>7
<1>9. CASE ~splits /\ ~fits
  <2>1. /\ raw' = raw /\ packetNum' = packetNum /\ frame' = frame /\ done' = done
        /\ got # <<>> /\ acc' = acc
    BY <1>1, <1>4, <1>9
  <2> QED
    BY <1>2, <1>3, <2>1
<1> QED
  BY <1>7, <1>8, <1>9

(* A packet that comes in order, or late: none comes twice. *)
LEMMA PacketIsNew ==
  ASSUME GotInv, Decoder!Packet
  PROVE  \E p \in Nat \ {0} : \E fits \in BOOLEAN :
           /\ Decoder!Deliver(p, fits)
           /\ \A i \in 1 .. Len(got) : got[i] # p
           /\ InOrder => p = sent + 1
<1>1. /\ sent \in Nat /\ got \in Seq(Nat) /\ \A i \in 1 .. Len(got) : got[i] \in 1 .. sent
  BY DEF GotInv
<1>2. PICK p \in (IF sent < MaxPackets THEN {sent + 1} ELSE {})
                  \cup (IF InOrder THEN {} ELSE (1 .. sent) \ Decoder!ToSet(got)) :
        \E fits \in BOOLEAN : Decoder!Deliver(p, fits)
  BY DEF Decoder!Packet
<1>3. PICK fits \in BOOLEAN : Decoder!Deliver(p, fits)
  BY <1>2
<1>4. p = sent + 1 \/ (~InOrder /\ p \in 1 .. sent /\ p \notin Decoder!ToSet(got))
  BY <1>2
<1>5. p \in Nat \ {0}
  BY <1>1, <1>4
<1>6. \A i \in 1 .. Len(got) : got[i] # p
  <2>1. \A i \in 1 .. Len(got) : got[i] \in Decoder!ToSet(got)
    BY <1>1 DEF Decoder!ToSet
  <2> QED
    BY <1>1, <1>4, <2>1
<1>7. InOrder => p = sent + 1
  BY <1>4
<1> QED
  BY <1>3, <1>5, <1>6, <1>7

(* No frame yet. *)
LEMMA DecoderStarts ==
  ASSUME Decoder!Init PROVE GotInv /\ FrameInv
<1>1. /\ lidar \in Lidars /\ sent = 0 /\ odd = {} /\ got = <<>>
      /\ last = (IF lidar.rule \in {"parity", "column"} THEN -1 ELSE 0) /\ lastLast = 0
      /\ raw = <<>> /\ packetNum = 0 /\ frame = <<>> /\ done = <<>>
  BY DEF Decoder!Init
<1>2. <<>> \in Seq(Nat) /\ Len(<<>>) = 0
  OBVIOUS
<1>3. GotInv
  BY <1>1, <1>2 DEF GotInv
<1>4. Decoder!Accepted = Without(got, odd)
  BY DEF Decoder!Accepted, Without
<1>5. Decoder!Accepted = <<>>
  BY <1>1, <1>4, WithoutNone
<1>6. <<>> = <<>> \o (<<>> \o <<>>)
  BY <1>2, ConcatEmptySeq
<1>7. \E pre \in Seq(Nat) : Decoder!Accepted = pre \o (done \o frame)
  BY <1>1, <1>2, <1>5, <1>6
<1>8. FrameInv
  BY <1>1, <1>2, <1>7 DEF FrameInv
<1> QED
  BY <1>3, <1>8

(* A lost packet, and a timeout, which may end the frame. *)
LEMMA LoseKeepsFrame ==
  ASSUME GotInv, FrameInv, Decoder!Lose PROVE GotInv' /\ FrameInv'
<1>1. /\ sent' = sent + 1
      /\ UNCHANGED <<lidar, odd, got, last, lastLast, raw, packetNum, frame, done>>
  BY DEF Decoder!Lose, Decoder!frames
<1>2. GotInv'
  BY <1>1 DEF GotInv
<1>3. Decoder!Accepted' = Decoder!Accepted
  BY <1>1 DEF Decoder!Accepted
<1>4. FrameInv'
  BY <1>1, <1>3 DEF FrameInv
<1> QED
  BY <1>2, <1>4

LEMMA TimeoutKeepsFrame ==
  ASSUME GotInv, FrameInv, Decoder!Timeout PROVE GotInv' /\ FrameInv'
<1>1. /\ got # <<>>
      /\ UNCHANGED <<lidar, sent, odd, got, last, lastLast, raw>>
      /\ \/ done' = frame /\ frame' = <<>> /\ packetNum' = 0
         \/ UNCHANGED <<packetNum, frame, done>>
  BY DEF Decoder!Timeout, Decoder!frames
<1>2. GotInv'
  BY <1>1 DEF GotInv
<1>3. Decoder!Accepted' = Decoder!Accepted
  BY <1>1 DEF Decoder!Accepted
<1>4. CASE UNCHANGED <<packetNum, frame, done>>
  BY <1>1, <1>2, <1>3, <1>4 DEF FrameInv
<1>5. CASE done' = frame /\ frame' = <<>> /\ packetNum' = 0
  <2> DEFINE acc == Decoder!Accepted
  <2>1. PICK pre \in Seq(Nat) : acc = pre \o (done \o frame)
    BY DEF FrameInv
  <2>2. acc' = acc
    BY <1>3
  <2> HIDE DEF acc
  <2>3. /\ raw \in Seq(Nat) /\ frame \in Seq(Nat) /\ done \in Seq(Nat)
        /\ got # <<>> => raw # <<>>
    BY DEF FrameInv
  <2>4. Len(raw) \in Nat /\ Len(<<>>) = 0 /\ <<>> \in Seq(Nat)
    BY <2>3, LenProperties
  <2>5. frame \o <<>> = frame
    BY <2>3, ConcatEmptySeq
  <2>6. pre \o done \in Seq(Nat)
    BY <2>3, ConcatProperties
  <2>7. pre \o (done \o frame) = (pre \o done) \o frame
    <3>1. Regroups(pre, done, frame)
      BY <2>3, PartsRegrouped
    <3> QED
      BY <3>1 DEF Regroups
  <2>8. \E q \in Seq(Nat) : acc' = q \o (done' \o frame')
    BY <1>5, <2>1, <2>2, <2>5, <2>6, <2>7
  <2>9. /\ raw' \in Seq(Nat) /\ frame' \in Seq(Nat) /\ done' \in Seq(Nat)
        /\ packetNum' = Len(frame') /\ packetNum' <= Len(raw')
        /\ got' # <<>> /\ raw' # <<>>
    BY <1>1, <1>5, <2>3, <2>4
  <2>10. FrameInv'
    BY <2>8, <2>9 DEF FrameInv, acc
  <2> QED
    BY <1>2, <2>10
<1> QED
  BY <1>1, <1>2, <1>4, <1>5

(* Every step of the decoder keeps them. *)
LEMMA DecoderKeepsFrame ==
  ASSUME OddIsInside, GotInv, FrameInv, Decoder!Next PROVE GotInv' /\ FrameInv'
<1>1. CASE Decoder!Lose
  BY <1>1, LoseKeepsFrame
<1>2. CASE Decoder!Timeout
  BY <1>2, TimeoutKeepsFrame
<1>3. CASE Decoder!Packet
  <2>1. PICK p \in Nat \ {0}, fits \in BOOLEAN :
          Decoder!Deliver(p, fits) /\ \A i \in 1 .. Len(got) : got[i] # p
    BY <1>3, PacketIsNew
  <2>2. GotInv'
    BY <2>1, PacketGiven
  <2>3. FrameInv'
    BY <2>1, DeliverKeepsFrame
  <2> QED
    BY <2>2, <2>3
<1> QED
  BY <1>1, <1>2, <1>3 DEF Decoder!Next

(* Each accepted packet is computed once, in order (PacketsComputedOnce of  *)
(* DecodePacket and Run): the last frame handed on and the frame that grows *)
(* are the end of what was accepted, whatever is lost, late or of another   *)
(* size inside a frame, for any lidars and bounds.                         *)
THEOREM PacketsOnce == OddIsInside => (Spec => []PacketsComputedOnce)
<1> SUFFICES ASSUME OddIsInside PROVE Spec => []PacketsComputedOnce
  OBVIOUS
<1> DEFINE Inv == part = "frames" => GotInv /\ FrameInv
<1>1. Init => Inv
  <2> SUFFICES ASSUME Init, part = "frames" PROVE GotInv /\ FrameInv
    OBVIOUS
  <2>1. Decoder!Init
    BY DEF Init
  <2> QED
    BY <2>1, DecoderStarts
<1>2. Inv /\ [Next]_vars => Inv'
  <2> SUFFICES ASSUME Inv, [Next]_vars, (part = "frames")' PROVE GotInv' /\ FrameInv'
    OBVIOUS
  <2>1. part = "frames" /\ GotInv /\ FrameInv
    BY DEF Next, OfSerial, OfTcp, OfPcap, OfDecoder, OfClouds, vars
  <2>2. CASE OfDecoder(Decoder!Next)
    <3>1. Decoder!Next
      BY <2>2 DEF OfDecoder
    <3> QED
      BY <2>1, <3>1, DecoderKeepsFrame
  <2>3. CASE UNCHANGED vars
    <3>1. UNCHANGED <<lidar, sent, odd, got, last, lastLast, raw, packetNum, frame, done>>
      BY <2>3 DEF vars, varsSent, varsGot, varsFrames, varsPacketNum
    <3>2. Decoder!Accepted' = Decoder!Accepted
      BY <3>1 DEF Decoder!Accepted
    <3>3. GotInv'
      BY <2>1, <3>1 DEF GotInv
    <3>4. FrameInv'
      BY <2>1, <3>1, <3>2 DEF FrameInv
    <3> QED
      BY <3>3, <3>4
  <2> QED
    BY <2>1, <2>2, <2>3 DEF Next, OfSerial, OfTcp, OfPcap, OfClouds
<1>3. Inv => PacketsComputedOnce
  <2> SUFFICES ASSUME GotInv, FrameInv PROVE Decoder!PacketsComputedOnce
    BY DEF PacketsComputedOnce
  <2>1. PICK pre \in Seq(Nat) : Decoder!Accepted = pre \o (done \o frame)
    BY DEF FrameInv
  <2>2. done \o frame \in Seq(Nat)
    BY ConcatProperties DEF FrameInv
  <2>3. Decoder!IsSuffix(done \o frame, pre \o (done \o frame))
    BY <2>2, EndIsSuffix
  <2> QED
    BY <2>1, <2>3 DEF Decoder!PacketsComputedOnce
<1> QED
  BY <1>1, <1>2, <1>3, PTL DEF Spec

-----------------------------------------------------------------------------
(* How far a sequence number that wraps has moved is how many packets went  *)
(* by, if they are fewer than the numbers there are.                       *)
LEMMA WrappedStep ==
  ASSUME NEW a \in Nat, NEW g \in Nat, NEW N \in Nat \ {0}, g < N
  PROVE  /\ (a + g) % N >= a % N => ((a + g) % N) - (a % N) = g
         /\ (a + g) % N < a % N => N - (a % N) + ((a + g) % N) = g
<1> DEFINE s == a % N
           t == (a + g) % N
           q == a \div N
           r == (a + g) \div N
<1>1. s \in 0 .. N-1 /\ q \in Int /\ a = N * q + s
  OBVIOUS
<1>2. t \in 0 .. N-1 /\ r \in Int /\ a + g = N * r + t
  OBVIOUS
<1> HIDE DEF s, t, q, r
<1> DEFINE d == r - q
<1>3. d \in Int /\ N * d = g + s - t
  <2>1. N * (r - q) = N * r - N * q
    BY <1>1, <1>2
  <2>2. N * r \in Int /\ N * q \in Int
    BY <1>1, <1>2
  <2> QED
    BY <1>1, <1>2, <2>1, <2>2
<1> HIDE DEF d
<1>4. /\ d >= 1 => N * d >= N
      /\ d >= 2 => N * d >= 2 * N
      /\ d <= -1 => N * d <= -N
      /\ d = 0 => N * d = 0
      /\ d = 1 => N * d = N
  BY <1>3
<1>5. ASSUME t >= s PROVE t - s = g
  <2>1. N * d > -N /\ N * d < N
    BY <1>1, <1>2, <1>3, <1>5
  <2>2. d = 0
    BY <1>3, <1>4, <2>1
  <2> QED
    BY <1>1, <1>2, <1>3, <1>4, <2>2
<1>6. ASSUME t < s PROVE N - s + t = g
  <2>1. N * d > 0 /\ N * d < 2 * N
    BY <1>1, <1>2, <1>3, <1>6
  <2>2. d = 1
    BY <1>3, <1>4, <2>1
  <2> QED
    BY <1>1, <1>2, <1>3, <1>4, <2>2
<1> QED
  BY <1>5, <1>6 DEF s, t

(* Where the clock of a lidar stands at a packet, and the packets that came *)
(* right behind the one before them although it went back there.           *)
StampOf(l, p) == 2 * p - 5 * Cardinality(l.setBack \cap 1 .. p)
BackOf(l, g) ==
  {i \in 2 .. Len(g) : g[i] = g[i-1] + 1 /\ StampOf(l, g[i]) <= StampOf(l, g[i-1])}

(* What the losses, and the clock, are counted from.                       *)
LossInv ==
  /\ loss \in [init : BOOLEAN, seq : Nat, lost : Int, all : Int, now : BOOLEAN]
  /\ got = <<>> => ~loss.init /\ loss.all = 0 /\ loss.lost = 0
  /\ got # <<>> => /\ loss.init /\ loss.seq = Decoder!Seqnum(got[Len(got)])
                   /\ loss.all = got[Len(got)] - got[1]
                   /\ loss.lost = loss.all - Len(got) + 1
                   /\ sent - got[Len(got)] <= MaxRun
TimeInv ==
  /\ time \in [init : BOOLEAN, stamp : Int, lost : Nat]
  /\ got = <<>> => ~time.init /\ time.lost = 0
  /\ got # <<>> =>
       /\ time.init
       /\ lidar.timeLossContinues \/ time.lost = 0 => time.stamp = StampOf(lidar, got[Len(got)])
       /\ lidar.timeLossContinues => time.lost = Cardinality(BackOf(lidar, got))
       /\ time.lost = 0 <=> BackOf(lidar, got) = {}

(* The clock is a number. *)
LEMMA StampTyped ==
  ASSUME NEW l, NEW p \in Nat PROVE StampOf(l, p) \in Int
<1>1. IsFiniteSet(1 .. p)
  BY FS_Interval
<1>2. l.setBack \cap 1 .. p \in SUBSET (1 .. p)
  OBVIOUS
<1>3. Cardinality(l.setBack \cap 1 .. p) \in Nat
  BY <1>1, <1>2, FS_Subset, FS_CardinalityType
<1> QED
  BY <1>3 DEF StampOf

(* The first packet is behind none. *)
LEMMA BackOfOne ==
  ASSUME NEW l, NEW p \in Nat PROVE BackOf(l, <<p>>) = {}
<1>1. 2 .. Len(<<p>>) = {}
  OBVIOUS
<1> QED
  BY <1>1 DEF BackOf

(* A packet that follows. *)
LEMMA BackOfGrows ==
  ASSUME NEW l, NEW g \in Seq(Nat), g # <<>>, NEW p \in Nat
  PROVE  LET behind == p = g[Len(g)] + 1 /\ StampOf(l, p) <= StampOf(l, g[Len(g)])
             more == BackOf(l, Append(g, p))
         IN /\ IsFiniteSet(BackOf(l, g)) /\ Cardinality(BackOf(l, g)) \in Nat
            /\ more = {} <=> BackOf(l, g) = {} /\ ~behind
            /\ Cardinality(more) = Cardinality(BackOf(l, g)) + (IF behind THEN 1 ELSE 0)
<1> DEFINE n == Len(g)
           h == Append(g, p)
           behind == p = g[n] + 1 /\ StampOf(l, p) <= StampOf(l, g[n])
           more == BackOf(l, h)
           back == BackOf(l, g)
<1>1. n \in Nat /\ n >= 1
  BY EmptySeq, LenProperties
<1>2. Len(h) = n + 1 /\ h[n+1] = p /\ \A i \in 1 .. n : h[i] = g[i]
  BY AppendProperties
<1>3. back = {i \in 2 .. n : g[i] = g[i-1] + 1 /\ StampOf(l, g[i]) <= StampOf(l, g[i-1])}
  BY DEF BackOf
<1>4. more = {i \in 2 .. Len(h) : h[i] = h[i-1] + 1 /\ StampOf(l, h[i]) <= StampOf(l, h[i-1])}
  BY DEF BackOf
<1> HIDE DEF n, h, more, back
<1>5. IsFiniteSet(back)
  <2>1. IsFiniteSet(2 .. n) /\ back \in SUBSET (2 .. n)
    BY <1>1, <1>3, FS_Interval
  <2> QED
    BY <2>1, FS_Subset
<1>6. n + 1 \notin back
  BY <1>1, <1>3
<1>7. more = IF behind THEN back \cup {n + 1} ELSE back
  <2>1. \A i \in 2 .. n : i \in more <=> i \in back
    <3> SUFFICES ASSUME NEW i \in 2 .. n PROVE i \in more <=> i \in back
      OBVIOUS
    <3>1. i \in 1 .. n /\ i - 1 \in 1 .. n /\ i \in 2 .. n + 1
      BY <1>1
    <3>2. h[i] = g[i] /\ h[i-1] = g[i-1]
      BY <1>2, <3>1
    <3> QED
      BY <1>2, <1>3, <1>4, <3>1, <3>2
  <2>2. n + 1 \in more <=> behind
    <3>1. n + 1 \in 2 .. n + 1 /\ (n + 1) - 1 = n /\ n \in 1 .. n
      BY <1>1
    <3>2. h[n+1] = p /\ h[(n+1)-1] = g[n]
      BY <1>2, <3>1
    <3> QED
      BY <1>2, <1>4, <3>1, <3>2
  <2>3. more \subseteq 2 .. n + 1 /\ back \subseteq 2 .. n
    BY <1>2, <1>3, <1>4
  <2>4. \A i \in 2 .. n + 1 : i \in 2 .. n \/ i = n + 1
    BY <1>1
  <2> HIDE DEF behind
  <2>5. ASSUME behind PROVE more = back \cup {n + 1}
    BY <2>1, <2>2, <2>3, <2>4, <2>5
  <2>6. ASSUME ~behind PROVE more = back
    BY <1>6, <2>1, <2>2, <2>3, <2>4, <2>6
  <2> QED
    BY <2>5, <2>6
<1>8. Cardinality(back) \in Nat
  BY <1>5, FS_CardinalityType
<1>9. Cardinality(more) = Cardinality(back) + (IF behind THEN 1 ELSE 0)
  <2> HIDE DEF behind
  <2>1. Cardinality(back \cup {n + 1}) = Cardinality(back) + 1
    BY <1>5, <1>6, FS_AddElement
  <2> QED
    BY <1>7, <1>8, <2>1
<1>10. more = {} <=> back = {} /\ ~behind
  <2> HIDE DEF behind
  <2> QED
    BY <1>7
<1> QED
  BY <1>5, <1>8, <1>9, <1>10 DEF n, h, more, back

(* One more packet in order: the sequence number moved as far as the packet *)
(* is behind the last, so that CalPktLoss counts what lies between.        *)
LEMMA LossesCounted ==
  ASSUME MaxRun < SeqMax, GotInv, LossInv, NEW fits \in BOOLEAN, Decoder!Deliver(sent + 1, fits)
  PROVE  /\ LossInv'
         /\ got # <<>> => (Decoder!CalPktLoss(Decoder!Seqnum(sent + 1)).now <=> sent + 1 # got[Len(got)] + 1)
<1> DEFINE p == sent + 1
           n == Len(got)
           N == SeqMax + 1
<1>1. sent \in Nat /\ got \in Seq(Nat) /\ \A i \in 1 .. n : got[i] \in 1 .. sent
  BY DEF GotInv
<1>2. SeqMax \in Nat /\ MaxRun \in Nat /\ N \in Nat \ {0}
  BY DecoderParameters DEF Decoder!DecoderAssumption
<1>3. /\ got' = Append(got, p) /\ sent' = (IF p > sent THEN p ELSE sent)
      /\ loss' = Decoder!CalPktLoss(Decoder!Seqnum(p))
  BY DEF Decoder!Deliver
<1>4. sent' = p /\ p \in Nat
  BY <1>1, <1>3
<1>5. n \in Nat /\ got' # <<>> /\ Len(got') = n + 1 /\ got'[n+1] = p /\ \A i \in 1 .. n : got'[i] = got[i]
  BY <1>1, <1>3, <1>4, LenProperties, AppendProperties
<1>6. /\ loss \in [init : BOOLEAN, seq : Nat, lost : Int, all : Int, now : BOOLEAN]
      /\ got = <<>> => ~loss.init /\ loss.all = 0 /\ loss.lost = 0
      /\ got # <<>> => /\ loss.init /\ loss.seq = Decoder!Seqnum(got[n])
                       /\ loss.all = got[n] - got[1]
                       /\ loss.lost = loss.all - n + 1
                       /\ sent - got[n] <= MaxRun
  BY DEF LossInv
<1> DEFINE seq == Decoder!Seqnum(p)
<1>7. seq = p % N /\ seq \in Nat
  BY <1>2, <1>4 DEF Decoder!Seqnum
<1> HIDE DEF p, n, N, seq
<1>8. CASE got = <<>>
  <2>1. n = 0
    BY <1>8 DEF n
  <2>2. loss' = [loss EXCEPT !.init = TRUE, !.seq = seq, !.now = FALSE]
    BY <1>3, <1>6, <1>8 DEF Decoder!CalPktLoss, seq
  <2>3. /\ loss' \in [init : BOOLEAN, seq : Nat, lost : Int, all : Int, now : BOOLEAN]
        /\ loss'.init /\ loss'.seq = seq /\ loss'.all = 0 /\ loss'.lost = 0
    BY <1>6, <1>7, <1>8, <2>2
  <2>4. got'[1] = p /\ Len(got') = 1
    BY <1>5, <2>1
  <2>5. got'[Len(got')] = p /\ got'[Len(got')] - got'[1] = 0 /\ sent' - got'[Len(got')] <= MaxRun
    BY <1>2, <1>4, <2>4
  <2>6. loss'.seq = Decoder!Seqnum(got'[Len(got')]) /\ loss'.lost = loss'.all - Len(got') + 1
    BY <2>3, <2>4, <2>5 DEF seq, p
  <2>7. LossInv'
    BY <1>5, <2>3, <2>5, <2>6 DEF LossInv, Decoder!Seqnum
  <2> QED
    BY <1>8, <2>7
<1>9. CASE got # <<>>
  <2> DEFINE a == got[n]
             g == p - a
  <2>1. n >= 1 /\ 1 \in 1 .. n /\ n \in 1 .. n
    BY <1>1, <1>5, <1>9, EmptySeq DEF n
  <2>2. a \in Nat /\ a <= sent /\ got[1] \in Nat
    BY <1>1, <2>1
  <2>14. sent - a <= MaxRun
    BY <1>6, <1>9
  <2> HIDE DEF a
  <2>3. g \in Nat /\ 1 <= g /\ g < N /\ p = a + g
    BY <1>1, <1>2, <2>2, <2>14 DEF p, N
  <2>4. loss.seq = a % N
    BY <1>2, <1>6, <1>9, <2>2 DEF Decoder!Seqnum, N, a
  <2> HIDE DEF g
  <2>5. /\ (a + g) % N >= a % N => ((a + g) % N) - (a % N) = g
        /\ (a + g) % N < a % N => N - (a % N) + ((a + g) % N) = g
    BY <1>2, <2>2, <2>3, WrappedStep
  <2> DEFINE diff == IF seq >= loss.seq THEN seq - loss.seq ELSE SeqMax - loss.seq + seq + 1
  <2>6. diff = g
    <3>1. CASE seq >= loss.seq
      BY <1>7, <2>3, <2>4, <2>5, <3>1
    <3>2. CASE ~(seq >= loss.seq)
      <4>1. loss.seq \in Nat /\ seq < loss.seq
        BY <1>6, <1>7, <3>2
      <4>2. N - loss.seq + seq = g
        BY <1>7, <2>3, <2>4, <2>5, <4>1
      <4>3. N = SeqMax + 1
        BY DEF N
      <4> QED
        BY <1>2, <1>7, <3>2, <4>1, <4>2, <4>3
    <3> QED
      BY <3>1, <3>2
  <2>7. loss' = [loss EXCEPT !.seq = seq, !.all = @ + diff, !.now = diff > 1,
                             !.lost = @ + (IF diff > 1 THEN diff - 1 ELSE 0)]
    BY <1>3, <1>6, <1>9 DEF Decoder!CalPktLoss, seq
  <2> HIDE DEF diff
  <2>8. /\ loss' \in [init : BOOLEAN, seq : Nat, lost : Int, all : Int, now : BOOLEAN]
        /\ loss'.init /\ loss'.seq = seq /\ loss'.all = loss.all + g
        /\ loss'.lost = loss.lost + g - 1 /\ (loss'.now <=> g > 1)
    <3> DEFINE all == loss.all + diff
               more == diff > 1
               lost == loss.lost + (IF diff > 1 THEN diff - 1 ELSE 0)
    <3>1. loss' = [[[[loss EXCEPT !.seq = seq] EXCEPT !.all = all] EXCEPT !.now = more] EXCEPT !.lost = lost]
      BY <2>7
    <3>2. loss.all \in Int /\ loss.lost \in Int /\ loss.init
      BY <1>6, <1>9
    <3>3. all \in Int /\ all = loss.all + g
      BY <2>3, <2>6, <3>2
    <3>4. lost \in Int /\ lost = loss.lost + g - 1
      BY <2>3, <2>6, <3>2
    <3>5. more \in BOOLEAN /\ (more <=> g > 1)
      BY <2>6
    <3> HIDE DEF all, lost, more
    <3>6. loss' \in [init : BOOLEAN, seq : Nat, lost : Int, all : Int, now : BOOLEAN]
      BY <1>6, <1>7, <3>1, <3>3, <3>4, <3>5
    <3>7. loss'.init /\ loss'.seq = seq /\ loss'.all = all /\ loss'.lost = lost /\ (loss'.now <=> more)
      BY <1>6, <3>1, <3>2
    <3> QED
      BY <3>3, <3>4, <3>5, <3>6, <3>7
  <2>9. got'[1] = got[1]
    BY <1>5, <2>1
  <2>10. /\ loss.all \in Int /\ loss.lost \in Int
         /\ loss.all = a - got[1] /\ loss.lost = loss.all - n + 1
    BY <1>6, <1>9 DEF a
  <2>11. loss'.all = p - got'[1] /\ loss'.lost = loss'.all - (n + 1) + 1
    <3>1. loss'.all = loss.all + g /\ loss'.lost = loss.lost + g - 1
      BY <2>8
    <3>2. loss.all + g = p - got[1]
      BY <2>2, <2>3, <2>10
    <3>3. loss.lost + g - 1 = (loss.all + g) - (n + 1) + 1
      BY <1>5, <2>3, <2>10
    <3> QED
      BY <2>9, <3>1, <3>2, <3>3
  <2>12. LossInv'
    BY <1>2, <1>4, <1>5, <2>8, <2>11 DEF LossInv, seq, Decoder!Seqnum
  <2>13. loss'.now <=> p # a + 1
    BY <2>2, <2>3, <2>8
  <2> QED
    BY <1>3, <2>12, <2>13 DEF a, p, n, seq
<1> QED
  BY <1>8, <1>9

(* And the clock is compared with that of the packet right before.         *)
LEMMA ClockCompared ==
  ASSUME MaxRun < SeqMax, GotInv, LossInv, TimeInv, NEW fits \in BOOLEAN,
         Decoder!Deliver(sent + 1, fits)
  PROVE  TimeInv'
<1> DEFINE p == sent + 1
           n == Len(got)
           now == Decoder!CalPktLoss(Decoder!Seqnum(p)).now
           stamp == StampOf(lidar, p)
<1>1. sent \in Nat /\ got \in Seq(Nat) /\ \A i \in 1 .. n : got[i] \in 1 .. sent
  BY DEF GotInv
<1>2. lidar \in Lidars /\ lidar.timeLossContinues \in BOOLEAN
  BY DecoderParameters DEF Decoder!DecoderAssumption, GotInv
<1>3. /\ lidar' = lidar /\ got' = Append(got, p)
      /\ time' = Decoder!CalPktTimeLoss(Decoder!Stamp(p), now)
  BY DEF Decoder!Deliver
<1>4. Decoder!Stamp(p) = stamp
  BY DEF Decoder!Stamp, StampOf, Decoder!Cardinality, Cardinality
<1>5. n \in Nat /\ p \in Nat /\ got' # <<>> /\ Len(got') = n + 1 /\ got'[n+1] = p
  BY <1>1, <1>3, LenProperties, AppendProperties
<1>6. /\ time \in [init : BOOLEAN, stamp : Int, lost : Nat]
      /\ got = <<>> => ~time.init /\ time.lost = 0
      /\ got # <<>> =>
           /\ time.init
           /\ lidar.timeLossContinues \/ time.lost = 0 => time.stamp = StampOf(lidar, got[n])
           /\ lidar.timeLossContinues => time.lost = Cardinality(BackOf(lidar, got))
           /\ time.lost = 0 <=> BackOf(lidar, got) = {}
  BY DEF TimeInv
<1>7. stamp \in Int
  BY <1>5, StampTyped
<1>8. got # <<>> => (now <=> p # got[n] + 1)
  BY LossesCounted
<1> DEFINE back == BackOf(lidar, got)
           more == BackOf(lidar, got')
<1> HIDE DEF p, n, now, stamp, back, more
<1> DEFINE Kept == /\ time' \in [init : BOOLEAN, stamp : Int, lost : Nat]
                   /\ time'.init
                   /\ lidar.timeLossContinues \/ time'.lost = 0 => time'.stamp = stamp
                   /\ lidar.timeLossContinues => time'.lost = Cardinality(more)
                   /\ time'.lost = 0 <=> more = {}
<1>9. SUFFICES Kept
  BY <1>3, <1>5 DEF TimeInv, stamp, more
<1>10. CASE got = <<>>
  <2>1. got' = <<p>>
    BY <1>3, <1>10
  <2>2. more = {} /\ Cardinality(more) = 0
    BY <1>5, <2>1, BackOfOne, FS_EmptySet DEF more
  <2>3. time' = [time EXCEPT !.init = TRUE, !.stamp = stamp]
    BY <1>3, <1>4, <1>6, <1>10 DEF Decoder!CalPktTimeLoss
  <2>4. /\ time' \in [init : BOOLEAN, stamp : Int, lost : Nat]
        /\ time'.init /\ time'.lost = 0 /\ time'.stamp = stamp
    BY <1>6, <1>7, <1>10, <2>3
  <2> QED
    BY <2>2, <2>4
<1>11. CASE got # <<>>
  <2> DEFINE behind == p = got[n] + 1 /\ stamp <= StampOf(lidar, got[n])
  <2>1. /\ IsFiniteSet(back) /\ Cardinality(back) \in Nat
        /\ more = {} <=> back = {} /\ ~behind
        /\ Cardinality(more) = Cardinality(back) + (IF behind THEN 1 ELSE 0)
    BY <1>1, <1>3, <1>5, <1>11, BackOfGrows DEF n, stamp, back, more
  <2>2. back = {} <=> Cardinality(back) = 0
    BY <2>1, FS_EmptySet
  <2>3. CASE ~lidar.timeLossContinues /\ time.lost # 0
    <3>1. time' = time
      BY <1>3, <2>3 DEF Decoder!CalPktTimeLoss
    <3>2. back # {}
      BY <1>6, <1>11, <2>3 DEF back
    <3>3. more # {}
      BY <2>1, <3>2
    <3> QED
      BY <1>6, <1>11, <2>3, <3>1, <3>3
  <2>4. CASE lidar.timeLossContinues \/ time.lost = 0
    <3>1. time.stamp = StampOf(lidar, got[n]) /\ time.init
      BY <1>6, <1>11, <2>4
    <3>2. time' = [time EXCEPT !.stamp = stamp,
                               !.lost = @ + (IF ~now /\ stamp <= time.stamp THEN 1 ELSE 0)]
      BY <1>2, <1>3, <1>4, <2>4, <3>1 DEF Decoder!CalPktTimeLoss
    <3>3. ~now /\ stamp <= time.stamp <=> behind
      BY <1>8, <1>11, <3>1
    <3> HIDE DEF behind
    <3>4. /\ time' \in [init : BOOLEAN, stamp : Int, lost : Nat]
          /\ time'.init /\ time'.stamp = stamp
          /\ time'.lost = time.lost + (IF behind THEN 1 ELSE 0)
      <4> DEFINE lost == time.lost + (IF ~now /\ stamp <= time.stamp THEN 1 ELSE 0)
      <4>1. time' = [[time EXCEPT !.stamp = stamp] EXCEPT !.lost = lost]
        BY <3>2
      <4>2. lost \in Nat /\ lost = time.lost + (IF behind THEN 1 ELSE 0)
        BY <1>6, <3>3
      <4> HIDE DEF lost
      <4>3. time' \in [init : BOOLEAN, stamp : Int, lost : Nat]
        BY <1>6, <1>7, <4>1, <4>2
      <4>4. time'.init /\ time'.stamp = stamp /\ time'.lost = lost
        BY <1>6, <3>1, <4>1
      <4> QED
        BY <4>2, <4>3, <4>4
    <3>5. time.lost \in Nat /\ (time.lost = 0 <=> back = {})
      BY <1>6, <1>11 DEF back
    <3>6. time'.lost = 0 <=> more = {}
      BY <2>1, <3>4, <3>5
    <3>7. lidar.timeLossContinues => time'.lost = Cardinality(more)
      <4>1. lidar.timeLossContinues => time.lost = Cardinality(back)
        BY <1>6, <1>11 DEF back
      <4> QED
        BY <2>1, <3>4, <4>1
    <3> QED
      BY <3>4, <3>6, <3>7
  <2> QED
    BY <1>2, <2>3, <2>4
<1> QED
  BY <1>10, <1>11

(* Every step of the decoder keeps the counts.                             *)
LEMMA DecoderKeepsCounts ==
  ASSUME InOrder, MaxRun < SeqMax, GotInv, LossInv, TimeInv, Decoder!Next
  PROVE  GotInv' /\ LossInv' /\ TimeInv'
<1>1. CASE Decoder!Lose
  <2>1. /\ sent' = sent + 1 /\ got # <<>> /\ sent - got[Len(got)] < MaxRun
        /\ UNCHANGED <<lidar, odd, got, loss, time>>
    BY <1>1 DEF Decoder!Lose, Decoder!Last
  <2>2. sent \in Nat /\ got[Len(got)] \in Nat /\ MaxRun \in Nat
    <3>1. Len(got) \in 1 .. Len(got)
      BY <2>1, EmptySeq, LenProperties DEF GotInv
    <3>2. sent \in Nat /\ got[Len(got)] \in 1 .. sent
      BY <3>1 DEF GotInv
    <3>3. MaxRun \in Nat
      BY DecoderParameters DEF Decoder!DecoderAssumption
    <3> QED
      BY <3>2, <3>3
  <2>3. sent' - got[Len(got)] <= MaxRun
    BY <2>1, <2>2
  <2>4. GotInv'
    BY <2>1 DEF GotInv
  <2>5. LossInv'
    BY <2>1, <2>3 DEF LossInv, Decoder!Seqnum
  <2>6. TimeInv'
    BY <2>1 DEF TimeInv, StampOf, BackOf
  <2> QED
    BY <2>4, <2>5, <2>6
<1>2. CASE Decoder!Timeout
  <2>1. UNCHANGED <<lidar, sent, odd, got, loss, time>>
    BY <1>2 DEF Decoder!Timeout
  <2>2. GotInv'
    BY <2>1 DEF GotInv
  <2>3. LossInv'
    BY <2>1 DEF LossInv, Decoder!Seqnum
  <2>4. TimeInv'
    BY <2>1 DEF TimeInv, StampOf, BackOf
  <2> QED
    BY <2>2, <2>3, <2>4
<1>3. CASE Decoder!Packet
  <2>1. PICK p \in Nat \ {0}, fits \in BOOLEAN :
          /\ Decoder!Deliver(p, fits)
          /\ \A i \in 1 .. Len(got) : got[i] # p
          /\ p = sent + 1
    BY <1>3, PacketIsNew
  <2>2. GotInv'
    BY <2>1, PacketGiven
  <2>3. LossInv'
    BY <2>1, LossesCounted
  <2>4. TimeInv'
    BY <2>1, ClockCompared
  <2> QED
    BY <2>2, <2>3, <2>4
<1> QED
  BY <1>1, <1>2, <1>3 DEF Decoder!Next

(* They say what CountsExact says. *)
LEMMA CountsFollow ==
  ASSUME GotInv, LossInv, TimeInv PROVE Decoder!CountsExact
<1> DEFINE back == {i \in 2 .. Len(got) : got[i] = got[i-1] + 1
                                          /\ Decoder!Stamp(got[i]) <= Decoder!Stamp(got[i-1])}
<1>1. \A p : Decoder!Stamp(p) = StampOf(lidar, p)
  BY DEF Decoder!Stamp, StampOf, Decoder!Cardinality, Cardinality
<1>2. back = BackOf(lidar, got)
  BY <1>1 DEF BackOf
<1>3. Decoder!Cardinality(back) = Cardinality(back)
  BY DEF Decoder!Cardinality, Cardinality
<1> SUFFICES ASSUME got # <<>>
             PROVE  /\ loss.all = Decoder!Last(got) - got[1]
                    /\ loss.lost = loss.all - Len(got) + 1
                    /\ \A i \in back : time.lost > 0
                    /\ time.lost > 0 => back # {}
                    /\ lidar.timeLossContinues => time.lost = Decoder!Cardinality(back)
  BY DEF Decoder!CountsExact
<1> HIDE DEF back
<1>4. /\ loss.all = got[Len(got)] - got[1]
      /\ loss.lost = loss.all - Len(got) + 1
  BY DEF LossInv
<1>5. /\ time.lost \in Nat
      /\ lidar.timeLossContinues => time.lost = Cardinality(back)
      /\ time.lost = 0 <=> back = {}
  BY <1>2 DEF TimeInv
<1> QED
  BY <1>3, <1>4, <1>5 DEF Decoder!Last

(* The losses reported are the packets that did not come, and the times     *)
(* reported are those that went back without a loss (CountsExact of         *)
(* CalPktLoss and CalPktTimeLoss), also across the wrap of the sequence     *)
(* number, as long as the packets come in order and no run of losses is as  *)
(* long as the sequence numbers; for any lidars, clocks and bounds.        *)
THEOREM CountsRight == InOrder /\ MaxRun < SeqMax => (Spec => []CountsExact)
<1> SUFFICES ASSUME InOrder, MaxRun < SeqMax PROVE Spec => []CountsExact
  OBVIOUS
<1> DEFINE Inv == part = "frames" => GotInv /\ LossInv /\ TimeInv
<1>1. Init => Inv
  <2> SUFFICES ASSUME Init, part = "frames" PROVE GotInv /\ LossInv /\ TimeInv
    OBVIOUS
  <2>1. Decoder!Init
    BY DEF Init
  <2>2. GotInv
    BY <2>1, DecoderStarts
  <2>3. /\ got = <<>>
        /\ loss = [init |-> FALSE, seq |-> 0, lost |-> 0, all |-> 0, now |-> FALSE]
        /\ time = [init |-> FALSE, stamp |-> 0, lost |-> 0]
    BY <2>1 DEF Decoder!Init
  <2>4. LossInv
    BY <2>3 DEF LossInv
  <2>5. TimeInv
    BY <2>3 DEF TimeInv
  <2> QED
    BY <2>2, <2>4, <2>5
<1>2. Inv /\ [Next]_vars => Inv'
  <2> SUFFICES ASSUME Inv, [Next]_vars, (part = "frames")' PROVE GotInv' /\ LossInv' /\ TimeInv'
    OBVIOUS
  <2>1. part = "frames" /\ GotInv /\ LossInv /\ TimeInv
    BY DEF Next, OfSerial, OfTcp, OfPcap, OfDecoder, OfClouds, vars
  <2>2. CASE OfDecoder(Decoder!Next)
    <3>1. Decoder!Next
      BY <2>2 DEF OfDecoder
    <3> QED
      BY <2>1, <3>1, DecoderKeepsCounts
  <2>3. CASE UNCHANGED vars
    <3>1. UNCHANGED <<lidar, sent, odd, got, loss, time>>
      BY <2>3 DEF vars, varsSent, varsGot, varsFrames
    <3>2. GotInv'
      BY <2>1, <3>1 DEF GotInv
    <3>3. LossInv'
      BY <2>1, <3>1 DEF LossInv, Decoder!Seqnum
    <3>4. TimeInv'
      BY <2>1, <3>1 DEF TimeInv, StampOf, BackOf
    <3> QED
      BY <3>2, <3>3, <3>4
  <2> QED
    BY <2>1, <2>2, <2>3 DEF Next, OfSerial, OfTcp, OfPcap, OfClouds
<1>3. Inv => CountsExact
  BY CountsFollow DEF CountsExact
<1> QED
  BY <1>1, <1>2, <1>3, PTL DEF Spec

-----------------------------------------------------------------------------
(* Going on by no more than a turn stays in it, or ends in the next.       *)
StaysIn(a, g, n) == (a + g) % n = (a % n) + g /\ (a + g) \div n = a \div n
EntersNext(a, g, n) == (a + g) % n = (a % n) + g - n /\ (a + g) \div n = a \div n + 1

LEMMA RoundTheCircle ==
  ASSUME NEW a \in Int, NEW n \in Nat \ {0}, NEW g \in 0 .. n
  PROVE  /\ a % n \in 0 .. n - 1 /\ a \div n \in Int
         /\ (a % n) + g < n => StaysIn(a, g, n)
         /\ (a % n) + g >= n => EntersNext(a, g, n)
<1> DEFINE s == a % n
           t == (a + g) % n
           q == a \div n
           r == (a + g) \div n
<1>1. s \in 0 .. n - 1 /\ q \in Int /\ a = n * q + s
  OBVIOUS
<1>2. t \in 0 .. n - 1 /\ r \in Int /\ a + g = n * r + t
  OBVIOUS
<1> HIDE DEF s, t, q, r
<1> DEFINE d == r - q
<1>3. d \in Int /\ n * d = g + s - t
  <2>1. n * (r - q) = n * r - n * q
    BY <1>1, <1>2
  <2>2. n * r \in Int /\ n * q \in Int
    BY <1>1, <1>2
  <2> QED
    BY <1>1, <1>2, <2>1, <2>2
<1>4. r = q + d
  BY <1>1, <1>2
<1> HIDE DEF d
<1>5. /\ d >= 1 => n * d >= n
      /\ d >= 2 => n * d >= 2 * n
      /\ d <= -1 => n * d <= -n
      /\ d = 0 => n * d = 0
      /\ d = 1 => n * d = n
  BY <1>3
<1>6. ASSUME s + g < n PROVE t = s + g /\ r = q
  <2>1. n * d > -n /\ n * d < n
    BY <1>1, <1>2, <1>3, <1>6
  <2>2. d = 0
    BY <1>3, <1>5, <2>1
  <2> QED
    BY <1>1, <1>2, <1>3, <1>4, <1>5, <2>2
<1>7. ASSUME s + g >= n PROVE t = s + g - n /\ r = q + 1
  <2>1. n * d > 0 /\ n * d < 2 * n
    BY <1>1, <1>2, <1>3, <1>7
  <2>2. d = 1
    BY <1>3, <1>5, <2>1
  <2> QED
    BY <1>1, <1>2, <1>3, <1>4, <1>5, <2>2
<1> QED
  BY <1>1, <1>6, <1>7 DEF s, t, q, r, StaysIn, EntersNext

(* What keeps two packets that follow each other apart, and together: the   *)
(* lidar moves less than half a turn between them; from field to field the  *)
(* azimuth jumps further than within one; a run of losses is shorter than   *)
(* a frame.                                                                *)
GapsAreShort ==
  \A l \in Lidars :
    /\ l.rule = "azimuth" => 2 * (l.step * (MaxRun + 1)) < Circle
    /\ l.rule = "field" => /\ MaxRun + 1 <= FrameLen /\ MaxRun + 1 <= Tolerance
                           /\ Tolerance + FrameLen < Stride
    /\ l.rule = "parity" => MaxRun + 1 <= FrameLen
    /\ l.rule = "column" => MaxRun + 1 < FrameLen

(* The lidar at hand, and the sizes.                                       *)
LEMMA LidarTyped ==
  ASSUME lidar \in Lidars
  PROVE  /\ lidar.rule \in {"azimuth", "field", "parity", "column"}
         /\ lidar.dir \in {1, -1} /\ lidar.first \in Nat /\ lidar.step \in Nat \ {0}
         /\ lidar.echoes \in Nat \ {0} /\ lidar.frameStart \in 0 .. Circle - 1
         /\ Circle \in Nat \ {0} /\ FrameLen \in Nat \ {0} /\ Stride \in Nat \ {0}
         /\ Tolerance \in Nat \ {0} /\ MaxRun \in Nat
         /\ VoteMax \in Nat \ {0} /\ VoteScale \in Nat \ {0}
BY DecoderParameters DEF Decoder!DecoderAssumption

(* A later packet is g columns on: in the same frame, or in the next.      *)
FramesOn(p, g) ==
  \/ /\ Decoder!Column(p + g) = Decoder!Column(p) + g
     /\ Decoder!FrameOf(p + g) = Decoder!FrameOf(p)
  \/ /\ Decoder!Column(p + g) = Decoder!Column(p) + g - FrameLen
     /\ Decoder!FrameOf(p + g) = Decoder!FrameOf(p) + 1

LEMMA FrameGoesOn ==
  ASSUME lidar \in Lidars, NEW p \in Nat \ {0}, NEW g \in 0 .. FrameLen
  PROVE  /\ Decoder!Column(p) \in 0 .. FrameLen - 1 /\ Decoder!FrameOf(p) \in Int
         /\ Decoder!Column(p + g) \in 0 .. FrameLen - 1
         /\ FramesOn(p, g)
<1> DEFINE a == lidar.first + p - 1
<1>1. a \in Int /\ FrameLen \in Nat \ {0} /\ lidar.first + (p + g) - 1 = a + g /\ a + g \in Int
  BY LidarTyped
<1>2. /\ Decoder!Column(p) = a % FrameLen /\ Decoder!FrameOf(p) = a \div FrameLen
      /\ Decoder!Column(p + g) = (a + g) % FrameLen /\ Decoder!FrameOf(p + g) = (a + g) \div FrameLen
  BY <1>1 DEF Decoder!Column, Decoder!FrameOf
<1> HIDE DEF a
<1>3. /\ a % FrameLen \in 0 .. FrameLen - 1 /\ a \div FrameLen \in Int
      /\ (a % FrameLen) + g < FrameLen => StaysIn(a, g, FrameLen)
      /\ (a % FrameLen) + g >= FrameLen => EntersNext(a, g, FrameLen)
  BY <1>1, RoundTheCircle
<1>4. (a + g) % FrameLen \in 0 .. FrameLen - 1
  BY <1>1
<1>5. CASE (a % FrameLen) + g < FrameLen
  BY <1>1, <1>2, <1>3, <1>4, <1>5 DEF StaysIn, FramesOn
<1>6. CASE (a % FrameLen) + g >= FrameLen
  BY <1>1, <1>2, <1>3, <1>4, <1>6 DEF EntersNext, FramesOn
<1> QED
  BY <1>1, <1>2, <1>3, <1>4, <1>5, <1>6

(* Lidars that count frames or columns: the next packet needs a split when  *)
(* it is of another frame.                                                 *)
LEMMA CountedSplit ==
  ASSUME lidar \in Lidars, GapsAreShort, lidar.rule # "azimuth",
         NEW p \in Nat \ {0}, NEW g \in 1 .. MaxRun + 1, last = Decoder!Key(p)
  PROVE  Decoder!IsNeedFrameSplit(Decoder!Key(p + g)) <=> Decoder!FrameOf(p + g) # Decoder!FrameOf(p)
<1> DEFINE c == Decoder!Column(p)
           d == Decoder!Column(p + g)
           f == Decoder!FrameOf(p)
           h == Decoder!FrameOf(p + g)
<1>1. /\ lidar.rule \in {"field", "parity", "column"} /\ lidar.dir \in {1, -1}
      /\ FrameLen \in Nat \ {0} /\ Stride \in Nat \ {0} /\ Tolerance \in Nat \ {0} /\ MaxRun \in Nat
  BY LidarTyped
<1>2. MaxRun + 1 <= FrameLen
  BY <1>1 DEF GapsAreShort
<1>3. g \in 0 .. FrameLen /\ g \in Nat /\ g >= 1
  BY <1>1, <1>2
<1>4. /\ c \in 0 .. FrameLen - 1 /\ d \in 0 .. FrameLen - 1 /\ f \in Int
      /\ (d = c + g /\ h = f) \/ (d = c + g - FrameLen /\ h = f + 1)
  BY <1>3, FrameGoesOn DEF FramesOn
<1>5. p + g \in Nat \ {0}
  BY <1>3
<1> DEFINE k == Decoder!Key(p + g)
<1>6. /\ lidar.rule = "column" => last = c /\ k = d
      /\ lidar.rule = "parity" => last = f % 2 /\ k = h % 2
      /\ lidar.rule = "field" =>
           /\ last = Stride * (f % 3) + 2 + (IF lidar.dir = 1 THEN c ELSE FrameLen - 1 - c)
           /\ k = Stride * (h % 3) + 2 + (IF lidar.dir = 1 THEN d ELSE FrameLen - 1 - d)
  BY DEF Decoder!Key, Decoder!FirstColumn
<1> HIDE DEF c, d, f, h, k
<1>7. CASE lidar.rule = "column"
  <2>1. g < FrameLen
    BY <1>1, <1>3, <1>7 DEF GapsAreShort
  <2>2. k < last <=> h # f
    BY <1>1, <1>3, <1>4, <1>6, <1>7, <2>1
  <2> QED
    BY <1>7, <2>2 DEF Decoder!IsNeedFrameSplit, k, f, h
<1>8. CASE lidar.rule = "parity"
  <2>1. f % 2 \in 0 .. 1 /\ (f + 1) % 2 # f % 2
    BY <1>4
  <2>2. k # last <=> h # f
    BY <1>4, <1>6, <1>8, <2>1
  <2>3. last >= 0
    BY <1>6, <1>8, <2>1
  <2> QED
    BY <1>8, <2>2, <2>3 DEF Decoder!IsNeedFrameSplit, k, f, h
<1>9. CASE lidar.rule = "field"
  <2>1. g <= Tolerance /\ Tolerance + FrameLen < Stride
    BY <1>1, <1>3, <1>9 DEF GapsAreShort
  <2> DEFINE x == f % 3
             y == h % 3
             X == Stride * x
             Y == Stride * y
  <2>2. /\ x \in 0 .. 2 /\ y \in 0 .. 2
        /\ h = f => y = x
        /\ h = f + 1 => (y = x + 1 \/ (x = 2 /\ y = 0))
    BY <1>4
  <2>3. /\ last = X + 2 + (IF lidar.dir = 1 THEN c ELSE FrameLen - 1 - c)
        /\ k = Y + 2 + (IF lidar.dir = 1 THEN d ELSE FrameLen - 1 - d)
    BY <1>6, <1>9
  <2> HIDE DEF x, y
  <2>4. /\ X \in Nat /\ Y \in Nat
        /\ y = x => Y = X
        /\ y = x + 1 => Y = X + Stride
        /\ x = 2 /\ y = 0 => Y = X - 2 * Stride
    <3>1. x \in {0, 1, 2} /\ y \in {0, 1, 2}
      BY <2>2
    <3>2. \A m \in {0, 1, 2} : Stride * m = (IF m = 0 THEN 0 ELSE IF m = 1 THEN Stride ELSE 2 * Stride)
      BY <1>1
    <3>3. /\ X = (IF x = 0 THEN 0 ELSE IF x = 1 THEN Stride ELSE 2 * Stride)
          /\ Y = (IF y = 0 THEN 0 ELSE IF y = 1 THEN Stride ELSE 2 * Stride)
      BY <3>1, <3>2
    <3> HIDE DEF X, Y
    <3> QED
      BY <1>1, <3>1, <3>3
  <2> HIDE DEF X, Y
  <2>5. last \in Int /\ k \in Int /\ last # 0
    BY <1>1, <1>4, <2>3, <2>4
  <2>6. ASSUME h = f PROVE k - last <= Tolerance /\ last - k <= Tolerance
    BY <1>1, <1>3, <1>4, <2>1, <2>2, <2>3, <2>4, <2>6
  <2>7. ASSUME h = f + 1 PROVE k - last > Tolerance \/ last - k > Tolerance
    <3>1. d = c + g - FrameLen
      BY <1>3, <1>4, <2>7
    <3>2. CASE Y = X + Stride
      BY <1>1, <1>3, <1>4, <2>1, <2>3, <2>4, <3>1, <3>2
    <3>3. CASE Y = X - 2 * Stride
      BY <1>1, <1>3, <1>4, <2>1, <2>3, <2>4, <3>1, <3>3
    <3> QED
      BY <2>2, <2>4, <2>7, <3>2, <3>3
  <2>8. Decoder!Abs(k - last) > Tolerance <=> k - last > Tolerance \/ last - k > Tolerance
    BY <1>1, <2>5 DEF Decoder!Abs
  <2>9. Decoder!Jumps(k) <=> h # f
    BY <1>1, <1>4, <2>5, <2>6, <2>7, <2>8 DEF Decoder!Jumps
  <2> QED
    BY <1>9, <2>9 DEF Decoder!IsNeedFrameSplit, k, f, h
<1> QED
  BY <1>1, <1>7, <1>8, <1>9

-----------------------------------------------------------------------------
(* How far into its turn a rotating lidar is at a packet, and the azimuth   *)
(* there.                                                                  *)
FromStart(p) == lidar.dir * (lidar.first - lidar.frameStart) + Decoder!Moved(p)
Position(p) == FromStart(p) % Circle
AzimuthAt(r) ==
  IF lidar.dir = 1
  THEN IF r + lidar.frameStart < Circle THEN r + lidar.frameStart ELSE r + lidar.frameStart - Circle
  ELSE IF r <= lidar.frameStart THEN lidar.frameStart - r ELSE lidar.frameStart - r + Circle

(* The remainder is the one number below n that is as far from a multiple. *)
LEMMA RemainderIs ==
  ASSUME NEW x \in Int, NEW n \in Nat \ {0}, NEW q \in Int, NEW r \in 0 .. n - 1, x = n * q + r
  PROVE  x % n = r
<1> DEFINE s == x % n
           t == x \div n
<1>1. s \in 0 .. n - 1 /\ t \in Int /\ x = n * t + s
  OBVIOUS
<1> HIDE DEF s, t
<1> DEFINE d == t - q
<1>2. d \in Int /\ n * d = r - s
  <2>1. n * (t - q) = n * t - n * q
    BY <1>1
  <2>2. n * t \in Int /\ n * q \in Int
    BY <1>1
  <2> QED
    BY <1>1, <2>1, <2>2
<1> HIDE DEF d
<1>3. /\ d >= 1 => n * d >= n
      /\ d <= -1 => n * d <= -n
      /\ d = 0 => n * d = 0
  BY <1>2
<1>4. n * d < n /\ n * d > -n
  BY <1>1, <1>2
<1>5. d = 0
  BY <1>2, <1>3, <1>4
<1> QED
  BY <1>1, <1>2, <1>3, <1>5 DEF s

LEMMA MovedOn ==
  ASSUME lidar \in Lidars, NEW p \in Nat \ {0}, NEW g \in 0 .. MaxRun + 1
  PROVE  /\ Decoder!Moved(p) \in Nat /\ Decoder!Moved(p + g) \in Nat
         /\ Decoder!Moved(p + g) - Decoder!Moved(p) \in 0 .. lidar.step * (MaxRun + 1)
<1> DEFINE e == lidar.echoes
           a == (p - 1) \div e
           b == (p + g - 1) \div e
           w == lidar.step
<1>1. e \in Nat \ {0} /\ w \in Nat \ {0} /\ MaxRun \in Nat /\ g \in Nat
  BY LidarTyped
<1>2. Decoder!Moved(p) = a * w /\ Decoder!Moved(p + g) = b * w
  BY <1>1 DEF Decoder!Moved
<1> HIDE DEF e, w
<1>3. p - 1 \in Nat /\ p + g - 1 \in Nat
  BY <1>1
<1>4. a \in Nat /\ b \in Nat /\ (p - 1) % e \in 0 .. e - 1 /\ (p + g - 1) % e \in 0 .. e - 1
      /\ p - 1 = e * a + ((p - 1) % e) /\ p + g - 1 = e * b + ((p + g - 1) % e)
  BY <1>1, <1>3, Divided
<1> HIDE DEF a, b
<1> DEFINE d == b - a
           s == ((p + g - 1) % e) - ((p - 1) % e)
<1>5. d \in Int /\ b = a + d /\ s \in Int /\ s < e /\ s > -e
  BY <1>1, <1>4
<1>6. e * d = g - s
  <2>1. e * (b - a) = e * b - e * a /\ e * b \in Int /\ e * a \in Int
    BY <1>1, <1>4
  <2> DEFINE x == e * b
             y == e * a
             u == (p + g - 1) % e
             v == (p - 1) % e
  <2>2. x \in Int /\ y \in Int /\ u \in Int /\ v \in Int /\ p - 1 = y + v /\ p + g - 1 = x + u
    BY <1>4, <2>1
  <2>3. e * d = x - y
    BY <2>1
  <2> HIDE DEF x, y, u, v, d
  <2>4. e * d = g - (u - v)
    BY <1>1, <2>2, <2>3
  <2> QED
    BY <2>4 DEF u, v
<1> HIDE DEF d, s
<1>7. d >= 0
  <2>1. d <= -1 => e * d <= -e
    BY <1>1, <1>5
  <2> QED
    BY <1>1, <1>5, <1>6, <2>1
<1>8. d <= g
  <2>1. d >= g + 1 => e * d >= e * (g + 1)
    <3> SUFFICES ASSUME d >= g + 1 PROVE e * d >= e * (g + 1)
      OBVIOUS
    <3> DEFINE c == d - g - 1
    <3>1. c \in Nat /\ d = g + 1 + c
      BY <1>1, <1>5
    <3> HIDE DEF c
    <3>2. e * (g + 1 + c) = e * (g + 1) + e * c /\ e * c \in Nat /\ e * (g + 1) \in Nat
      BY <1>1, <3>1
    <3> QED
      BY <3>1, <3>2
  <2>2. e * (g + 1) = e * g + e /\ e * g >= g /\ e * g \in Nat
    BY <1>1
  <2> QED
    BY <1>1, <1>5, <1>6, <2>1, <2>2
<1>9. b * w - a * w = d * w /\ a * w \in Nat /\ b * w \in Nat /\ d * w \in Nat
  BY <1>1, <1>4, <1>5, <1>7
<1>10. d * w <= w * (MaxRun + 1)
  <2> DEFINE c == MaxRun + 1 - d
  <2>1. c \in Nat /\ MaxRun + 1 = d + c
    BY <1>1, <1>5, <1>8
  <2> HIDE DEF c
  <2>2. w * (d + c) = d * w + w * c /\ w * c \in Nat
    BY <1>1, <1>5, <1>7, <2>1
  <2> QED
    BY <1>9, <2>1, <2>2
<1> QED
  BY <1>2, <1>9, <1>10 DEF w

(* What Key and Turn say, by the position.                                 *)
LEMMA AzimuthIs ==
  ASSUME lidar \in Lidars, lidar.rule = "azimuth", NEW p \in Nat \ {0}
  PROVE  /\ FromStart(p) \in Int /\ Position(p) \in 0 .. Circle - 1
         /\ Decoder!Turn(p) = FromStart(p) \div Circle
         /\ Decoder!Key(p) = AzimuthAt(Position(p))
<1> DEFINE m == Decoder!Moved(p)
           s == lidar.frameStart
           f == lidar.first
           q == FromStart(p) \div Circle
           r == Position(p)
<1>1. /\ lidar.dir \in {1, -1} /\ f \in Nat /\ s \in 0 .. Circle - 1 /\ Circle \in Nat \ {0}
      /\ MaxRun \in Nat
  BY LidarTyped
<1>2. m \in Nat
  <2>1. 0 \in 0 .. MaxRun + 1
    BY <1>1
  <2> QED
    BY <2>1, MovedOn
<1>3. FromStart(p) = (IF lidar.dir = 1 THEN f - s + m ELSE s - f + m)
  BY <1>1, <1>2 DEF FromStart
<1>4. FromStart(p) \in Int
  BY <1>1, <1>2, <1>3
<1>5. r \in 0 .. Circle - 1 /\ q \in Int /\ FromStart(p) = Circle * q + r
  BY <1>1, <1>4 DEF Position
<1>6. Decoder!Turn(p) = q
  BY DEF Decoder!Turn, FromStart
<1>7. Decoder!Key(p) = (IF lidar.dir = 1 THEN (f + m) % Circle ELSE (f - m) % Circle)
  BY <1>1, <1>2 DEF Decoder!Key
<1> HIDE DEF m, s, f, q, r
<1> DEFINE z == Circle * q
<1>8. z \in Int /\ Circle * (q + 1) = z + Circle /\ Circle * (-q) = -z /\ Circle * (-q - 1) = -z - Circle
      /\ q + 1 \in Int /\ -q \in Int /\ -q - 1 \in Int
  BY <1>1, <1>5
<1>9. FromStart(p) = z + r
  BY <1>5
<1> HIDE DEF z
<1>10. CASE lidar.dir = 1
  <2>1. f + m = z + r + s /\ f + m \in Int
    BY <1>1, <1>2, <1>3, <1>5, <1>8, <1>9, <1>10
  <2>2. CASE r + s < Circle
    <3>1. r + s \in 0 .. Circle - 1 /\ f + m = Circle * q + (r + s)
      BY <1>1, <1>5, <1>8, <2>1, <2>2 DEF z
    <3>2. (f + m) % Circle = r + s
      BY <1>1, <1>5, <2>1, <3>1, RemainderIs
    <3> QED
      BY <1>4, <1>5, <1>6, <1>7, <1>10, <2>2, <3>2 DEF AzimuthAt, r, q, s
  <2>3. CASE ~(r + s < Circle)
    <3>1. r + s - Circle \in 0 .. Circle - 1 /\ f + m = Circle * (q + 1) + (r + s - Circle)
      BY <1>1, <1>5, <1>8, <2>1, <2>3
    <3>2. (f + m) % Circle = r + s - Circle
      BY <1>1, <1>8, <2>1, <3>1, RemainderIs
    <3> QED
      BY <1>4, <1>5, <1>6, <1>7, <1>10, <2>3, <3>2 DEF AzimuthAt, r, q, s
  <2> QED
    BY <2>2, <2>3
<1>11. CASE lidar.dir = -1
  <2>1. f - m = s - r - z /\ f - m \in Int
    BY <1>1, <1>2, <1>3, <1>5, <1>8, <1>9, <1>11
  <2>2. CASE r <= s
    <3>1. s - r \in 0 .. Circle - 1 /\ f - m = Circle * (-q) + (s - r)
      BY <1>1, <1>5, <1>8, <2>1, <2>2
    <3>2. (f - m) % Circle = s - r
      BY <1>1, <1>8, <2>1, <3>1, RemainderIs
    <3> QED
      BY <1>4, <1>5, <1>6, <1>7, <1>11, <2>2, <3>2 DEF AzimuthAt, r, q, s
  <2>3. CASE ~(r <= s)
    <3>1. s - r + Circle \in 0 .. Circle - 1 /\ f - m = Circle * (-q - 1) + (s - r + Circle)
      BY <1>1, <1>5, <1>8, <2>1, <2>3
    <3>2. (f - m) % Circle = s - r + Circle
      BY <1>1, <1>8, <2>1, <3>1, RemainderIs
    <3> QED
      BY <1>4, <1>5, <1>6, <1>7, <1>11, <2>3, <3>2 DEF AzimuthAt, r, q, s
  <2> QED
    BY <2>2, <2>3
<1> QED
  BY <1>1, <1>10, <1>11

(* A lidar at r that goes on by g.                                         *)
GoneOn(r, g) == IF r + g < Circle THEN r + g ELSE r + g - Circle

LEMMA TurnGoesOn ==
  ASSUME lidar \in Lidars, lidar.rule = "azimuth", NEW p \in Nat \ {0}, NEW q \in Nat \ {0},
         Decoder!Moved(q) - Decoder!Moved(p) \in 0 .. Circle,
         Decoder!Moved(p) \in Nat, Decoder!Moved(q) \in Nat
  PROVE  /\ Position(q) = GoneOn(Position(p), Decoder!Moved(q) - Decoder!Moved(p))
         /\ Decoder!Turn(q) # Decoder!Turn(p)
              <=> Position(p) + (Decoder!Moved(q) - Decoder!Moved(p)) >= Circle
<1> DEFINE g == Decoder!Moved(q) - Decoder!Moved(p)
           x == FromStart(p)
           y == FromStart(q)
<1>1. /\ Circle \in Nat \ {0} /\ g \in 0 .. Circle
  BY LidarTyped
<1>2. /\ x \in Int /\ y \in Int /\ Position(p) \in 0 .. Circle - 1
      /\ Decoder!Turn(p) = x \div Circle /\ Decoder!Turn(q) = y \div Circle
      /\ Position(p) = x % Circle /\ Position(q) = y % Circle
  BY AzimuthIs DEF Position
<1>3. y = x + g
  <2> DEFINE k == lidar.dir * (lidar.first - lidar.frameStart)
  <2>1. k \in Int
    BY LidarTyped
  <2>2. x = k + Decoder!Moved(p) /\ y = k + Decoder!Moved(q)
    BY DEF FromStart
  <2> HIDE DEF k, x, y
  <2> QED
    BY <2>1, <2>2
<1> HIDE DEF g, x, y
<1>4. /\ (x % Circle) + g < Circle => StaysIn(x, g, Circle)
      /\ (x % Circle) + g >= Circle => EntersNext(x, g, Circle)
      /\ x \div Circle \in Int
  BY <1>1, <1>2, RoundTheCircle
<1>5. CASE (x % Circle) + g < Circle
  BY <1>1, <1>2, <1>3, <1>4, <1>5 DEF StaysIn, GoneOn, g
<1>6. CASE (x % Circle) + g >= Circle
  BY <1>1, <1>2, <1>3, <1>4, <1>6 DEF EntersNext, GoneOn, g
<1> QED
  BY <1>1, <1>2, <1>5, <1>6

(* Azimuth b is g on from a.                                               *)
Follows(a, g, b) ==
  IF lidar.dir = 1 THEN b = a + g \/ b = a + g - Circle
  ELSE b = a - g \/ b = a - g + Circle

LEMMA AzimuthGoesOn ==
  ASSUME lidar \in Lidars, NEW r \in 0 .. Circle - 1, NEW g \in 0 .. Circle
  PROVE  /\ AzimuthAt(r) \in 0 .. Circle - 1 /\ AzimuthAt(GoneOn(r, g)) \in 0 .. Circle - 1
         /\ GoneOn(r, g) \in 0 .. Circle - 1
         /\ g < Circle => Follows(AzimuthAt(r), g, AzimuthAt(GoneOn(r, g)))
<1> DEFINE s == lidar.frameStart
<1>1. lidar.dir \in {1, -1} /\ s \in 0 .. Circle - 1 /\ Circle \in Nat \ {0}
  BY LidarTyped
<1>2. /\ lidar.dir = 1 => \A u : AzimuthAt(u) = IF u + s < Circle THEN u + s ELSE u + s - Circle
      /\ lidar.dir = -1 => \A u : AzimuthAt(u) = IF u <= s THEN s - u ELSE s - u + Circle
  BY DEF AzimuthAt
<1> DEFINE t == GoneOn(r, g)
<1>3. t \in 0 .. Circle - 1 /\ (t = r + g \/ t = r + g - Circle)
  BY <1>1 DEF GoneOn
<1> HIDE DEF s, t
<1>4. CASE lidar.dir = 1
  <2>1. /\ AzimuthAt(r) = (IF r + s < Circle THEN r + s ELSE r + s - Circle)
        /\ AzimuthAt(t) = (IF t + s < Circle THEN t + s ELSE t + s - Circle)
    BY <1>2, <1>4
  <2> QED
    BY <1>1, <1>3, <1>4, <2>1 DEF t, Follows
<1>5. CASE lidar.dir = -1
  <2>1. /\ AzimuthAt(r) = (IF r <= s THEN s - r ELSE s - r + Circle)
        /\ AzimuthAt(t) = (IF t <= s THEN s - t ELSE s - t + Circle)
    BY <1>2, <1>5
  <2> QED
    BY <1>1, <1>3, <1>5, <2>1 DEF t, Follows
<1> QED
  BY <1>1, <1>4, <1>5

(* Three azimuths, each less than half a turn from the one before: the      *)
(* smaller of the two differences is one that does not wrap, so its sign    *)
(* is the direction; and a difference that is larger is one that wraps.    *)
LEMMA VoteIsRight ==
  ASSUME lidar \in Lidars, NEW key \in 0 .. Circle - 1,
         last \in 0 .. Circle - 1, lastLast \in 0 .. Circle - 1,
         NEW g \in Nat \ {0}, NEW h \in Nat \ {0}, 2 * g < Circle, 2 * h < Circle,
         Follows(lastLast, g, last), Follows(last, h, key)
  PROVE  /\ Decoder!Division(key) \in Int /\ Decoder!Division(key) # 0
         /\ (Decoder!Division(key) \in {lastLast - last, last - key}) <=> lidar.dir = -1
         /\ lidar.dir = 1 => (last - key > Decoder!Division(key) <=> key # last + h)
         /\ lidar.dir = -1 => (key - last > Decoder!Division(key) <=> key # last - h)
<1> DEFINE a == lastLast
           b == last
           n == Circle
           dv == Decoder!Division(key)
<1>1. lidar.dir \in {1, -1} /\ n \in Nat \ {0}
  BY LidarTyped
<1>2. dv = (LET d == IF b - a < 0 THEN -(b - a) ELSE b - a
                e == IF b - key < 0 THEN -(b - key) ELSE b - key
            IN IF d > e THEN e ELSE d)
  BY DEF Decoder!Division, Decoder!Abs
<1> HIDE DEF dv
<1>3. CASE lidar.dir = 1
  <2>1. (b = a + g \/ b = a + g - n) /\ (key = b + h \/ key = b + h - n)
    BY <1>3 DEF Follows
  <2> QED
    BY <1>1, <1>2, <1>3, <2>1 DEF dv
<1>4. CASE lidar.dir = -1
  <2>1. (b = a - g \/ b = a - g + n) /\ (key = b - h \/ key = b - h + n)
    BY <1>4 DEF Follows
  <2> QED
    BY <1>1, <1>2, <1>4, <2>1 DEF dv
<1> QED
  BY <1>1, <1>3, <1>4

(* Once the direction is known, a frame is split exactly where the lidar    *)
(* enters its next turn.                                                   *)
LEMMA SplitsAtStart ==
  ASSUME lidar \in Lidars, lastLast \in 0 .. Circle - 1,
         NEW r \in 0 .. Circle - 1, last = AzimuthAt(r),
         NEW g \in Nat \ {0}, NEW h \in Nat \ {0}, 2 * g < Circle, 2 * h < Circle,
         Follows(lastLast, g, last),
         Decoder!Rotated(AzimuthAt(GoneOn(r, h))) > 0 <=> lidar.dir = 1
  PROVE  Decoder!PassesStart(AzimuthAt(GoneOn(r, h))) <=> r + h >= Circle
<1> DEFINE s == lidar.frameStart
           n == Circle
           key == AzimuthAt(GoneOn(r, h))
           dv == Decoder!Division(key)
<1>1. lidar.dir \in {1, -1} /\ s \in 0 .. n - 1 /\ n \in Nat \ {0}
  BY LidarTyped
<1>2. h \in 0 .. n /\ h < n
  BY <1>1
<1>3. /\ last \in 0 .. n - 1 /\ key \in 0 .. n - 1 /\ Follows(last, h, key)
  BY <1>2, AzimuthGoesOn
<1> DEFINE t == GoneOn(r, h)
<1>4. /\ t = (IF r + h < n THEN r + h ELSE r + h - n) /\ key = AzimuthAt(t)
  BY DEF GoneOn
<1>5. /\ lidar.dir = 1 => \A u : AzimuthAt(u) = IF u + s < n THEN u + s ELSE u + s - n
      /\ lidar.dir = -1 => \A u : AzimuthAt(u) = IF u <= s THEN s - u ELSE s - u + n
  BY DEF AzimuthAt
<1>6. /\ lidar.dir = 1 => /\ last = (IF r + s < n THEN r + s ELSE r + s - n)
                          /\ key = (IF t + s < n THEN t + s ELSE t + s - n)
      /\ lidar.dir = -1 => /\ last = (IF r <= s THEN s - r ELSE s - r + n)
                           /\ key = (IF t <= s THEN s - t ELSE s - t + n)
  BY <1>4, <1>5
<1> HIDE DEF key, t
<1>7. /\ dv # 0
      /\ lidar.dir = 1 => (last - key > dv <=> key # last + h)
      /\ lidar.dir = -1 => (key - last > dv <=> key # last - h)
  BY <1>3, VoteIsRight
<1>8. Decoder!PassesStart(key) <=>
        IF lidar.dir = 1
        THEN IF key # last + h THEN s > last \/ s <= key ELSE last < key /\ last < s /\ s <= key
        ELSE IF key # last - h THEN s < last \/ s >= key ELSE last > key /\ last > s /\ s >= key
  BY <1>1, <1>7 DEF Decoder!PassesStart, key
<1> HIDE DEF s, n, dv
<1>9. CASE lidar.dir = 1
  BY <1>1, <1>2, <1>3, <1>4, <1>6, <1>8, <1>9 DEF key, n
<1>10. CASE lidar.dir = -1
  BY <1>1, <1>2, <1>3, <1>4, <1>6, <1>8, <1>10 DEF key, n
<1> QED
  BY <1>1, <1>9, <1>10 DEF key

-----------------------------------------------------------------------------
(* The packets come in order, no further apart than the losses allow.      *)
OrderInv ==
  /\ got = <<>> => sent = 0
  /\ got # <<>> => got[Len(got)] \in Nat \ {0} /\ sent - got[Len(got)] \in 0 .. MaxRun

(* How far the lidar had moved at the packets seen.                        *)
Seen == {Decoder!Moved(got[i]) : i \in 1 .. Len(got)}
Votes == IF lidar.dir = 1 THEN rotation ELSE -rotation
Wide == lidar.step * (MaxRun + 1)

(* Of the votes only the first may be wrong: the azimuth before the last    *)
(* one is that of a packet, once there have been two.                      *)
VoteInv ==
  /\ rotation \in Int /\ lastLast \in Int
  /\ IsFiniteSet(Seen)
  /\ \A m \in Seen : m \in Nat /\ m <= Decoder!Moved(got[Len(got)])
  /\ got = <<>> => last = 0 /\ lastLast = 0
  /\ Cardinality(Seen) <= 1 => rotation = 0
  /\ Cardinality(Seen) >= 2 =>
       /\ \E q \in Nat \ {0} : /\ lastLast = Decoder!Key(q)
                               /\ Decoder!Moved(q) \in Nat
                               /\ Decoder!Moved(got[Len(got)]) - Decoder!Moved(q) \in 1 .. Wide
       /\ Votes >= -1
  /\ Cardinality(Seen) >= 3 => Votes >= 0
  /\ Cardinality(Seen) >= 4 => Votes >= 1

(* What is remembered is the last packet's; a timeout that ended a frame    *)
(* did so before the lidar's next frame.                                   *)
TurnInv ==
  /\ got # <<>> => last = Decoder!Key(got[Len(got)])
  /\ timeout = "ended" => /\ lidar.rule = "field" /\ got # <<>>
                          /\ Decoder!FrameOf(got[Len(got)]) < Decoder!FrameOf(sent + 1)
  /\ timeout # "ended" => useAngle = TRUE
  /\ lidar.rule = "azimuth" => VoteInv
  /\ Decoder!FramesAreTurns

(* A vote counts, scaled or not.                                           *)
LEMMA VoteCounted ==
  ASSUME lidar \in Lidars, lidar.rule = "azimuth", rotation \in Int, NEW key \in Int,
         Decoder!Division(key) # 0
  PROVE  LET v == IF lidar.dir = 1 THEN Decoder!Rotated(key) ELSE -Decoder!Rotated(key)
             right == (Decoder!Division(key) \in {lastLast - last, last - key}) <=> lidar.dir = -1
         IN /\ Decoder!Rotated(key) \in Int
            /\ rotation = 0 => v >= -1
            /\ right /\ Votes >= -1 => v >= 0
            /\ right /\ Votes >= 0 => v >= 1
<1> DEFINE backward == Decoder!Division(key) \in {lastLast - last, last - key}
           scaled == IF Decoder!Abs(rotation) <= VoteMax THEN rotation
                     ELSE IF rotation < 0 THEN -(-rotation \div VoteScale)
                     ELSE rotation \div VoteScale
           one == IF backward THEN -1 ELSE 1
<1>1. VoteMax \in Nat \ {0} /\ VoteScale \in Nat \ {0} /\ lidar.dir \in {1, -1}
  BY LidarTyped
<1>2. Decoder!Rotated(key) = scaled + one
  BY DEF Decoder!Rotated
<1>3. /\ scaled \in Int
      /\ rotation = 0 => scaled = 0
      /\ rotation >= 0 => scaled >= 0
      /\ rotation <= 0 => scaled <= 0
      /\ rotation = -1 => scaled = -1
      /\ rotation = 1 => scaled = 1
  <2>1. rotation >= 0 => rotation \div VoteScale \in Nat
    BY <1>1
  <2>2. rotation <= 0 => (-rotation) \div VoteScale \in Nat
    BY <1>1
  <2>3. Decoder!Abs(rotation) = (IF rotation < 0 THEN -rotation ELSE rotation)
    BY DEF Decoder!Abs
  <2> QED
    BY <1>1, <2>1, <2>2, <2>3
<1>4. one = (IF backward THEN -1 ELSE 1)
  OBVIOUS
<1> HIDE DEF backward, scaled, one
<1>5. one \in {1, -1}
  BY <1>4
<1>6. (backward <=> lidar.dir = -1) => one = lidar.dir
  BY <1>1, <1>4
<1>7. CASE lidar.dir = 1
  BY <1>2, <1>3, <1>5, <1>6, <1>7 DEF Votes, backward
<1>8. CASE lidar.dir = -1
  BY <1>2, <1>3, <1>5, <1>6, <1>8 DEF Votes, backward
<1> QED
  BY <1>1, <1>7, <1>8

(* The next packet of a rotating lidar, when some were seen.               *)
LEMMA VotesGoOn ==
  ASSUME GapsAreShort, GotInv, OrderInv, lidar.rule = "azimuth", VoteInv, got # <<>>,
         last = Decoder!Key(got[Len(got)]), NEW fits \in BOOLEAN, Decoder!Deliver(sent + 1, fits)
  PROVE  /\ VoteInv'
         /\ Cardinality(Seen) >= 3 =>
              (Decoder!PassesStart(Decoder!Key(sent + 1))
                 <=> Decoder!Turn(sent + 1) # Decoder!Turn(got[Len(got)]))
<1> DEFINE p == sent + 1
           n == Len(got)
           l == got[n]
           key == Decoder!Key(p)
           m == Decoder!Moved(l)
           g == Decoder!Moved(p) - m
<1>1. /\ lidar \in Lidars /\ sent \in Nat /\ got \in Seq(Nat) /\ n \in Nat
  BY DEF GotInv
<1>2. /\ n >= 1 /\ l \in Nat \ {0} /\ sent - l \in 0 .. MaxRun /\ MaxRun \in Nat
      /\ lidar.dir \in {1, -1} /\ Circle \in Nat \ {0} /\ lidar.step \in Nat \ {0}
  <2>1. n # 0
    BY <1>1, EmptySeq
  <2> QED
    BY <1>1, <2>1, LidarTyped, SMTT(30) DEF OrderInv
<1>3. p \in Nat \ {0} /\ p - l \in 0 .. MaxRun + 1 /\ p = l + (p - l)
  BY <1>1, <1>2
<1>4. /\ lidar' = lidar /\ got' = Append(got, p)
      /\ lastLast' = (IF key # last THEN last ELSE lastLast) /\ last' = key
      /\ rotation' = Decoder!Rotated(key)
  BY DEF Decoder!Deliver
<1>5. /\ Wide \in Nat /\ 2 * Wide < Circle /\ Wide < Circle
  <2> DEFINE w == lidar.step * (MaxRun + 1)
  <2>1. w \in Nat /\ 2 * w < Circle
    BY <1>1, <1>2, SMTT(30) DEF GapsAreShort
  <2> HIDE DEF w
  <2>2. w < Circle
    BY <1>2, <2>1
  <2> QED
    BY <2>1, <2>2 DEF w, Wide
<1>6. m \in Nat /\ Decoder!Moved(p) \in Nat /\ g \in 0 .. Wide
  <2> DEFINE d == p - l
  <2>1. d \in 0 .. MaxRun + 1 /\ p = l + d
    BY <1>3
  <2> HIDE DEF d, p, l
  <2>2. /\ Decoder!Moved(l) \in Nat /\ Decoder!Moved(l + d) \in Nat
        /\ Decoder!Moved(l + d) - Decoder!Moved(l) \in 0 .. lidar.step * (MaxRun + 1)
    BY <1>1, <1>2, <2>1, MovedOn
  <2> QED
    BY <2>1, <2>2 DEF Wide
<1>7. /\ Position(l) \in 0 .. Circle - 1 /\ last = AzimuthAt(Position(l))
      /\ key = AzimuthAt(Position(p)) /\ Position(p) = GoneOn(Position(l), g)
      /\ Decoder!Turn(p) # Decoder!Turn(l) <=> Position(l) + g >= Circle
  <2> HIDE DEF p, l
  <2>1. g \in 0 .. Circle
    BY <1>2, <1>5, <1>6
  <2> QED
    BY <1>1, <1>2, <1>3, <1>6, <2>1, TurnGoesOn, AzimuthIs DEF l, n
<1>8. /\ last \in 0 .. Circle - 1 /\ key \in 0 .. Circle - 1 /\ Follows(last, g, key)
  <2>1. g \in 0 .. Circle /\ g < Circle
    BY <1>2, <1>5, <1>6
  <2> QED
    BY <1>1, <1>7, <2>1, AzimuthGoesOn
<1>9. /\ got' # <<>> /\ Len(got') = n + 1 /\ got'[n + 1] = p /\ \A i \in 1 .. n : got'[i] = got[i]
  BY <1>1, <1>3, <1>4, LenProperties, AppendProperties
<1>10. Seen' = Seen \cup {Decoder!Moved(p)}
  <2>1. \A x : Decoder!Moved(x)' = Decoder!Moved(x)
    BY <1>4 DEF Decoder!Moved
  <2>2. Seen' = {Decoder!Moved(got'[i]) : i \in 1 .. n + 1}
    BY <1>4, <1>9 DEF Seen, Decoder!Moved
  <2> HIDE DEF p, n
  <2>3. 1 .. n + 1 = (1 .. n) \cup {n + 1}
    BY <1>1
  <2> QED
    BY <1>9, <2>2, <2>3 DEF Seen, n
<1>11. m \in Seen
  BY <1>2 DEF Seen
<1>12. /\ rotation \in Int /\ lastLast \in Int /\ IsFiniteSet(Seen)
       /\ \A x \in Seen : x \in Nat /\ x <= m
       /\ Cardinality(Seen) <= 1 => rotation = 0
       /\ Cardinality(Seen) >= 2 => 
            /\ \E q \in Nat \ {0} : /\ lastLast = Decoder!Key(q)
                                    /\ Decoder!Moved(q) \in Nat
                                    /\ m - Decoder!Moved(q) \in 1 .. Wide
            /\ Votes >= -1
       /\ Cardinality(Seen) >= 3 => Votes >= 0
       /\ Cardinality(Seen) >= 4 => Votes >= 1
  BY DEF VoteInv
<1>13. /\ Wide' = Wide
       /\ got'[Len(got')] = p
       /\ \A x : Decoder!Key(x)' = Decoder!Key(x)
       /\ \A x : Decoder!Moved(x)' = Decoder!Moved(x)
  <2>1. \A x : Decoder!Moved(x)' = Decoder!Moved(x)
    BY <1>4 DEF Decoder!Moved
  <2>2. \A x : Decoder!Key(x)' = Decoder!Key(x)
    BY <1>4 DEF Decoder!Moved, Decoder!Key, Decoder!FrameOf, Decoder!Column, Decoder!FirstColumn
  <2>3. Wide' = Wide /\ got'[Len(got')] = p
    BY <1>4, <1>9 DEF Wide
  <2> QED
    BY <2>1, <2>2, <2>3
<1> DEFINE c == Cardinality(Seen)
           u == Decoder!Rotated(key)
           v == IF lidar.dir = 1 THEN u ELSE -u
           mp == Decoder!Moved(p)
<1>14. c \in Nat /\ c >= 1
  BY <1>11, <1>12, FS_CardinalityType, FS_EmptySet
<1>15. Votes' = v
  BY <1>4 DEF Votes
<1>16. /\ IsFiniteSet(Seen')
       /\ Cardinality(Seen') = IF mp \in Seen THEN c ELSE c + 1
  BY <1>10, <1>12, FS_AddElement
<1>17. mp = m + g
  BY <1>6
<1> HIDE DEF p, n, l, key, m, g, c, u, v, mp
<1>18. CASE g = 0
  <2>1. mp = m /\ mp \in Seen
    BY <1>6, <1>11, <1>17, <1>18
  <2>2. Position(p) = Position(l)
    BY <1>2, <1>7, <1>18 DEF GoneOn
  <2>3. key = last
    BY <1>7, <2>2
  <2>4. Decoder!Division(key) = 0
    BY <1>8, <1>12, <2>3 DEF Decoder!Division, Decoder!Abs
  <2>5. rotation' = rotation /\ lastLast' = lastLast
    BY <1>4, <2>3, <2>4 DEF Decoder!Rotated
  <2>6. Seen' = Seen
    BY <1>10, <2>1 DEF mp
  <2>7. Votes' = Votes
    BY <1>4, <2>5 DEF Votes
  <2>8. VoteInv'
    BY <1>9, <1>12, <1>13, <2>1, <2>5, <2>6, <2>7 DEF VoteInv, mp
  <2>9. ~ Decoder!PassesStart(key)
    BY <2>4 DEF Decoder!PassesStart
  <2>10. ~(Position(l) + g >= Circle)
    BY <1>2, <1>7, <1>18
  <2> QED
    BY <1>7, <2>8, <2>9, <2>10 DEF key, p, l, n
<1>19. CASE g # 0
  <2>1. g \in Nat \ {0} /\ g \in 1 .. Wide /\ 2 * g < Circle
    BY <1>2, <1>5, <1>6, <1>19
  <2>2. mp \notin Seen /\ Cardinality(Seen') = c + 1
    BY <1>6, <1>12, <1>16, <1>17, <2>1
  <2>3. key # last
    BY <1>2, <1>8, <2>1 DEF Follows
  <2>4. lastLast' = last
    BY <1>4, <2>3
  <2>5. ASSUME c >= 2
        PROVE  /\ Decoder!Division(key) # 0
               /\ (Decoder!Division(key) \in {lastLast - last, last - key}) <=> lidar.dir = -1
               /\ \E h \in Nat \ {0} : 2 * h < Circle /\ lastLast \in 0 .. Circle - 1 /\ Follows(lastLast, h, last)
    <3>1. PICK q \in Nat \ {0} : /\ lastLast = Decoder!Key(q) /\ Decoder!Moved(q) \in Nat
                                 /\ m - Decoder!Moved(q) \in 1 .. Wide
      BY <1>12, <2>5 DEF c
    <3> DEFINE h == m - Decoder!Moved(q)
    <3>2. h \in Nat \ {0} /\ 2 * h < Circle /\ h \in 0 .. Circle /\ h < Circle
      BY <1>2, <1>5, <3>1
    <3>3. /\ Position(q) \in 0 .. Circle - 1 /\ lastLast = AzimuthAt(Position(q))
          /\ Position(l) = GoneOn(Position(q), h)
      <4>1. Decoder!Moved(l) - Decoder!Moved(q) \in 0 .. Circle /\ Decoder!Moved(l) \in Nat
        BY <1>6, <3>2 DEF m
      <4> QED
        BY <1>1, <1>2, <3>1, <4>1, AzimuthIs, TurnGoesOn DEF m
    <3>4. lastLast \in 0 .. Circle - 1 /\ Follows(lastLast, h, last)
      BY <1>1, <1>7, <3>2, <3>3, AzimuthGoesOn
    <3> HIDE DEF h
    <3>5. /\ Decoder!Division(key) # 0
          /\ (Decoder!Division(key) \in {lastLast - last, last - key}) <=> lidar.dir = -1
      BY <1>1, <1>8, <2>1, <3>2, <3>4, VoteIsRight
    <3> QED
      BY <3>2, <3>4, <3>5
  <2>6. /\ u \in Int
        /\ c = 1 => v >= -1
        /\ c >= 2 => v >= 0
        /\ c >= 3 => v >= 1
    <3>1. CASE Decoder!Division(key) # 0
      <4>1. key \in Int
        BY <1>2, <1>8
      <4>2. /\ u \in Int
            /\ rotation = 0 => v >= -1
            /\ c >= 2 /\ Votes >= -1 => v >= 0
            /\ c >= 2 /\ Votes >= 0 => v >= 1
        BY <1>1, <1>12, <2>5, <3>1, <4>1, VoteCounted DEF u, v
      <4> QED
        BY <1>12, <1>14, <4>2 DEF c
    <3>2. CASE Decoder!Division(key) = 0
      <4>1. ~(c >= 2)
        BY <2>5, <3>2
      <4>2. u = rotation /\ rotation = 0
        BY <1>12, <1>14, <3>2, <4>1 DEF Decoder!Rotated, u, c
      <4> QED
        BY <1>14, <4>1, <4>2 DEF v
    <3> QED
      BY <3>1, <3>2
  <2>7. VoteInv'
    <3>1. rotation' \in Int /\ lastLast' \in Int
      BY <1>2, <1>4, <1>8, <2>4, <2>6 DEF u
    <3>2. \A x \in Seen' : x \in Nat /\ x <= Decoder!Moved(got[Len(got)])'
      <4>1. Decoder!Moved(got[Len(got)])' = mp
        BY <1>4, <1>13 DEF mp, Decoder!Moved
      <4>2. \A x \in Seen : x \in Nat /\ x <= mp
        BY <1>6, <1>12, <1>17, <2>1
      <4> QED
        BY <1>6, <1>10, <4>1, <4>2 DEF mp
    <3>3. \E q \in Nat \ {0} : /\ lastLast' = Decoder!Key(q)'
                               /\ Decoder!Moved(q)' \in Nat
                               /\ Decoder!Moved(got[Len(got)])' - Decoder!Moved(q)' \in 1 .. Wide'
      <4>1. lastLast' = Decoder!Key(l) /\ Decoder!Moved(l) = m
        BY <2>4 DEF l, n, m
      <4>2. Decoder!Moved(got[Len(got)])' = mp
        BY <1>4, <1>13 DEF mp, Decoder!Moved
      <4>3. mp - m \in 1 .. Wide
        BY <1>5, <1>6, <1>17, <2>1
      <4> QED
        BY <1>2, <1>6, <1>13, <4>1, <4>2, <4>3
    <3>4. c + 1 <= 1 => rotation' = 0
      BY <1>14
    <3>5. /\ c + 1 >= 2 => Votes' >= -1
          /\ c + 1 >= 3 => Votes' >= 0
          /\ c + 1 >= 4 => Votes' >= 1
      BY <1>2, <1>14, <1>15, <2>6 DEF v
    <3> QED
      BY <1>9, <1>16, <2>2, <3>1, <3>2, <3>3, <3>4, <3>5 DEF VoteInv
  <2>8. ASSUME c >= 3 PROVE Decoder!PassesStart(key) <=> Position(l) + g >= Circle
    <3>1. u > 0 <=> lidar.dir = 1
      BY <1>2, <2>6, <2>8 DEF v
    <3>2. PICK h \in Nat \ {0} : 2 * h < Circle /\ lastLast \in 0 .. Circle - 1 /\ Follows(lastLast, h, last)
      BY <1>14, <2>5, <2>8
    <3>3. key = AzimuthAt(GoneOn(Position(l), g))
      BY <1>7
    <3>4. Decoder!Rotated(AzimuthAt(GoneOn(Position(l), g))) > 0 <=> lidar.dir = 1
      BY <3>1, <3>3 DEF u
    <3> QED
      BY <1>1, <1>7, <2>1, <3>2, <3>3, <3>4, SplitsAtStart
  <2> QED
    BY <1>7, <2>7, <2>8 DEF key, p, l, n, c
<1> QED
  BY <1>18, <1>19

-----------------------------------------------------------------------------
(* All but the last of a sequence that grew. *)
LEMMA FrontOfAppend ==
  ASSUME NEW s \in Seq(Nat), NEW x \in Nat
  PROVE  Decoder!Front(Append(s, x)) = s
<1> DEFINE t == Append(s, x)
           f == SubSeq(t, 1, Len(t) - 1)
<1>1. t \in Seq(Nat) /\ Len(t) = Len(s) + 1 /\ Len(s) \in Nat /\ \A i \in 1 .. Len(s) : t[i] = s[i]
  BY AppendProperties, LenProperties
<1> HIDE DEF t
<1>2. Len(t) - 1 = Len(s)
  BY <1>1
<1>3. f = [i \in 1 .. Len(s) |-> t[i]]
  BY <1>1, <1>2
<1>4. s = [i \in 1 .. Len(s) |-> s[i]]
  BY LenProperties
<1> QED
  BY <1>1, <1>3, <1>4 DEF Decoder!Front, t

(* One more packet in order.                                               *)
LEMMA TurnsGoOn ==
  ASSUME GapsAreShort, GotInv, OrderInv, TurnInv, InOrder, NEW fits \in BOOLEAN,
         Decoder!Deliver(sent + 1, fits)
  PROVE  OrderInv' /\ TurnInv'
<1> DEFINE p == sent + 1
           n == Len(got)
           l == got[n]
           key == Decoder!Key(p)
           splits == Decoder!Completes(key)
<1>1. /\ lidar \in Lidars /\ sent \in Nat /\ got \in Seq(Nat) /\ n \in Nat
  BY DEF GotInv
<1>2. /\ p \in Nat \ {0} /\ MaxRun \in Nat
      /\ lidar.rule \in {"azimuth", "field", "parity", "column"}
  BY <1>1, LidarTyped
<1>3. /\ lidar' = lidar /\ got' = Append(got, p) /\ sent' = p
      /\ lastLast' = (IF key # last THEN last ELSE lastLast) /\ last' = key
      /\ rotation' = Decoder!Rotated(key)
      /\ useAngle' = (useAngle \/ Decoder!IsNeedFrameSplit(key))
      /\ split' = (splits \/ timeout = "ended")
      /\ timeout' = "no"
  BY <1>1 DEF Decoder!Deliver
<1>4. /\ got' # <<>> /\ Len(got') = n + 1 /\ got'[n + 1] = p /\ \A i \in 1 .. n : got'[i] = got[i]
      /\ got' \in Seq(Nat)
  BY <1>1, <1>2, <1>3, LenProperties, AppendProperties
<1>5. /\ \A x : Decoder!Moved(x)' = Decoder!Moved(x)
      /\ \A x : Decoder!Key(x)' = Decoder!Key(x)
      /\ \A x : Decoder!Turn(x)' = Decoder!Turn(x)
  BY <1>3 DEF Decoder!Moved, Decoder!Key, Decoder!Turn, Decoder!FrameOf, Decoder!Column, Decoder!FirstColumn
<1>6. got # <<>> => /\ n >= 1 /\ l \in Nat \ {0} /\ sent - l \in 0 .. MaxRun
                    /\ p - l \in 1 .. MaxRun + 1 /\ p = l + (p - l)
  <2>1. got # <<>> => n # 0
    BY <1>1, EmptySeq
  <2> QED
    BY <1>1, <1>2, <2>1 DEF OrderInv
<1>7. /\ got # <<>> => last = Decoder!Key(l)
      /\ timeout = "ended" => /\ lidar.rule = "field" /\ got # <<>>
                              /\ Decoder!FrameOf(l) < Decoder!FrameOf(p)
      /\ timeout # "ended" => useAngle = TRUE
      /\ lidar.rule = "azimuth" => VoteInv
  BY DEF TurnInv
<1> HIDE DEF p, n, l, key, splits
<1>8. OrderInv'
  <2>1. sent' - got'[Len(got')] = 0 /\ got'[Len(got')] \in Nat \ {0}
    BY <1>2, <1>3, <1>4
  <2> QED
    BY <1>2, <1>4, <2>1 DEF OrderInv
<1>9. lidar.rule # "azimuth" /\ got # <<>> =>
        (Decoder!IsNeedFrameSplit(key) <=> Decoder!FrameOf(p) # Decoder!FrameOf(l))
  <2> SUFFICES ASSUME lidar.rule # "azimuth", got # <<>>
               PROVE  Decoder!IsNeedFrameSplit(key) <=> Decoder!FrameOf(p) # Decoder!FrameOf(l)
    OBVIOUS
  <2> DEFINE g == p - l
  <2>1. g \in 1 .. MaxRun + 1 /\ p = l + g /\ l \in Nat \ {0}
    BY <1>6
  <2> HIDE DEF g
  <2>2. Decoder!IsNeedFrameSplit(Decoder!Key(l + g)) <=> Decoder!FrameOf(l + g) # Decoder!FrameOf(l)
    BY <1>1, <1>7, <2>1, CountedSplit
  <2> QED
    BY <2>1, <2>2 DEF key
<1>10. Decoder!FrameOf(p) \in Int /\ (got # <<>> => Decoder!FrameOf(l) \in Int)
  <2>1. 0 \in 0 .. FrameLen
    BY <1>1, LidarTyped
  <2>2. \A x \in Nat \ {0} : Decoder!FrameOf(x) \in Int
    BY <1>1, <2>1, FrameGoesOn
  <2> QED
    BY <1>2, <1>6, <2>2
<1>11. useAngle' = TRUE
  <2>1. CASE timeout = "ended"
    <3>1. Decoder!FrameOf(p) # Decoder!FrameOf(l)
      BY <1>7, <1>10, <2>1
    <3> QED
      BY <1>3, <1>7, <1>9, <2>1, <3>1
  <2>2. CASE timeout # "ended"
    BY <1>3, <1>7, <2>2
  <2> QED
    BY <2>1, <2>2
<1>12. ASSUME lidar.rule = "azimuth"
       PROVE  /\ VoteInv'
              /\ got # <<>> /\ Cardinality(Seen) >= 3 =>
                   (Decoder!PassesStart(key) <=> Decoder!Turn(p) # Decoder!Turn(l))
  <2>1. CASE got # <<>>
    BY <1>7, <1>12, <2>1, VotesGoOn DEF p, l, n, key
  <2>2. CASE got = <<>>
    <3>1. /\ rotation = 0 /\ last = 0 /\ lastLast = 0
      <4>1. Seen = {}
        BY <2>2 DEF Seen
      <4>2. Cardinality(Seen) <= 1
        BY <4>1, FS_EmptySet
      <4> QED
        BY <1>7, <1>12, <2>2, <4>2 DEF VoteInv
    <3>2. key \in Int
      BY <1>1, <1>2, KeyTyped DEF key
    <3>3. Decoder!Division(key) = 0
      BY <3>1, <3>2 DEF Decoder!Division, Decoder!Abs
    <3>4. rotation' = 0 /\ lastLast' = 0
      BY <1>3, <3>1, <3>3 DEF Decoder!Rotated
    <3>5. Seen' = {Decoder!Moved(p)}
      <4>1. n = 0 /\ \A i \in 1 .. n + 1 : i = n + 1
        BY <1>1, <2>2 DEF n
      <4>2. Seen' = {Decoder!Moved(got'[i]) : i \in 1 .. n + 1}
        BY <1>3, <1>4 DEF Seen, Decoder!Moved
      <4> QED
        BY <1>4, <4>1, <4>2
    <3>6. IsFiniteSet(Seen') /\ Cardinality(Seen') = 1
      BY <3>5, FS_Singleton
    <3>7. Decoder!Moved(p) \in Nat
      <4>1. 0 \in 0 .. MaxRun + 1
        BY <1>2
      <4> QED
        BY <1>1, <1>2, <4>1, MovedOn
    <3>8. \A x \in Seen' : x \in Nat /\ x <= Decoder!Moved(got[Len(got)])'
      <4>1. Decoder!Moved(got[Len(got)])' = Decoder!Moved(p)
        BY <1>3, <1>4 DEF Decoder!Moved
      <4> QED
        BY <3>5, <3>7, <4>1
    <3>9. VoteInv'
      BY <1>4, <3>4, <3>6, <3>8 DEF VoteInv
    <3> QED
      BY <2>2, <3>9
  <2> QED
    BY <2>1, <2>2
<1>13. Decoder!FramesAreTurns'
  <2>1. Decoder!Front(got') = got
    BY <1>1, <1>2, <1>3, FrontOfAppend
  <2>2. /\ Decoder!Last(got') = p
        /\ Len(got') - 1 = n /\ (Len(got') > 1 => got # <<>> /\ got'[n] = l)
    <3>1. n + 1 - 1 = n /\ (n + 1 > 1 => n \in 1 .. n) /\ (n > 0 => got # <<>>)
      BY <1>1 DEF n
    <3> QED
      BY <1>1, <1>4, <3>1 DEF Decoder!Last, l
  <2>3. Decoder!Warm' <=> lidar.rule # "azimuth" \/ Cardinality(Seen) >= 3
    <3>1. {Decoder!Moved(x) : x \in Decoder!ToSet(got)} = Seen
      BY <1>1 DEF Seen, Decoder!ToSet
    <3>2. Decoder!Warm' <=> lidar'.rule # "azimuth"
              \/ Decoder!Cardinality({Decoder!Moved(x)' : x \in Decoder!ToSet(Decoder!Front(got'))}) >= 3
      BY DEF Decoder!Warm, Decoder!Cardinality, Decoder!ToSet, Decoder!Front, Decoder!Moved
    <3>3. {Decoder!Moved(x)' : x \in Decoder!ToSet(Decoder!Front(got'))} = Seen
      BY <1>5, <2>1, <3>1
    <3> QED
      BY <1>3, <3>2, <3>3 DEF Decoder!Cardinality, Cardinality
  <2>4. ASSUME Len(got') > 1, Decoder!Warm'
        PROVE  split' <=> Decoder!Turn(p) # Decoder!Turn(l)
    <3>1. got # <<>>
      BY <2>2, <2>4
    <3>2. CASE lidar.rule = "azimuth"
      <4>1. Decoder!PassesStart(key) <=> Decoder!Turn(p) # Decoder!Turn(l)
        BY <1>12, <2>3, <2>4, <3>1, <3>2
      <4>2. splits <=> Decoder!PassesStart(key)
        BY <3>2 DEF splits, Decoder!Completes, Decoder!IsNeedFrameSplit
      <4>3. timeout # "ended"
        BY <1>7, <3>2
      <4> QED
        BY <1>3, <4>1, <4>2, <4>3
    <3>3. CASE lidar.rule # "azimuth"
      <4>1. /\ Decoder!Turn(p) = Decoder!FrameOf(p) /\ Decoder!Turn(l) = Decoder!FrameOf(l)
        BY <3>3 DEF Decoder!Turn
      <4>2. Decoder!IsNeedFrameSplit(key) <=> Decoder!FrameOf(p) # Decoder!FrameOf(l)
        BY <1>9, <3>1, <3>3
      <4>3. CASE timeout = "ended"
        <5>1. Decoder!FrameOf(p) # Decoder!FrameOf(l)
          BY <1>7, <1>10, <4>3
        <5> QED
          BY <1>3, <4>1, <4>3, <5>1
      <4>4. CASE timeout # "ended"
        <5>1. splits <=> Decoder!IsNeedFrameSplit(key)
          BY <1>7, <4>4 DEF splits, Decoder!Completes
        <5> QED
          BY <1>3, <4>1, <4>2, <4>4, <5>1
      <4> QED
        BY <4>3, <4>4
    <3> QED
      BY <3>2, <3>3
  <2>5. /\ Decoder!Turn(Decoder!Last(got))' = Decoder!Turn(p)
        /\ Len(got') > 1 => Decoder!Turn(got[Len(got) - 1])' = Decoder!Turn(l)
    <3>1. /\ Decoder!Turn(Decoder!Last(got))' = Decoder!Turn(Decoder!Last(got'))
          /\ Decoder!Turn(got[Len(got) - 1])' = Decoder!Turn(got'[Len(got') - 1])
      BY <1>3 DEF Decoder!Turn, Decoder!FrameOf, Decoder!Moved, Decoder!Last
    <3> QED
      BY <2>2, <3>1
  <2> QED
    BY <2>4, <2>5 DEF Decoder!FramesAreTurns
<1>14. got' # <<>> => last' = Decoder!Key(got[Len(got)])'
  <2>1. Decoder!Key(got[Len(got)])' = Decoder!Key(got'[Len(got')])
    BY <1>3 DEF Decoder!Key, Decoder!Moved, Decoder!FrameOf, Decoder!Column, Decoder!FirstColumn
  <2> QED
    BY <1>3, <1>4, <2>1 DEF key
<1>15. TurnInv'
  <2>1. timeout' # "ended"
    BY <1>3
  <2>2. (lidar.rule = "azimuth" => VoteInv)'
    BY <1>3, <1>12
  <2> QED
    BY <1>11, <1>13, <1>14, <2>1, <2>2 DEF TurnInv
<1> QED
  BY <1>8, <1>15

(* What was seen of the packets given to Run does not change otherwise.    *)
LEMMA TurnsStay ==
  ASSUME TurnInv, UNCHANGED <<lidar, got, last, lastLast, rotation, split>>
  PROVE  /\ Decoder!FramesAreTurns'
         /\ (lidar.rule = "azimuth" => VoteInv)'
         /\ got' # <<>> => last' = Decoder!Key(got[Len(got)])'
<1>1. /\ lidar.rule = "azimuth" => VoteInv
      /\ Decoder!FramesAreTurns
      /\ got # <<>> => last = Decoder!Key(got[Len(got)])
  BY DEF TurnInv
<1>2. Decoder!FramesAreTurns'
  <2>1. /\ Decoder!Turn(Decoder!Last(got))' = Decoder!Turn(Decoder!Last(got))
        /\ Decoder!Turn(got[Len(got) - 1])' = Decoder!Turn(got[Len(got) - 1])
    BY DEF Decoder!Turn, Decoder!FrameOf, Decoder!Moved, Decoder!Last
  <2>2. \A x : Decoder!Moved(x)' = Decoder!Moved(x)
    BY DEF Decoder!Moved
  <2>3. {Decoder!Moved(x)' : x \in Decoder!ToSet(Decoder!Front(got))}
          = {Decoder!Moved(x) : x \in Decoder!ToSet(Decoder!Front(got))}
    BY <2>2
  <2>4. Decoder!Warm' <=> lidar'.rule # "azimuth"
            \/ Decoder!Cardinality({Decoder!Moved(x)' : x \in Decoder!ToSet(Decoder!Front(got'))}) >= 3
    BY DEF Decoder!Warm, Decoder!Cardinality, Decoder!ToSet, Decoder!Front, Decoder!Moved
  <2>5. Decoder!Warm' <=> Decoder!Warm
    BY <2>3, <2>4 DEF Decoder!Warm
  <2> QED
    BY <1>1, <2>1, <2>5 DEF Decoder!FramesAreTurns
<1>3. (lidar.rule = "azimuth" => VoteInv)'
  <2>1. Seen' = Seen /\ Votes' = Votes /\ Wide' = Wide
    BY DEF Seen, Votes, Wide, Decoder!Moved
  <2>2. \A x : Decoder!Key(x)' = Decoder!Key(x) /\ Decoder!Moved(x)' = Decoder!Moved(x)
    BY DEF Decoder!Key, Decoder!Moved, Decoder!FrameOf, Decoder!Column, Decoder!FirstColumn
  <2>3. Decoder!Moved(got[Len(got)])' = Decoder!Moved(got[Len(got)])
    BY DEF Decoder!Moved
  <2> QED
    BY <1>1, <2>1, <2>2, <2>3 DEF VoteInv
<1>4. Decoder!Key(got[Len(got)])' = Decoder!Key(got[Len(got)])
  BY DEF Decoder!Key, Decoder!Moved, Decoder!FrameOf, Decoder!Column, Decoder!FirstColumn
<1> QED
  BY <1>1, <1>2, <1>3, <1>4

(* Every step of the decoder keeps this.                                   *)
LEMMA DecoderKeepsTurns ==
  ASSUME InOrder, TimeoutIsLast, GapsAreShort, GotInv, OrderInv, TurnInv, Decoder!Next
  PROVE  GotInv' /\ OrderInv' /\ TurnInv'
<1> DEFINE l == got[Len(got)]
<1>1. lidar \in Lidars /\ sent \in Nat /\ got \in Seq(Nat)
  BY DEF GotInv
<1>2. /\ MaxRun \in Nat /\ FrameLen \in Nat \ {0}
  BY <1>1, LidarTyped
<1>3. /\ got = <<>> => sent = 0
      /\ got # <<>> => l \in Nat \ {0} /\ sent - l \in 0 .. MaxRun
  BY DEF OrderInv
<1>4. /\ timeout = "ended" => /\ lidar.rule = "field" /\ got # <<>>
                              /\ Decoder!FrameOf(l) < Decoder!FrameOf(sent + 1)
      /\ timeout # "ended" => useAngle = TRUE
  BY DEF TurnInv
<1>5. ASSUME NEW p \in Nat \ {0}
      PROVE  /\ Decoder!FrameOf(p) \in Int /\ Decoder!FrameOf(p + 1) \in Int
             /\ Decoder!FrameOf(p) <= Decoder!FrameOf(p + 1)
  <2>1. 1 \in 0 .. FrameLen /\ p + 1 \in Nat \ {0} /\ 0 \in 0 .. FrameLen
    BY <1>2
  <2>2. Decoder!FrameOf(p) \in Int /\ Decoder!FrameOf(p + 1) \in Int /\ FramesOn(p, 1)
    BY <1>1, <2>1, FrameGoesOn
  <2> QED
    BY <2>2 DEF FramesOn
<1> HIDE DEF l
<1>6. CASE Decoder!Lose
  <2>1. /\ sent' = sent + 1 /\ got # <<>> /\ sent - l < MaxRun
        /\ UNCHANGED <<lidar, odd, got, last, lastLast, rotation, useAngle, timeout, split>>
    BY <1>6 DEF Decoder!Lose, Decoder!Last, l
  <2>2. GotInv'
    BY <2>1 DEF GotInv
  <2>3. sent' - l \in 0 .. MaxRun /\ l \in Nat \ {0}
    BY <1>1, <1>2, <1>3, <2>1
  <2>4. OrderInv'
    BY <2>1, <2>3 DEF OrderInv, l
  <2>5. timeout' = "ended" => /\ lidar'.rule = "field" /\ got' # <<>>
                              /\ Decoder!FrameOf(got[Len(got)])' < Decoder!FrameOf(sent + 1)'
    <3> SUFFICES ASSUME timeout = "ended"
                 PROVE  Decoder!FrameOf(got[Len(got)])' < Decoder!FrameOf(sent + 1)'
      BY <1>4, <2>1
    <3>1. /\ Decoder!FrameOf(got[Len(got)])' = Decoder!FrameOf(l)
          /\ Decoder!FrameOf(sent + 1)' = Decoder!FrameOf(sent + 1 + 1)
      BY <2>1 DEF Decoder!FrameOf, l
    <3>2. sent + 1 \in Nat \ {0}
      BY <1>1
    <3>3. /\ Decoder!FrameOf(sent + 1) \in Int /\ Decoder!FrameOf(sent + 1 + 1) \in Int
          /\ Decoder!FrameOf(sent + 1) <= Decoder!FrameOf(sent + 1 + 1)
      BY <1>5, <3>2
    <3>4. Decoder!FrameOf(l) \in Int
      BY <1>5, <2>3
    <3>5. Decoder!FrameOf(l) < Decoder!FrameOf(sent + 1)
      BY <1>4
    <3> QED
      BY <3>1, <3>3, <3>4, <3>5
  <2>6. timeout' # "ended" => useAngle' = TRUE
    BY <1>4, <2>1
  <2>7. TurnInv'
    BY <2>1, <2>5, <2>6, TurnsStay DEF TurnInv
  <2> QED
    BY <2>2, <2>4, <2>7
<1>7. CASE Decoder!Timeout
  <2>1. /\ got # <<>> /\ Decoder!Turn(sent + 1) # Decoder!Turn(sent) /\ timeout = "no"
        /\ UNCHANGED <<lidar, sent, odd, got, last, lastLast, rotation, split>>
        /\ timeout' = "ended" => lidar.rule = "field"
        /\ timeout' # "ended" => useAngle' = useAngle
    BY <1>7 DEF Decoder!Timeout
  <2>2. GotInv' /\ OrderInv'
    BY <2>1 DEF GotInv, OrderInv
  <2>3. timeout' = "ended" => /\ lidar'.rule = "field" /\ got' # <<>>
                              /\ Decoder!FrameOf(got[Len(got)])' < Decoder!FrameOf(sent + 1)'
    <3> SUFFICES ASSUME lidar.rule = "field"
                 PROVE  Decoder!FrameOf(got[Len(got)])' < Decoder!FrameOf(sent + 1)'
      BY <2>1
    <3>1. /\ Decoder!FrameOf(got[Len(got)])' = Decoder!FrameOf(l)
          /\ Decoder!FrameOf(sent + 1)' = Decoder!FrameOf(sent + 1)
      BY <2>1 DEF Decoder!FrameOf, l
    <3> DEFINE g == sent - l
    <3>2. MaxRun + 1 <= FrameLen
      BY <1>1 DEF GapsAreShort
    <3>3. l \in Nat \ {0} /\ g \in 0 .. FrameLen /\ sent = l + g /\ sent \in Nat \ {0}
      BY <1>1, <1>2, <1>3, <2>1, <3>2
    <3> HIDE DEF g
    <3>4. /\ Decoder!FrameOf(l) \in Int /\ FramesOn(l, g)
      BY <1>1, <3>3, FrameGoesOn
    <3>5. Decoder!FrameOf(sent) \in Int /\ Decoder!FrameOf(l) <= Decoder!FrameOf(sent)
      BY <3>3, <3>4 DEF FramesOn
    <3>6. /\ Decoder!FrameOf(sent + 1) \in Int
          /\ Decoder!FrameOf(sent) <= Decoder!FrameOf(sent + 1)
      BY <1>5, <3>3
    <3>7. Decoder!FrameOf(sent + 1) # Decoder!FrameOf(sent)
      BY <2>1 DEF Decoder!Turn
    <3> QED
      BY <3>1, <3>4, <3>5, <3>6, <3>7
  <2>4. timeout' # "ended" => useAngle' = TRUE
    BY <1>4, <2>1
  <2>5. TurnInv'
    BY <2>1, <2>3, <2>4, TurnsStay DEF TurnInv
  <2> QED
    BY <2>2, <2>5
<1>8. CASE Decoder!Packet
  <2>1. PICK p \in Nat \ {0}, fits \in BOOLEAN :
          /\ Decoder!Deliver(p, fits)
          /\ \A i \in 1 .. Len(got) : got[i] # p
          /\ p = sent + 1
    BY <1>8, PacketIsNew
  <2>2. GotInv'
    BY <2>1, PacketGiven
  <2> QED
    BY <2>1, <2>2, TurnsGoOn
<1> QED
  BY <1>6, <1>7, <1>8 DEF Decoder!Next

(* A frame ends exactly where the lidar's turn, field or scan ends          *)
(* (FramesAreTurns of IsNeedFrameSplit and DecodePacket): for any number of *)
(* azimuths in a turn, either direction, any frame start, losses, echoes    *)
(* and timeouts, as long as packets come in order, an AT lidar's timeout    *)
(* comes after its field, and the gaps between packets are short.          *)
THEOREM TurnsFound == InOrder /\ TimeoutIsLast /\ GapsAreShort => (Spec => []FramesAreTurns)
<1> SUFFICES ASSUME InOrder, TimeoutIsLast, GapsAreShort PROVE Spec => []FramesAreTurns
  OBVIOUS
<1> DEFINE Inv == part = "frames" => GotInv /\ OrderInv /\ TurnInv
<1>1. Init => Inv
  <2> SUFFICES ASSUME Init, part = "frames" PROVE GotInv /\ OrderInv /\ TurnInv
    OBVIOUS
  <2>1. Decoder!Init
    BY DEF Init
  <2>2. GotInv
    BY <2>1, DecoderStarts
  <2>3. /\ lidar \in Lidars /\ sent = 0 /\ got = <<>> /\ lastLast = 0 /\ rotation = 0
        /\ last = (IF lidar.rule \in {"parity", "column"} THEN -1 ELSE 0)
        /\ useAngle = TRUE /\ timeout = "no"
    BY <2>1 DEF Decoder!Init
  <2>4. OrderInv
    BY <2>3 DEF OrderInv
  <2>5. lidar.rule = "azimuth" => VoteInv
    <3>1. Seen = {}
      BY <2>3 DEF Seen
    <3>2. IsFiniteSet({}) /\ Cardinality({}) = 0
      BY FS_EmptySet
    <3> QED
      BY <2>3, <3>1, <3>2 DEF VoteInv
  <2>6. Decoder!FramesAreTurns
    BY <2>3 DEF Decoder!FramesAreTurns
  <2> QED
    BY <2>2, <2>3, <2>4, <2>5, <2>6 DEF TurnInv
<1>2. Inv /\ [Next]_vars => Inv'
  <2> SUFFICES ASSUME Inv, [Next]_vars, (part = "frames")' PROVE GotInv' /\ OrderInv' /\ TurnInv'
    OBVIOUS
  <2>1. part = "frames" /\ GotInv /\ OrderInv /\ TurnInv
    BY DEF Next, OfSerial, OfTcp, OfPcap, OfDecoder, OfClouds, vars
  <2>2. CASE OfDecoder(Decoder!Next)
    <3>1. Decoder!Next
      BY <2>2 DEF OfDecoder
    <3> QED
      BY <2>1, <3>1, DecoderKeepsTurns
  <2>3. CASE UNCHANGED vars
    <3>1. UNCHANGED <<lidar, sent, odd, got, last, lastLast, rotation, useAngle, timeout, split>>
      BY <2>3 DEF vars, varsSent, varsGot, varsFrames
    <3>2. GotInv' /\ OrderInv'
      BY <2>1, <3>1 DEF GotInv, OrderInv
    <3>3. Decoder!FramesAreTurns' /\ (lidar.rule = "azimuth" => VoteInv)'
          /\ (got' # <<>> => last' = Decoder!Key(got[Len(got)])')
      BY <2>1, <3>1, TurnsStay
    <3>4. /\ Decoder!FrameOf(got[Len(got)])' = Decoder!FrameOf(got[Len(got)])
          /\ Decoder!FrameOf(sent + 1)' = Decoder!FrameOf(sent + 1)
      BY <3>1 DEF Decoder!FrameOf
    <3>5. TurnInv'
      BY <2>1, <3>1, <3>3, <3>4 DEF TurnInv
    <3> QED
      BY <3>2, <3>5
  <2> QED
    BY <2>1, <2>2, <2>3 DEF Next, OfSerial, OfTcp, OfPcap, OfClouds
<1>3. Inv => FramesAreTurns
  BY DEF FramesAreTurns, TurnInv
<1> QED
  BY <1>1, <1>2, <1>3, PTL DEF Spec

-----------------------------------------------------------------------------
(* FrameClouds.  Does a point whose angles these are lie in that cell?     *)
LiesIn(angles, cell) ==
  LET azi == (cell \div ElevScan) * Resolution
      elev == (cell % ElevScan) * Resolution
  IN /\ angles.azi \in azi .. azi + Resolution - 1
     /\ angles.elev \in elev .. elev + Resolution - 1

(* A floored quotient is q exactly from q * r on, up to the next.           *)
IsQuotient(x, r, q) == x \div r = q <=> x \in q * r .. q * r + r - 1

LEMMA QuotientIs ==
  ASSUME NEW x \in Nat, NEW r \in Nat \ {0}, NEW q \in Nat
  PROVE  IsQuotient(x, r, q)
<1> DEFINE d == x \div r
           t == x % r
<1>1. d \in Nat /\ t \in 0 .. r - 1 /\ x = r * d + t
  OBVIOUS
<1> HIDE DEF d, t
<1>2. r * d = d * r /\ d * r \in Nat /\ q * r \in Nat
  BY <1>1
<1>3. d < q => d * r + r <= q * r
  <2> SUFFICES ASSUME d < q PROVE d * r + r <= q * r
    OBVIOUS
  <2> DEFINE c == q - d - 1
  <2>1. c \in Nat /\ q = d + 1 + c
    BY <1>1
  <2> HIDE DEF c
  <2>2. (d + 1 + c) * r = d * r + r + c * r /\ c * r \in Nat
    BY <1>1, <2>1
  <2>3. q * r = d * r + r + c * r
    BY <2>1, <2>2
  <2> QED
    BY <1>2, <2>2, <2>3
<1>4. q < d => q * r + r <= d * r
  <2> SUFFICES ASSUME q < d PROVE q * r + r <= d * r
    OBVIOUS
  <2> DEFINE c == d - q - 1
  <2>1. c \in Nat /\ d = q + 1 + c
    BY <1>1
  <2> HIDE DEF c
  <2>2. (q + 1 + c) * r = q * r + r + c * r /\ c * r \in Nat
    BY <1>1, <2>1
  <2>3. d * r = q * r + r + c * r
    BY <2>1, <2>2
  <2> QED
    BY <1>2, <2>2, <2>3
<1>5. x = d * r + t
  BY <1>1, <1>2
<1>6. d = q => x \in q * r .. q * r + r - 1
  BY <1>1, <1>2, <1>5
<1>7. x \in q * r .. q * r + r - 1 => d = q
  <2> DEFINE a == q * r
             b == d * r
  <2>1. a \in Nat /\ b \in Nat /\ x = b + t /\ (d < q => b + r <= a) /\ (q < d => a + r <= b)
    BY <1>2, <1>3, <1>4, <1>5
  <2> HIDE DEF a, b
  <2>2. x \in a .. a + r - 1 => ~(d < q) /\ ~(q < d)
    BY <1>1, <2>1
  <2> QED
    BY <1>1, <2>2 DEF a
<1>8. d = q <=> x \in q * r .. q * r + r - 1
  BY <1>6, <1>7
<1> QED
  BY <1>8 DEF d, IsQuotient

(* A cell of the grid is a row and a column of it.                         *)
LEMMA CellIs ==
  ASSUME NEW c \in 0 .. Clouds!Cells - 1
  PROVE  /\ c \div ElevScan \in 0 .. AziScan - 1 /\ c % ElevScan \in 0 .. ElevScan - 1
         /\ c = (c \div ElevScan) * ElevScan + (c % ElevScan)
<1>1. AziScan \in Nat \ {0} /\ ElevScan \in Nat \ {0} /\ Clouds!Cells = AziScan * ElevScan
  BY CloudsParameters DEF Clouds!CloudsAssumption, Clouds!Cells
<1>2. AziScan * ElevScan \in Nat
  BY <1>1
<1>3. c \in Nat /\ c < AziScan * ElevScan
  BY <1>1, <1>2
<1> DEFINE a == c \div ElevScan
           e == c % ElevScan
<1>4. a \in Nat /\ e \in 0 .. ElevScan - 1 /\ c = ElevScan * a + e
  BY <1>1, <1>3
<1> HIDE DEF a, e
<1>5. ElevScan * a = a * ElevScan /\ a * ElevScan \in Nat
  BY <1>1, <1>4
<1>6. a < AziScan
  <2> SUFFICES ASSUME ~(a < AziScan) PROVE FALSE
    OBVIOUS
  <2> DEFINE d == a - AziScan
  <2>1. d \in Nat /\ a = AziScan + d
    BY <1>1, <1>4
  <2> HIDE DEF d
  <2>2. (AziScan + d) * ElevScan = AziScan * ElevScan + d * ElevScan /\ d * ElevScan \in Nat
    BY <1>1, <2>1
  <2>3. a * ElevScan = AziScan * ElevScan + d * ElevScan
    BY <2>1, <2>2
  <2> QED
    BY <1>2, <1>3, <1>4, <1>5, <2>2, <2>3
<1>7. a \in 0 .. AziScan - 1 /\ e \in 0 .. ElevScan - 1 /\ c = a * ElevScan + e
  BY <1>1, <1>4, <1>5, <1>6
<1> QED
  BY <1>7 DEF a, e

(* Without a point below the grid, DoRemake finds the cell of a point.     *)
LEMMA RemakeFinds ==
  ASSUME NEW angles \in [azi : Nat, elev : Nat], NEW c \in 0 .. Clouds!Cells - 1
  PROVE  Clouds!DoRemake(angles) = c <=> LiesIn(angles, c)
<1>1. /\ AziScan \in Nat \ {0} /\ ElevScan \in Nat \ {0} /\ Resolution \in Nat \ {0}
      /\ Clouds!Cells \in Nat
  BY CloudsParameters DEF Clouds!CloudsAssumption, Clouds!Cells
<1>2. angles.azi \in Nat /\ angles.elev \in Nat
  OBVIOUS
<1> DEFINE a == angles.azi \div Resolution
           e == angles.elev \div Resolution
           i == c \div ElevScan
           j == c % ElevScan
<1>3. a \in Nat /\ e \in Nat
  BY <1>1, <1>2
<1>4. Clouds!Scan(angles.azi) = a /\ Clouds!Scan(angles.elev) = e
  BY <1>2 DEF Clouds!Scan
<1>5. Clouds!DoRemake(angles) =
        IF a \in 0 .. AziScan - 1 /\ e \in 0 .. ElevScan - 1 THEN a * ElevScan + e ELSE -1
  BY <1>4 DEF Clouds!DoRemake
<1>6. i \in 0 .. AziScan - 1 /\ j \in 0 .. ElevScan - 1 /\ c = i * ElevScan + j
  BY CellIs
<1>7. LiesIn(angles, c) <=> a = i /\ e = j
  <2> HIDE DEF i, j
  <2>1. i \in Nat /\ j \in Nat
    BY <1>1, <1>6
  <2>2. IsQuotient(angles.azi, Resolution, i) /\ IsQuotient(angles.elev, Resolution, j)
    BY <1>1, <1>2, <2>1, QuotientIs
  <2>3. a = i <=> angles.azi \in i * Resolution .. i * Resolution + Resolution - 1
    BY <2>2 DEF IsQuotient
  <2>4. e = j <=> angles.elev \in j * Resolution .. j * Resolution + Resolution - 1
    BY <2>2 DEF IsQuotient
  <2> QED
    BY <2>3, <2>4 DEF LiesIn, i, j
<1> HIDE DEF a, e, i, j
<1>8. a = i /\ e = j => Clouds!DoRemake(angles) = c
  BY <1>5, <1>6
<1>9. Clouds!DoRemake(angles) = c => a = i /\ e = j
  <2> SUFFICES ASSUME Clouds!DoRemake(angles) = c PROVE a = i /\ e = j
    OBVIOUS
  <2>1. a \in 0 .. AziScan - 1 /\ e \in 0 .. ElevScan - 1 /\ a * ElevScan + e = c
    <3>1. c \in Nat
      BY <1>1
    <3> QED
      BY <1>5, <3>1
  <2>2. a * ElevScan + e \in a * ElevScan .. a * ElevScan + ElevScan - 1
        /\ i * ElevScan + j \in i * ElevScan .. i * ElevScan + ElevScan - 1
    <3>1. a * ElevScan \in Nat /\ i * ElevScan \in Nat
      BY <1>1, <1>3, <1>6
    <3> QED
      BY <1>1, <1>3, <1>6, <2>1, <3>1
  <2>3. c \in Nat /\ c \in a * ElevScan .. a * ElevScan + ElevScan - 1
        /\ c \in i * ElevScan .. i * ElevScan + ElevScan - 1
    BY <1>1, <1>6, <2>1, <2>2
  <2>4. c \div ElevScan = a /\ c \div ElevScan = i
    <3>1. i \in Nat
      BY <1>1, <1>6
    <3>2. IsQuotient(c, ElevScan, a) /\ IsQuotient(c, ElevScan, i)
      BY <1>1, <1>3, <2>3, <3>1, QuotientIs
    <3> QED
      BY <2>3, <3>2 DEF IsQuotient
  <2>5. a = i
    BY <2>4
  <2>6. e = j
    <3> DEFINE z == a * ElevScan
    <3>1. z \in Nat /\ z + e = c /\ z + j = c
      BY <1>1, <1>3, <1>6, <2>1, <2>5
    <3> HIDE DEF z
    <3> QED
      BY <1>1, <1>3, <1>6, <3>1
  <2> QED
    BY <2>5, <2>6
<1> QED
  BY <1>7, <1>8, <1>9


(* What a place of a frame may be, and a frame that went into a cloud.     *)
Point == [frame : Nat, slot : Nat, k : Nat]
DoneFrame == [index : Nat \ {0}, contents : Seq(Contents)]

(* The points computed so far that lie in a cell.                          *)
HereNow(c) ==
  {p \in [frame : {frameIndex}, slot : 0 .. packetNum - 1, k : 1 .. PerPoints] :
     /\ contents[p.slot + 1] # Clouds!NotYet /\ p.k \in DOMAIN contents[p.slot + 1]
     /\ LiesIn(contents[p.slot + 1][p.k], c)}
Holds(here, p) == IF here = {} THEN p = Clouds!Blank ELSE p \in here

FrameTyped ==
  /\ remake \in BOOLEAN /\ rate \in Rates
  /\ frameIndex \in Nat \ {0} /\ packetNum \in 0 .. MaxInFrame
  /\ contents \in Seq(Contents \cup {Clouds!NotYet}) /\ Len(contents) = packetNum
  /\ points \in [Clouds!Places -> Point]
  /\ validPoints \in [Clouds!Slots -> 0 .. PerPoints]
GridInv ==
  remake => /\ packetNum < MaxInFrame
            /\ \A c \in 0 .. Clouds!Cells - 1 : Holds(HereNow(c), points[c])

(* How many slots and points there are.                                    *)
LEMMA FrameBounds ==
  ASSUME FrameTyped
  PROVE  /\ packetNum \in Nat /\ packetNum <= MaxInFrame /\ MaxInFrame \in Nat /\ PerPoints \in Nat
         /\ \A t \in 0 .. packetNum - 1 : validPoints[t] \in 0 .. PerPoints /\ validPoints[t] \in Nat
<1>1. packetNum \in 0 .. MaxInFrame /\ MaxInFrame \in Nat /\ PerPoints \in Nat
  BY CloudsParameters DEF FrameTyped, Clouds!CloudsAssumption
<1>2. \A t \in 0 .. packetNum - 1 : validPoints[t] \in 0 .. PerPoints
  BY <1>1 DEF FrameTyped, Clouds!Slots
<1> QED
  BY <1>1, <1>2

(* What the filters left of a packet is not what stands for none yet.      *)
LEMMA ContentTyped ==
  ASSUME NEW content \in Contents
  PROVE  /\ content \in Seq([azi : Int, elev : Int]) /\ Len(content) \in 0 .. PerPoints
         /\ DOMAIN content = 1 .. Len(content)
         /\ content # Clouds!NotYet
         /\ NoneBelow => \A k \in DOMAIN content : content[k] \in [azi : Nat, elev : Nat]
<1>1. content \in Seq([azi : Int, elev : Int]) /\ Len(content) <= PerPoints
      /\ (NoneBelow => \A k \in DOMAIN content : content[k].azi >= 0 /\ content[k].elev >= 0)
  BY CloudsParameters DEF Clouds!CloudsAssumption
<1>2. Len(content) \in Nat /\ DOMAIN content = 1 .. Len(content)
      /\ \A k \in 1 .. Len(content) : content[k] \in [azi : Int, elev : Int]
  BY <1>1, LenProperties, ElementOfSeq
<1>3. content # Clouds!NotYet
  <2> SUFFICES ASSUME content = Clouds!NotYet PROVE FALSE
    OBVIOUS
  <2>1. Len(content) = 1 /\ content[1] = Clouds!Blank
    BY DEF Clouds!NotYet
  <2>2. Clouds!Blank \in [azi : Int, elev : Int]
    BY <1>2, <2>1
  <2>3. DOMAIN Clouds!Blank = {"azi", "elev"}
    BY <2>2
  <2>4. DOMAIN Clouds!Blank = {"frame", "slot", "k"}
    BY DEF Clouds!Blank
  <2> QED
    BY <2>3, <2>4
<1>4. NoneBelow => \A k \in DOMAIN content : content[k] \in [azi : Nat, elev : Nat]
  <2> SUFFICES ASSUME NoneBelow, NEW k \in DOMAIN content PROVE content[k] \in [azi : Nat, elev : Nat]
    OBVIOUS
  <2>1. content[k] \in [azi : Int, elev : Int] /\ content[k].azi >= 0 /\ content[k].elev >= 0
    BY <1>1, <1>2
  <2>2. content[k].azi \in Nat /\ content[k].elev \in Nat
    BY <2>1
  <2>3. content[k] = [azi |-> content[k].azi, elev |-> content[k].elev]
    BY <2>1
  <2> QED
    BY <2>2, <2>3
<1> QED
  BY <1>1, <1>2, <1>3, <1>4

(* A set of places of a sequence has a last one.                           *)
LEMMA GreatestOf ==
  ASSUME NEW n \in Nat, NEW S \in SUBSET (1 .. n), S # {}
  PROVE  \E k \in S : \A l \in S : l <= k
<1> DEFINE T == {n - k : k \in S}
<1>1. T \subseteq Nat /\ T # {}
  <2>1. \A k \in S : n - k \in Nat
    OBVIOUS
  <2>2. PICK k \in S : TRUE
    OBVIOUS
  <2>3. n - k \in T
    OBVIOUS
  <2> QED
    BY <2>1, <2>3
<1> HIDE DEF T
<1>2. PICK x \in T : \A y \in T : x <= y
  BY <1>1, LeastNatural
<1>3. PICK k \in S : x = n - k
  BY DEF T
<1>4. \A l \in S : n - l \in T
  BY DEF T
<1>5. \A l \in S : n - k <= n - l
  BY <1>2, <1>3, <1>4
<1>6. \A l \in S : l <= k
  BY <1>5
<1> QED
  BY <1>6

(* ComputeXYZI: what a place has after it.                                 *)
ComputedBy(s, content, place) ==
  /\ \A k \in DOMAIN content :
       place[k] = IF remake THEN Clouds!DoRemake(content[k]) ELSE s * PerPoints + k - 1
  /\ contents[s + 1] = Clouds!NotYet /\ contents' = [contents EXCEPT ![s + 1] = content]
  /\ \A i \in Clouds!Places :
       \/ (\A k \in DOMAIN content : place[k] # i) /\ points'[i] = points[i]
       \/ \E k \in DOMAIN content :
            /\ place[k] = i /\ points'[i] = [frame |-> frameIndex, slot |-> s, k |-> k]
  /\ points' \in [Clouds!Places -> Point]
  /\ validPoints' = [validPoints EXCEPT
       ![s] = Clouds!Cardinality({k \in DOMAIN content : place[k] >= 0})]
  /\ UNCHANGED <<remake, rate, frameIndex, packetNum, multi, multiPackets, multiStart,
                 sends, merging, cloud>>

LEMMA Computed ==
  ASSUME FrameTyped, NEW s \in 0 .. packetNum - 1, Clouds!ComputeXYZI(s)
  PROVE  \E content \in Contents : \E place \in [DOMAIN content -> Int] : ComputedBy(s, content, place)
<1>1. PICK content \in Contents :
        LET place == [k \in DOMAIN content |->
                        IF remake THEN Clouds!DoRemake(content[k]) ELSE s * PerPoints + k - 1]
            at(i) == {k \in DOMAIN content : place[k] = i}
        IN /\ contents[s + 1] = Clouds!NotYet /\ contents' = [contents EXCEPT ![s + 1] = content]
           /\ points' = [i \in Clouds!Places |->
                IF at(i) = {} THEN points[i]
                ELSE [frame |-> frameIndex, slot |-> s,
                      k |-> CHOOSE k \in at(i) : \A l \in at(i) : l <= k]]
           /\ validPoints' = [validPoints EXCEPT
                ![s] = Clouds!Cardinality({k \in DOMAIN content : place[k] >= 0})]
           /\ UNCHANGED <<remake, rate, frameIndex, packetNum, Clouds!multiVars, cloud>>
  BY DEF Clouds!ComputeXYZI
<1> DEFINE place == [k \in DOMAIN content |->
                       IF remake THEN Clouds!DoRemake(content[k]) ELSE s * PerPoints + k - 1]
           at(i) == {k \in DOMAIN content : place[k] = i}
<1>2. Len(content) \in Nat /\ DOMAIN content = 1 .. Len(content)
      /\ \A k \in DOMAIN content : content[k] \in [azi : Int, elev : Int]
  <2>1. content \in Seq([azi : Int, elev : Int]) /\ Len(content) \in 0 .. PerPoints
        /\ DOMAIN content = 1 .. Len(content)
    BY ContentTyped
  <2>2. \A k \in 1 .. Len(content) : content[k] \in [azi : Int, elev : Int]
    BY <2>1, ElementOfSeq
  <2>3. Len(content) \in Nat
    BY <2>1, LenProperties
  <2> QED
    BY <2>1, <2>2, <2>3
<1>3. PerPoints \in Nat \ {0} /\ s \in Nat /\ ElevScan \in Nat \ {0} /\ AziScan \in Nat \ {0}
      /\ Resolution \in Nat \ {0}
  BY CloudsParameters DEF FrameTyped, Clouds!CloudsAssumption
<1>4. place \in [DOMAIN content -> Int]
  <2>1. \A a \in Int : Clouds!Scan(a) \in Int
    <3> SUFFICES ASSUME NEW a \in Int PROVE Clouds!Scan(a) \in Int
      OBVIOUS
    <3>1. a < 0 => (-a) \div Resolution \in Int
      BY <1>3
    <3>2. ~(a < 0) => a \div Resolution \in Int
      BY <1>3
    <3> QED
      BY <3>1, <3>2 DEF Clouds!Scan
  <2>2. \A a, e \in Int : a * ElevScan + e \in Int
    BY <1>3
  <2>3. \A k \in DOMAIN content : Clouds!DoRemake(content[k]) \in Int
    BY <1>2, <2>1, <2>2 DEF Clouds!DoRemake
  <2>4. \A k \in 1 .. Len(content) : s * PerPoints + k - 1 \in Int
    <3>1. s * PerPoints \in Int
      BY <1>3
    <3> DEFINE z == s * PerPoints
    <3> HIDE DEF z
    <3>2. \A k \in 1 .. Len(content) : z + k - 1 \in Int
      BY <1>2, <3>1 DEF z
    <3> QED
      BY <3>2 DEF z
  <2> QED
    BY <1>2, <2>3, <2>4
<1>5. \A k \in DOMAIN content :
        place[k] = IF remake THEN Clouds!DoRemake(content[k]) ELSE s * PerPoints + k - 1
  OBVIOUS
<1>6. /\ contents[s + 1] = Clouds!NotYet /\ contents' = [contents EXCEPT ![s + 1] = content]
      /\ points' = [i \in Clouds!Places |->
           IF at(i) = {} THEN points[i]
           ELSE [frame |-> frameIndex, slot |-> s,
                 k |-> CHOOSE k \in at(i) : \A l \in at(i) : l <= k]]
      /\ validPoints' = [validPoints EXCEPT
           ![s] = Clouds!Cardinality({k \in DOMAIN content : place[k] >= 0})]
      /\ UNCHANGED <<remake, rate, frameIndex, packetNum, multi, multiPackets, multiStart,
                     sends, merging, cloud>>
  BY <1>1 DEF Clouds!multiVars
<1> HIDE DEF place
<1>7. \A i : at(i) # {} => (CHOOSE k \in at(i) : \A l \in at(i) : l <= k) \in at(i)
  <2> SUFFICES ASSUME NEW i, at(i) # {} PROVE (CHOOSE k \in at(i) : \A l \in at(i) : l <= k) \in at(i)
    OBVIOUS
  <2> DEFINE S == at(i)
  <2>1. S \in SUBSET (1 .. Len(content)) /\ S # {}
    BY <1>2
  <2> HIDE DEF S
  <2>2. \E k \in S : \A l \in S : l <= k
    BY <1>2, <2>1, GreatestOf
  <2>3. (CHOOSE k \in S : \A l \in S : l <= k) \in S
    BY <2>2
  <2> QED
    BY <2>3 DEF S
<1>8. \A i \in Clouds!Places :
        \/ (\A k \in DOMAIN content : place[k] # i) /\ points'[i] = points[i]
        \/ \E k \in DOMAIN content :
             /\ place[k] = i /\ points'[i] = [frame |-> frameIndex, slot |-> s, k |-> k]
  <2> SUFFICES ASSUME NEW i \in Clouds!Places
               PROVE  \/ (\A k \in DOMAIN content : place[k] # i) /\ points'[i] = points[i]
                      \/ \E k \in DOMAIN content :
                           /\ place[k] = i
                           /\ points'[i] = [frame |-> frameIndex, slot |-> s, k |-> k]
    OBVIOUS
  <2>1. CASE at(i) = {}
    <3>1. points'[i] = points[i]
      BY <1>6, <2>1
    <3>2. \A k \in DOMAIN content : place[k] # i
      BY <2>1
    <3> QED
      BY <3>1, <3>2
  <2>2. CASE at(i) # {}
    <3> DEFINE m == CHOOSE k \in at(i) : \A l \in at(i) : l <= k
    <3>1. points'[i] = [frame |-> frameIndex, slot |-> s, k |-> m]
      BY <1>6, <2>2
    <3>2. m \in at(i)
      BY <1>7, <2>2
    <3> HIDE DEF m
    <3> QED
      BY <3>1, <3>2
  <2> QED
    BY <2>1, <2>2
<1>9. points' \in [Clouds!Places -> Point]
  <2>1. \A i \in Clouds!Places : points[i] \in Point /\ points'[i] \in Point
    <3>1. frameIndex \in Nat /\ \A k \in DOMAIN content : k \in Nat
      BY <1>2 DEF FrameTyped
    <3>2. \A k \in DOMAIN content : [frame |-> frameIndex, slot |-> s, k |-> k] \in Point
      BY <1>3, <3>1 DEF Point
    <3>3. \A i \in Clouds!Places : points[i] \in Point
      BY DEF FrameTyped
    <3> QED
      BY <1>8, <3>2, <3>3
  <2>2. DOMAIN points' = Clouds!Places /\ points' = [i \in Clouds!Places |-> points'[i]]
    BY <1>6
  <2> QED
    BY <2>1, <2>2
<1>10. ComputedBy(s, content, place)
  BY <1>5, <1>6, <1>8, <1>9 DEF ComputedBy
<1> QED
  BY <1>4, <1>10


(* The places of the grid's cells. *)
LEMMA CellsArePlaces ==
  /\ Clouds!Cells \in Nat \ {0}
  /\ \A c \in 0 .. Clouds!Cells - 1 : c \in Clouds!Places
<1>1. /\ AziScan \in Nat \ {0} /\ ElevScan \in Nat \ {0} /\ PerPoints \in Nat \ {0} /\ MaxInFrame \in Nat
      /\ AziScan <= MaxInFrame /\ ElevScan <= PerPoints
  BY CloudsParameters DEF Clouds!CloudsAssumption
<1>2. AziScan * ElevScan <= MaxInFrame * PerPoints
  <2>1. AziScan * ElevScan <= AziScan * PerPoints
    BY <1>1
  <2>2. AziScan * PerPoints <= MaxInFrame * PerPoints
    BY <1>1
  <2>3. AziScan * ElevScan \in Nat /\ AziScan * PerPoints \in Nat /\ MaxInFrame * PerPoints \in Nat
    BY <1>1
  <2> QED
    BY <2>1, <2>2, <2>3
<1>3. AziScan * ElevScan \in Nat \ {0} /\ MaxInFrame * PerPoints \in Nat
  BY <1>1
<1> QED
  BY <1>2, <1>3 DEF Clouds!Cells, Clouds!Places

LEMMA FrameComputed ==
  ASSUME FrameTyped, NEW s \in 0 .. packetNum - 1, Clouds!ComputeXYZI(s)
  PROVE  FrameTyped'
<1>1. PICK content \in Contents : \E place \in [DOMAIN content -> Int] : ComputedBy(s, content, place)
  BY Computed
<1>2. PICK place \in [DOMAIN content -> Int] : ComputedBy(s, content, place)
  BY <1>1
<1>3. /\ contents' = [contents EXCEPT ![s + 1] = content] /\ points' \in [Clouds!Places -> Point]
      /\ validPoints' = [validPoints EXCEPT
           ![s] = Clouds!Cardinality({k \in DOMAIN content : place[k] >= 0})]
      /\ UNCHANGED <<remake, rate, frameIndex, packetNum>>
  BY <1>2 DEF ComputedBy
<1>4. /\ contents \in Seq(Contents \cup {Clouds!NotYet}) /\ Len(contents) = packetNum
      /\ s + 1 \in 1 .. packetNum /\ packetNum \in Nat
  BY LenProperties DEF FrameTyped
<1>5. /\ contents' \in Seq(Contents \cup {Clouds!NotYet}) /\ Len(contents') = packetNum
  <2> DEFINE T == Contents \cup {Clouds!NotYet}
  <2>1. content \in T /\ contents \in Seq(T)
    BY <1>4
  <2> HIDE DEF T
  <2>2. contents' \in Seq(T) /\ Len(contents') = packetNum
    BY <1>3, <1>4, <2>1, ExceptSeq
  <2> QED
    BY <2>2 DEF T
<1>6. Clouds!Cardinality({k \in DOMAIN content : place[k] >= 0}) \in 0 .. PerPoints
  <2> DEFINE S == {k \in DOMAIN content : place[k] >= 0}
  <2>1. Len(content) \in 0 .. PerPoints /\ DOMAIN content = 1 .. Len(content)
    BY ContentTyped
  <2>2. Len(content) \in Nat /\ S \subseteq 1 .. Len(content)
    BY <2>1, LenProperties, CloudsParameters DEF Clouds!CloudsAssumption
  <2> HIDE DEF S
  <2> DEFINE l == Len(content)
  <2>3. IsFiniteSet(1 .. l) /\ Cardinality(1 .. l) = l
    <3>1. l \in Nat /\ 1 \in Int
      BY <2>2
    <3> HIDE DEF l
    <3>2. IsFiniteSet(1 .. l) /\ Cardinality(1 .. l) = IF 1 > l THEN 0 ELSE l - 1 + 1
      BY <3>1, FS_Interval
    <3> QED
      BY <3>1, <3>2
  <2>4. IsFiniteSet(S) /\ Cardinality(S) <= Len(content) /\ Cardinality(S) \in Nat
    BY <2>2, <2>3, FS_Subset, FS_CardinalityType
  <2>5. Cardinality(S) \in 0 .. PerPoints
    <3> DEFINE c == Cardinality(S)
    <3>1. c \in Nat /\ c <= l /\ l \in Nat /\ l \in 0 .. PerPoints /\ PerPoints \in Nat
      BY <2>1, <2>2, <2>4, CloudsParameters DEF Clouds!CloudsAssumption
    <3> HIDE DEF c, l
    <3>2. c \in 0 .. PerPoints
      BY <3>1
    <3> QED
      BY <3>2 DEF c
  <2>6. Clouds!Cardinality(S) = Cardinality(S)
    BY DEF Clouds!Cardinality, Cardinality
  <2> QED
    BY <2>5, <2>6 DEF S
<1>7. validPoints' \in [Clouds!Slots -> 0 .. PerPoints]
  <2> DEFINE c == Clouds!Cardinality({k \in DOMAIN content : place[k] >= 0})
  <2>1. validPoints' = [validPoints EXCEPT ![s] = c] /\ c \in 0 .. PerPoints
    BY <1>3, <1>6
  <2> HIDE DEF c
  <2> QED
    BY <2>1 DEF FrameTyped
<1> QED
  BY <1>3, <1>5, <1>7 DEF FrameTyped, Clouds!Places, Clouds!Slots

(* A point computed goes to the place of its cell.                         *)
LEMMA GridComputed ==
  ASSUME NoneBelow, FrameTyped, GridInv, NEW s \in 0 .. packetNum - 1, Clouds!ComputeXYZI(s)
  PROVE  GridInv'
<1>1. PICK content \in Contents : \E place \in [DOMAIN content -> Int] : ComputedBy(s, content, place)
  BY Computed
<1>2. PICK place \in [DOMAIN content -> Int] : ComputedBy(s, content, place)
  BY <1>1
<1>3. /\ \A k \in DOMAIN content :
           place[k] = IF remake THEN Clouds!DoRemake(content[k]) ELSE s * PerPoints + k - 1
      /\ contents[s + 1] = Clouds!NotYet /\ contents' = [contents EXCEPT ![s + 1] = content]
      /\ \A i \in Clouds!Places :
           \/ (\A k \in DOMAIN content : place[k] # i) /\ points'[i] = points[i]
           \/ \E k \in DOMAIN content :
                /\ place[k] = i /\ points'[i] = [frame |-> frameIndex, slot |-> s, k |-> k]
      /\ UNCHANGED <<remake, rate, frameIndex, packetNum>>
  BY <1>2 DEF ComputedBy
<1>4. /\ packetNum \in Nat /\ s \in Nat /\ Len(contents) = packetNum
      /\ contents \in Seq(Contents \cup {Clouds!NotYet})
      /\ PerPoints \in Nat \ {0} /\ Clouds!Cells \in Nat
      /\ \A c \in 0 .. Clouds!Cells - 1 : c \in Clouds!Places
  BY CellsArePlaces, CloudsParameters DEF FrameTyped, Clouds!CloudsAssumption
<1>5. /\ content \in Seq([azi : Int, elev : Int]) /\ Len(content) \in 0 .. PerPoints
      /\ DOMAIN content = 1 .. Len(content) /\ content # Clouds!NotYet
      /\ \A k \in DOMAIN content : content[k] \in [azi : Nat, elev : Nat]
  BY ContentTyped
<1>6. contents'[s + 1] = content /\ \A t \in 0 .. packetNum - 1 : t # s => contents'[t + 1] = contents[t + 1]
  <2>1. s + 1 \in DOMAIN contents /\ DOMAIN contents = 1 .. packetNum
    BY <1>4, LenProperties
  <2> QED
    BY <1>3, <1>4, <2>1
<1> SUFFICES ASSUME remake, NEW c \in 0 .. Clouds!Cells - 1 PROVE Holds(HereNow(c), points[c])'
  <2>1. (\A c \in 0 .. Clouds!Cells - 1 : Holds(HereNow(c), points[c])')
        => (\A c \in 0 .. Clouds!Cells - 1 : Holds(HereNow(c), points[c]))'
    BY DEF Clouds!Cells
  <2> QED
    BY <1>3, <2>1 DEF GridInv
<1>7. Holds(HereNow(c), points[c])
  BY DEF GridInv
<1>8. \A k \in DOMAIN content : place[k] = c <=> LiesIn(content[k], c)
  BY <1>3, <1>5, RemakeFinds
<1>9. HereNow(c) \subseteq HereNow(c)'
  <2> SUFFICES ASSUME NEW p \in HereNow(c) PROVE p \in HereNow(c)'
    OBVIOUS
  <2>1. /\ p \in [frame : {frameIndex}, slot : 0 .. packetNum - 1, k : 1 .. PerPoints]
        /\ contents[p.slot + 1] # Clouds!NotYet /\ p.k \in DOMAIN contents[p.slot + 1]
        /\ LiesIn(contents[p.slot + 1][p.k], c)
    BY DEF HereNow
  <2>2. p.slot \in 0 .. packetNum - 1 /\ p.slot # s
    BY <1>3, <2>1
  <2>3. contents'[p.slot + 1] = contents[p.slot + 1]
    BY <1>6, <2>2
  <2>4. /\ p \in [frame : {frameIndex'}, slot : 0 .. packetNum' - 1, k : 1 .. PerPoints]
        /\ contents'[p.slot + 1] # Clouds!NotYet /\ p.k \in DOMAIN contents'[p.slot + 1]
        /\ LiesIn(contents'[p.slot + 1][p.k], c)
    BY <1>3, <2>1, <2>3
  <2> QED
    BY <2>4 DEF HereNow, LiesIn, Clouds!NotYet, Clouds!Blank
<1>10. \A p \in HereNow(c)' : p \in HereNow(c) \/ (p.k \in DOMAIN content /\ place[p.k] = c)
  <2> SUFFICES ASSUME NEW p \in HereNow(c)'
               PROVE  p \in HereNow(c) \/ (p.k \in DOMAIN content /\ place[p.k] = c)
    OBVIOUS
  <2>1. /\ p \in [frame : {frameIndex'}, slot : 0 .. packetNum' - 1, k : 1 .. PerPoints]
        /\ contents'[p.slot + 1] # Clouds!NotYet /\ p.k \in DOMAIN contents'[p.slot + 1]
        /\ LiesIn(contents'[p.slot + 1][p.k], c)
    BY DEF HereNow, LiesIn, Clouds!NotYet, Clouds!Blank
  <2>2. CASE p.slot = s
    BY <1>6, <1>8, <2>1, <2>2
  <2>3. CASE p.slot # s
    <3>1. p.slot \in 0 .. packetNum - 1
      BY <1>3, <2>1
    <3>2. contents'[p.slot + 1] = contents[p.slot + 1]
      BY <1>6, <2>3, <3>1
    <3> QED
      BY <1>3, <2>1, <3>2 DEF HereNow
  <2> QED
    BY <2>2, <2>3
<1>11. CASE (\A k \in DOMAIN content : place[k] # c) /\ points'[c] = points[c]
  <2>1. HereNow(c)' = HereNow(c)
    BY <1>9, <1>10, <1>11
  <2> QED
    BY <1>7, <1>11, <2>1 DEF Holds, Clouds!Blank
<1>12. ASSUME NEW k \in DOMAIN content, place[k] = c,
              points'[c] = [frame |-> frameIndex, slot |-> s, k |-> k]
       PROVE  Holds(HereNow(c), points[c])'
  <2> DEFINE p == [frame |-> frameIndex, slot |-> s, k |-> k]
  <2>1. p.slot = s /\ p.k = k
    OBVIOUS
  <2>2. p \in [frame : {frameIndex'}, slot : 0 .. packetNum' - 1, k : 1 .. PerPoints]
    <3>1. k \in 1 .. PerPoints
      BY <1>4, <1>5
    <3> QED
      BY <1>3, <3>1
  <2>3. LiesIn(content[k], c)
    BY <1>8, <1>12
  <2>4. points'[c] = p
    BY <1>12
  <2> HIDE DEF p
  <2>5. /\ contents'[p.slot + 1] # Clouds!NotYet /\ p.k \in DOMAIN contents'[p.slot + 1]
        /\ LiesIn(contents'[p.slot + 1][p.k], c)
    BY <1>5, <1>6, <2>1, <2>3
  <2>6. p \in HereNow(c)'
    BY <2>2, <2>5 DEF HereNow, LiesIn, Clouds!NotYet, Clouds!Blank
  <2> QED
    BY <2>4, <2>6 DEF Holds
<1> QED
  BY <1>3, <1>4, <1>11, <1>12


(* A packet changes nothing of what is computed.                           *)
LEMMA GridPacket ==
  ASSUME FrameTyped, Clouds!Packet
  PROVE  FrameTyped' /\ (GridsFit /\ GridInv => GridInv')
<1> DEFINE T == Contents \cup {Clouds!NotYet}
           n == packetNum
<1>1. /\ n < (IF remake /\ GridsFit THEN MaxInFrame - 1 ELSE MaxInFrame)
      /\ packetNum' = n + 1 /\ contents' = Append(contents, Clouds!NotYet)
      /\ UNCHANGED <<remake, rate, frameIndex, points, validPoints>>
  BY DEF Clouds!Packet
<1>2. contents \in Seq(T) /\ Len(contents) = n /\ n \in Nat /\ Clouds!NotYet \in T /\ MaxInFrame \in Nat
  BY CloudsParameters, LenProperties DEF FrameTyped, Clouds!CloudsAssumption
<1> HIDE DEF T
<1>3. /\ contents' \in Seq(T) /\ Len(contents') = n + 1
      /\ \A i \in 1 .. n : contents'[i] = contents[i]
      /\ contents'[n + 1] = Clouds!NotYet
  BY <1>1, <1>2, AppendProperties
<1>4. n + 1 \in 0 .. MaxInFrame
  BY <1>1, <1>2
<1>5. FrameTyped'
  BY <1>1, <1>3, <1>4 DEF FrameTyped, T, Clouds!Places, Clouds!Slots, Clouds!NotYet, Clouds!Blank
<1>6. ASSUME GridsFit, GridInv, remake PROVE n + 1 < MaxInFrame
  BY <1>1, <1>2, <1>6
<1>7. ASSUME GridInv, remake, NEW c \in 0 .. Clouds!Cells - 1 PROVE Holds(HereNow(c), points[c])'
  <2>1. HereNow(c) \subseteq HereNow(c)'
    <3> SUFFICES ASSUME NEW p \in HereNow(c) PROVE p \in HereNow(c)'
      OBVIOUS
    <3>1. /\ p \in [frame : {frameIndex}, slot : 0 .. n - 1, k : 1 .. PerPoints]
          /\ contents[p.slot + 1] # Clouds!NotYet /\ p.k \in DOMAIN contents[p.slot + 1]
          /\ LiesIn(contents[p.slot + 1][p.k], c)
      BY DEF HereNow
    <3>2. p.slot + 1 \in 1 .. n
      BY <1>2, <3>1
    <3>3. contents'[p.slot + 1] = contents[p.slot + 1]
      BY <1>3, <3>2
    <3>4. p \in [frame : {frameIndex'}, slot : 0 .. packetNum' - 1, k : 1 .. PerPoints]
      <4>1. 0 .. n - 1 \subseteq 0 .. packetNum' - 1 /\ frameIndex' = frameIndex
        BY <1>1, <1>2
      <4> QED
        BY <3>1, <4>1
    <3> QED
      BY <3>1, <3>3, <3>4 DEF HereNow, LiesIn, Clouds!NotYet, Clouds!Blank
  <2>2. HereNow(c)' \subseteq HereNow(c)
    <3> SUFFICES ASSUME NEW p \in HereNow(c)' PROVE p \in HereNow(c)
      OBVIOUS
    <3>1. /\ p \in [frame : {frameIndex'}, slot : 0 .. packetNum' - 1, k : 1 .. PerPoints]
          /\ contents'[p.slot + 1] # Clouds!NotYet /\ p.k \in DOMAIN contents'[p.slot + 1]
          /\ LiesIn(contents'[p.slot + 1][p.k], c)
      BY DEF HereNow, LiesIn, Clouds!NotYet, Clouds!Blank
    <3>2. p.slot \in 0 .. n /\ p.slot # n
      BY <1>1, <1>2, <1>3, <3>1
    <3>3. p.slot \in 0 .. n - 1 /\ p.slot + 1 \in 1 .. n
      BY <1>2, <3>2
    <3>4. contents'[p.slot + 1] = contents[p.slot + 1]
      BY <1>3, <3>3
    <3>5. p \in [frame : {frameIndex}, slot : 0 .. n - 1, k : 1 .. PerPoints]
      BY <1>1, <3>1, <3>3
    <3> QED
      BY <3>1, <3>4, <3>5 DEF HereNow
  <2>3. HereNow(c)' = HereNow(c)
    BY <2>1, <2>2
  <2>4. Holds(HereNow(c), points[c])
    BY <1>7 DEF GridInv
  <2> QED
    BY <1>1, <2>3, <2>4 DEF Holds, Clouds!Blank
<1>8. GridsFit /\ GridInv => GridInv'
  <2> SUFFICES ASSUME GridsFit, GridInv, remake
               PROVE  /\ packetNum' < MaxInFrame
                      /\ \A c \in 0 .. Clouds!Cells - 1 : Holds(HereNow(c), points[c])'
    BY <1>1 DEF GridInv, Clouds!Cells
  <2> QED
    BY <1>1, <1>6, <1>7
<1> QED
  BY <1>5, <1>8

(* What a frame leaves for the next: a grid is blank again.                *)
LEMMA GridAnew ==
  ASSUME FrameTyped, Clouds!Update, points' \in [Clouds!Places -> Point],
         remake => points' = [i \in Clouds!Places |-> Clouds!Blank], UNCHANGED <<remake, rate, validPoints>>
  PROVE  FrameTyped' /\ GridInv'
<1>1. frameIndex' = frameIndex + 1 /\ packetNum' = 0 /\ contents' = <<>>
  BY DEF Clouds!Update
<1>2. MaxInFrame \in Nat \ {0}
  BY CloudsParameters DEF Clouds!CloudsAssumption
<1>3. FrameTyped'
  <2>1. Len(contents') = 0 /\ contents' \in Seq(Contents \cup {Clouds!NotYet})
    BY <1>1
  <2>2. frameIndex' \in Nat \ {0} /\ packetNum' \in 0 .. MaxInFrame
    BY <1>1, <1>2 DEF FrameTyped
  <2> QED
    BY <1>1, <2>1, <2>2 DEF FrameTyped, Clouds!Places, Clouds!Slots, Clouds!NotYet, Clouds!Blank
<1>4. ASSUME remake, NEW c \in 0 .. Clouds!Cells - 1 PROVE Holds(HereNow(c), points[c])'
  <2>1. HereNow(c)' = {}
    <3>1. \A p \in HereNow(c)' : p.slot \in 0 .. packetNum' - 1
      BY DEF HereNow
    <3> QED
      BY <1>1, <3>1
  <2>2. points'[c] = Clouds!Blank
    BY <1>4, CellsArePlaces
  <2> QED
    BY <2>1, <2>2 DEF Holds, Clouds!Blank
<1>5. GridInv'
  <2> SUFFICES ASSUME remake
               PROVE  /\ packetNum' < MaxInFrame
                      /\ \A c \in 0 .. Clouds!Cells - 1 : Holds(HereNow(c), points[c])'
    BY DEF GridInv, Clouds!Cells
  <2> QED
    BY <1>1, <1>2, <1>4
<1> QED
  BY <1>3, <1>5


(* How many points the slots before one have.                              *)
LEMMA BeforeIs ==
  ASSUME packetNum \in Nat, \A s \in 0 .. packetNum - 1 : validPoints[s] \in Nat
  PROVE  /\ Clouds!Before[0] = 0
         /\ \A s \in 1 .. packetNum : Clouds!Before[s] = Clouds!Before[s-1] + validPoints[s-1]
         /\ \A s \in 0 .. packetNum : Clouds!Before[s] \in Nat
<1> DEFINE n == packetNum
           V == Nat
           e(i, v) == v + validPoints[i-1]
           step == [i \in 1 .. n |-> [v \in V |-> e(i, v)]]
           Of(f) == [i \in 0 .. n |-> IF i = 0 THEN 0 ELSE e(i, f[i-1])]
           f == CHOOSE h : h = Of(h)
<1>1. \A i \in 1 .. n : i - 1 \in 0 .. n /\ validPoints[i-1] \in Nat
  OBVIOUS
<1>2. \A i \in 1 .. n : \A v \in V : e(i, v) \in V
  BY <1>1
<1>3. Clouds!Before = f
  BY DEF Clouds!Before
<1> SUFFICES /\ f[0] = 0 /\ \A i \in 1 .. n : f[i] = e(i, f[i-1])
             /\ \A i \in 0 .. n : f[i] \in V
  BY <1>3
<1> HIDE DEF n, V, e
<1>4. n \in Nat /\ 0 \in V
  BY DEF n, V
<1>5. step \in [1 .. n -> [V -> V]]
  BY <1>2
<1>6. PICK g \in [0 .. n -> V] : g[0] = 0 /\ \A i \in 1 .. n : g[i] = step[i][g[i-1]]
  <2> HIDE DEF step
  <2>1. \E g : Recurs(g, V, n, 0, step)
    BY <1>4, <1>5, RecursionExists
  <2> QED
    BY <2>1 DEF Recurs
<1>7. \A i \in 1 .. n : g[i] = e(i, g[i-1])
  <2>1. \A i \in 1 .. n : g[i-1] \in V
    BY <1>1, <1>6 DEF n
  <2>2. \A i \in 1 .. n : \A v \in V : step[i][v] = e(i, v)
    OBVIOUS
  <2> HIDE DEF step
  <2> QED
    BY <1>6, <2>1, <2>2
<1>8. g = Of(g)
  BY <1>4, <1>6, <1>7
<1>9. f = Of(f)
  <2> HIDE DEF Of
  <2> QED
    BY <1>8
<1> HIDE DEF f
<1>10. f[0] = 0 /\ \A i \in 1 .. n : f[i] = e(i, f[i-1])
  BY <1>4, <1>9
<1>11. \A i \in 0 .. n : f[i] = g[i]
  <2>1. Alike(f, g, n)
    BY <1>6, <1>7, <1>10 DEF Alike
  <2> QED
    BY <1>4, <2>1, Agree
<1> QED
  BY <1>6, <1>10, <1>11

(* They are no more than the places of those slots. *)
LEMMA BeforeFits ==
  ASSUME packetNum \in Nat, PerPoints \in Nat,
         \A s \in 0 .. packetNum - 1 : validPoints[s] \in 0 .. PerPoints
  PROVE  \A s \in 0 .. packetNum : Clouds!Before[s] \in 0 .. s * PerPoints
<1> DEFINE b == Clouds!Before
           T == {s \in 0 .. packetNum : b[s] <= s * PerPoints}
<1>1. /\ b[0] = 0
      /\ \A s \in 1 .. packetNum : b[s] = b[s-1] + validPoints[s-1]
      /\ \A s \in 0 .. packetNum : b[s] \in Nat
  BY BeforeIs
<1> HIDE DEF b
<1>2. 0 \in T
  BY <1>1
<1>3. \A s \in 1 .. packetNum : s - 1 \in T => s \in T
  <2> SUFFICES ASSUME NEW s \in 1 .. packetNum, s - 1 \in T PROVE b[s] <= s * PerPoints
    OBVIOUS
  <2>1. b[s-1] <= (s - 1) * PerPoints /\ b[s-1] \in Nat /\ validPoints[s-1] \in 0 .. PerPoints
    BY <1>1
  <2>2. s * PerPoints = (s - 1) * PerPoints + PerPoints /\ (s - 1) * PerPoints \in Nat
    OBVIOUS
  <2> QED
    BY <1>1, <2>1, <2>2
<1> HIDE DEF T
<1>4. 0 .. packetNum \subseteq T
  BY <1>2, <1>3, UpTo
<1>5. \A s \in 0 .. packetNum : s * PerPoints \in Nat
  OBVIOUS
<1> QED
  BY <1>1, <1>4, <1>5 DEF T, b


(* memcpy moves n places, and leaves the rest.                             *)
CopyIs(array, to, from, n) ==
  LET copy == Clouds!Copied(array, to, from, n)
  IN /\ copy \in [Clouds!Places -> Point]
     /\ \A i \in Clouds!Places : i \notin to .. to + n - 1 => copy[i] = array[i]
     /\ ForwardCopy => \A i \in to .. to + n - 1 : copy[i] = array[from + (i - to)]

LEMMA CopiedIs ==
  ASSUME NEW array \in [Clouds!Places -> Point], NEW to \in Nat, NEW from \in Nat, to < from,
         NEW n \in Nat, from + n <= MaxInFrame * PerPoints
  PROVE  CopyIs(array, to, from, n)
<1> DEFINE gap == from - to
           farEnd(j) == j + ((n - 1 - j) \div gap) * gap
           copy == Clouds!Copied(array, to, from, n)
           size == MaxInFrame * PerPoints
<1>1. Clouds!Places = 0 .. size - 1 /\ size \in Nat /\ from + n <= size
  BY CloudsParameters DEF Clouds!Places, Clouds!CloudsAssumption
<1>2. gap \in Nat \ {0}
  OBVIOUS
<1>3. copy = [i \in Clouds!Places |->
                IF i \notin to .. to + n - 1 THEN array[i]
                ELSE array[from + IF ForwardCopy THEN i - to ELSE farEnd(i - to)]]
  BY DEF Clouds!Copied
<1>4. \A j \in 0 .. n - 1 : farEnd(j) \in 0 .. n - 1
  <2> SUFFICES ASSUME NEW j \in 0 .. n - 1 PROVE farEnd(j) \in 0 .. n - 1
    OBVIOUS
  <2> DEFINE x == n - 1 - j
             q == x \div gap
             t == x % gap
  <2>1. x \in Nat
    OBVIOUS
  <2> HIDE DEF gap, x
  <2>2. q \in Nat /\ t \in 0 .. gap - 1 /\ x = gap * q + t
    BY <1>2, <2>1
  <2> HIDE DEF q, t
  <2>3. gap * q = q * gap /\ q * gap \in Nat
    BY <1>2, <2>2
  <2>4. q * gap <= x
    BY <1>2, <2>2, <2>3
  <2>5. j + q * gap \in 0 .. n - 1
    BY <2>1, <2>3, <2>4 DEF x
  <2> QED
    BY <2>5 DEF q, x
<1> HIDE DEF copy, farEnd, size
<1>5. \A i \in to .. to + n - 1 :
        from + (IF ForwardCopy THEN i - to ELSE farEnd(i - to)) \in Clouds!Places
  <2> SUFFICES ASSUME NEW i \in to .. to + n - 1
               PROVE  from + (IF ForwardCopy THEN i - to ELSE farEnd(i - to)) \in Clouds!Places
    OBVIOUS
  <2>1. i - to \in 0 .. n - 1
    OBVIOUS
  <2>2. farEnd(i - to) \in 0 .. n - 1
    BY <1>4, <2>1
  <2>3. \A j \in 0 .. n - 1 : from + j \in Clouds!Places
    BY <1>1
  <2> QED
    BY <2>1, <2>2, <2>3
<1>6. \A i \in to .. to + n - 1 : i \in Clouds!Places
  BY <1>1
<1>7. \A i \in Clouds!Places : copy[i] \in Point
  BY <1>3, <1>5
<1>8. copy \in [Clouds!Places -> Point]
  <2>1. copy = [i \in Clouds!Places |-> copy[i]]
    BY <1>3
  <2> QED
    BY <1>7, <2>1
<1>9. \A i \in Clouds!Places : i \notin to .. to + n - 1 => copy[i] = array[i]
  BY <1>3
<1>10. ForwardCopy => \A i \in to .. to + n - 1 : copy[i] = array[from + (i - to)]
  BY <1>3, <1>6
<1> QED
  BY <1>8, <1>9, <1>10 DEF copy, CopyIs

(* The gaps are closed slot by slot.                                       *)
CompactsBy(f) ==
  /\ Clouds!Compacted = f[packetNum] /\ f[0] = points
  /\ \A s \in 0 .. packetNum : f[s] \in [Clouds!Places -> Point]
  /\ \A s \in 1 .. packetNum :
       f[s] = IF Clouds!Before[s-1] = (s - 1) * PerPoints THEN f[s-1]
              ELSE Clouds!Copied(f[s-1], Clouds!Before[s-1], (s - 1) * PerPoints, validPoints[s-1])

LEMMA CompactedIs ==
  ASSUME FrameTyped PROVE \E f : CompactsBy(f)
<1> DEFINE n == packetNum
           V == [Clouds!Places -> Point]
           b == Clouds!Before
           e(s, v) == IF b[s-1] = (s - 1) * PerPoints THEN v
                      ELSE Clouds!Copied(v, b[s-1], (s - 1) * PerPoints, validPoints[s-1])
           step == [s \in 1 .. n |-> [v \in V |-> e(s, v)]]
           Of(f) == [s \in 0 .. n |-> IF s = 0 THEN points ELSE e(s, f[s-1])]
           f == CHOOSE h : h = Of(h)
<1>1. n \in Nat /\ points \in V /\ PerPoints \in Nat /\ n <= MaxInFrame /\ MaxInFrame \in Nat
      /\ \A s \in 0 .. n - 1 : validPoints[s] \in 0 .. PerPoints
  <2>1. points \in V
    BY DEF FrameTyped
  <2> QED
    BY <2>1, FrameBounds
<1>2. \A s \in 0 .. n : b[s] \in 0 .. s * PerPoints
  BY <1>1, BeforeFits
<1>3. Clouds!Compacted = f[n]
  BY DEF Clouds!Compacted
<1> SUFFICES /\ f[0] = points /\ \A i \in 1 .. n : f[i] = e(i, f[i-1])
             /\ \A i \in 0 .. n : f[i] \in V
  BY <1>3 DEF CompactsBy
<1>4. \A s \in 1 .. n : \A v \in V : e(s, v) \in V
  <2> SUFFICES ASSUME NEW s \in 1 .. n, NEW v \in V, b[s-1] # (s - 1) * PerPoints
               PROVE  Clouds!Copied(v, b[s-1], (s - 1) * PerPoints, validPoints[s-1]) \in V
    OBVIOUS
  <2> DEFINE to == b[s-1]
             from == (s - 1) * PerPoints
             m == validPoints[s-1]
  <2>1. s - 1 \in 0 .. n /\ s - 1 \in 0 .. n - 1
    BY <1>1
  <2>2. from \in Nat
    BY <1>1, <2>1
  <2>3. from + PerPoints <= MaxInFrame * PerPoints
    <3>1. from + PerPoints = s * PerPoints /\ s * PerPoints <= MaxInFrame * PerPoints
      BY <1>1
    <3> QED
      BY <3>1
  <2>4. to \in 0 .. from /\ to # from /\ m \in 0 .. PerPoints
    BY <1>1, <1>2, <2>1
  <2> HIDE DEF to, from, m, b
  <2>5. to \in Nat /\ to < from /\ m \in Nat
    BY <1>1, <2>2, <2>4
  <2>6. from + m <= MaxInFrame * PerPoints
    <3>1. MaxInFrame * PerPoints \in Nat
      BY <1>1
    <3> QED
      BY <1>1, <2>2, <2>3, <2>4, <3>1
  <2>7. CopyIs(v, to, from, m)
    BY <2>2, <2>5, <2>6, CopiedIs
  <2> QED
    BY <2>7 DEF CopyIs, to, from, m
<1>5. \A s \in 1 .. n : s - 1 \in 0 .. n
  BY <1>1
<1> HIDE DEF n, V, e
<1>6. step \in [1 .. n -> [V -> V]]
  BY <1>4
<1> DEFINE base == points
<1>7. PICK g \in [0 .. n -> V] : g[0] = base /\ \A i \in 1 .. n : g[i] = step[i][g[i-1]]
  <2>1. n \in Nat /\ base \in V
    BY <1>1
  <2> HIDE DEF step, base
  <2>2. \E g : Recurs(g, V, n, base, step)
    BY <1>6, <2>1, RecursionExists
  <2> QED
    BY <2>2 DEF Recurs
<1>8. \A i \in 1 .. n : g[i] = e(i, g[i-1])
  <2>1. \A i \in 1 .. n : g[i-1] \in V
    BY <1>5, <1>7
  <2>2. \A i \in 1 .. n : \A v \in V : step[i][v] = e(i, v)
    OBVIOUS
  <2> HIDE DEF step
  <2> QED
    BY <1>7, <2>1, <2>2
<1>9. g = Of(g)
  BY <1>1, <1>7, <1>8
<1>10. f = Of(f)
  <2> HIDE DEF Of
  <2> QED
    BY <1>9
<1> HIDE DEF f
<1>11. f[0] = points /\ \A i \in 1 .. n : f[i] = e(i, f[i-1])
  BY <1>1, <1>10
<1>12. \A i \in 0 .. n : f[i] = g[i]
  <2>1. Alike(f, g, n)
    BY <1>7, <1>8, <1>11 DEF Alike
  <2> QED
    BY <1>1, <2>1, Agree
<1> QED
  BY <1>7, <1>11, <1>12


(* The points of a frame at its end are those of its places in front.      *)
LEMMA WholeTyped ==
  ASSUME FrameTyped
  PROVE  /\ Clouds!Finished \in [Clouds!Places -> Point]
         /\ Clouds!PointsNum \in Nat
         /\ Clouds!Whole \in Seq(Point) /\ Len(Clouds!Whole) = Clouds!PointsNum
         /\ \A i \in 1 .. Clouds!PointsNum : Clouds!Whole[i] = Clouds!Finished[i-1]
<1> DEFINE n == Clouds!PointsNum
           a == Clouds!Finished
           size == MaxInFrame * PerPoints
<1>1. /\ packetNum \in Nat /\ packetNum <= MaxInFrame /\ MaxInFrame \in Nat /\ PerPoints \in Nat
      /\ \A s \in 0 .. packetNum - 1 : validPoints[s] \in 0 .. PerPoints
  BY CloudsParameters DEF FrameTyped, Clouds!CloudsAssumption, Clouds!Slots
<1>2. a \in [Clouds!Places -> Point]
  <2>1. PICK f : CompactsBy(f)
    BY CompactedIs
  <2>2. f[packetNum] \in [Clouds!Places -> Point]
    BY <1>1, <2>1 DEF CompactsBy
  <2>3. Clouds!Compacted \in [Clouds!Places -> Point]
    BY <2>1, <2>2 DEF CompactsBy
  <2> QED
    BY <2>3 DEF Clouds!Finished, FrameTyped
<1>3. Clouds!Places = 0 .. size - 1 /\ size \in Nat
  BY <1>1 DEF Clouds!Places
<1>4. n \in Nat /\ \A i \in 1 .. n : i - 1 \in Clouds!Places
  <2>1. CASE remake
    <3>1. n = Clouds!Cells
      BY <2>1 DEF Clouds!PointsNum
    <3> QED
      BY <3>1, CellsArePlaces
  <2>2. CASE ~remake
    <3>1. n = Clouds!Before[packetNum]
      BY <2>2 DEF Clouds!PointsNum
    <3>2. Clouds!Before[packetNum] \in 0 .. packetNum * PerPoints
      BY <1>1, BeforeFits
    <3>3. packetNum * PerPoints \in Nat /\ packetNum * PerPoints <= size
      BY <1>1
    <3> HIDE DEF n, size
    <3>4. n \in Nat /\ n <= size
      BY <1>3, <3>1, <3>2, <3>3
    <3> QED
      BY <1>3, <3>4
  <2> QED
    BY <2>1, <2>2
<1>5. Clouds!Whole = [i \in 1 .. n |-> a[i-1]]
  BY DEF Clouds!Whole
<1> HIDE DEF n, a
<1>6. \A i \in 1 .. n : a[i-1] \in Point
  BY <1>2, <1>4
<1>7. Clouds!Whole \in [1 .. n -> Point]
  BY <1>5, <1>6
<1>8. Clouds!Whole \in Seq(Point) /\ Len(Clouds!Whole) = n
  BY <1>4, <1>7
<1> QED
  BY <1>2, <1>4, <1>5, <1>8 DEF n, a

(* What a frame is when all of it is computed.                             *)
LEMMA ThisDone ==
  ASSUME FrameTyped, \A s \in 1 .. packetNum : contents[s] # Clouds!NotYet
  PROVE  Clouds!This \in DoneFrame
<1> DEFINE T == Contents \cup {Clouds!NotYet}
<1>1. contents \in Seq(T) /\ Len(contents) = packetNum /\ packetNum \in Nat
  BY LenProperties DEF FrameTyped
<1>2. \A s \in 1 .. packetNum : contents[s] \in T
  BY <1>1, ElementOfSeq
<1>3. \A s \in 1 .. packetNum : contents[s] \in Contents
  BY <1>2
<1> HIDE DEF T
<1>4. contents \in Seq(Contents)
  <2>1. contents = [s \in 1 .. packetNum |-> contents[s]]
    BY <1>1
  <2>2. contents \in [1 .. packetNum -> Contents]
    BY <1>3, <2>1
  <2> QED
    BY <1>1, <2>2
<1> QED
  BY <1>4 DEF Clouds!This, DoneFrame, FrameTyped

(* One more frame of rate.                                                 *)
LEMMA SendsCounted ==
  ASSUME NEW s \in Nat, NEW r \in Nat \ {0}
  PROVE  /\ (s + 1) % r = 0 => (s % r) + 1 = r
         /\ (s + 1) % r # 0 => (s % r) + 1 = (s + 1) % r
<1> DEFINE a == s % r
           q == s \div r
           b == (s + 1) % r
           p == (s + 1) \div r
<1>1. a \in 0 .. r - 1 /\ q \in Int /\ s = r * q + a
  OBVIOUS
<1>2. b \in 0 .. r - 1 /\ p \in Int /\ s + 1 = r * p + b
  OBVIOUS
<1> HIDE DEF a, q, b, p
<1> DEFINE d == p - q
<1>3. d \in Int /\ r * d = a + 1 - b
  <2>1. r * (p - q) = r * p - r * q /\ r * p \in Int /\ r * q \in Int
    BY <1>1, <1>2
  <2> QED
    BY <1>1, <1>2, <2>1
<1> HIDE DEF d
<1>4. (d >= 2 => r * d >= 2 * r) /\ (d <= -1 => r * d <= -r) /\ (d = 0 => r * d = 0) /\ (d = 1 => r * d = r)
  BY <1>3
<1>5. d = 0 \/ d = 1
  BY <1>1, <1>2, <1>3, <1>4
<1>6. (b = 0 => a + 1 = r) /\ (b # 0 => a + 1 = b)
  BY <1>1, <1>2, <1>3, <1>4, <1>5
<1> QED
  BY <1>6 DEF a, b

MergedInv ==
  /\ sends \in Nat /\ multiPackets \in Nat /\ multiStart \in Nat
  /\ merging \in Seq(DoneFrame) /\ multi \in Seq(Point) /\ Len(merging) = sends % rate
  /\ cloud \in [points : Seq(Point), packets : Nat, start : Nat, frames : Seq(DoneFrame)]
  /\ cloud.frames # <<>> => Len(cloud.frames) = rate

(* What MultiSend does, with one frame or several.                         *)
SentAlone ==
  /\ rate = 1
  /\ cloud' = [points |-> Clouds!Whole, packets |-> packetNum, start |-> Clouds!StartTimestamp,
               frames |-> <<Clouds!This>>]
  /\ UNCHANGED <<multi, multiPackets, multiStart, sends, merging>>
Merged(all) ==
  /\ rate # 1
  /\ all.points = multi \o Clouds!Whole /\ all.packets = multiPackets + packetNum
  /\ all.start = IF multiStart <= 0 THEN Clouds!StartTimestamp ELSE multiStart
  /\ all.frames = Append(merging, Clouds!This)
  /\ sends' = sends + 1
  /\ \/ /\ (sends + 1) % rate = 0 /\ cloud' = all
        /\ multi' = <<>> /\ multiPackets' = 0 /\ multiStart' = 0 /\ merging' = <<>>
     \/ /\ (sends + 1) % rate # 0 /\ cloud' = cloud
        /\ multi' = all.points /\ multiPackets' = all.packets /\ multiStart' = all.start
        /\ merging' = all.frames

AllFrames == [points |-> multi \o Clouds!Whole, packets |-> multiPackets + packetNum,
              start |-> IF multiStart <= 0 THEN Clouds!StartTimestamp ELSE multiStart,
              frames |-> Append(merging, Clouds!This)]

LEMMA MultiSends ==
  ASSUME Clouds!MultiSend
  PROVE  SentAlone \/ Merged(AllFrames)
<1>1. CASE rate = 1
  BY <1>1 DEF Clouds!MultiSend, Clouds!multiVars, SentAlone
<1>2. CASE rate # 1
  <2> DEFINE all == AllFrames
             full == (sends + 1) % rate = 0
  <2>1. /\ sends' = sends + 1
        /\ cloud' = (IF full THEN all ELSE cloud)
        /\ multi' = (IF full THEN <<>> ELSE all.points)
        /\ multiPackets' = (IF full THEN 0 ELSE all.packets)
        /\ multiStart' = (IF full THEN 0 ELSE all.start)
        /\ merging' = (IF full THEN <<>> ELSE all.frames)
    BY <1>2 DEF Clouds!MultiSend, AllFrames
  <2>2. /\ all.points = multi \o Clouds!Whole /\ all.packets = multiPackets + packetNum
        /\ all.start = (IF multiStart <= 0 THEN Clouds!StartTimestamp ELSE multiStart)
        /\ all.frames = Append(merging, Clouds!This)
    BY DEF AllFrames
  <2> HIDE DEF all, full
  <2>3. CASE full
    <3>1. /\ cloud' = all /\ multi' = <<>> /\ multiPackets' = 0 /\ multiStart' = 0 /\ merging' = <<>>
      BY <2>1, <2>3
    <3> QED
      BY <1>2, <2>1, <2>2, <2>3, <3>1 DEF Merged, full, all
  <2>4. CASE ~full
    <3>1. /\ cloud' = cloud /\ multi' = all.points /\ multiPackets' = all.packets
          /\ multiStart' = all.start /\ merging' = all.frames
      BY <2>1, <2>4
    <3> QED
      BY <1>2, <2>1, <2>2, <2>4, <3>1 DEF Merged, full, all
  <2> QED
    BY <2>3, <2>4
<1> QED
  BY <1>1, <1>2

LEMMA MergedTyped ==
  ASSUME FrameTyped, MergedInv, \A s \in 1 .. packetNum : contents[s] # Clouds!NotYet,
         Clouds!MultiSend, UNCHANGED rate
  PROVE  MergedInv'
<1>1. Clouds!This \in DoneFrame
  BY ThisDone
<1>2. Clouds!Whole \in Seq(Point)
  BY WholeTyped
<1>3. packetNum \in Nat /\ Clouds!StartTimestamp \in Nat /\ rate \in Nat \ {0}
  BY CloudsParameters DEF FrameTyped, Clouds!StartTimestamp, Clouds!CloudsAssumption
<1> DEFINE t == Clouds!This
           w == Clouds!Whole
           z == Clouds!StartTimestamp
<1> HIDE DEF t, w, z
<1>4. t \in DoneFrame /\ w \in Seq(Point) /\ z \in Nat
  BY <1>1, <1>2, <1>3 DEF t, w, z
<1>5. CASE SentAlone
  <2>1. /\ cloud' = [points |-> w, packets |-> packetNum, start |-> z, frames |-> <<t>>]
        /\ UNCHANGED <<multi, multiPackets, multiStart, sends, merging>> /\ rate = 1
    BY <1>5 DEF SentAlone, t, w, z
  <2>2. <<t>> \in Seq(DoneFrame) /\ Len(<<t>>) = 1
    BY <1>4
  <2>3. cloud' \in [points : Seq(Point), packets : Nat, start : Nat, frames : Seq(DoneFrame)]
    BY <1>3, <1>4, <2>1, <2>2
  <2>4. cloud'.frames = <<t>>
    BY <2>1
  <2> QED
    BY <2>1, <2>2, <2>3, <2>4 DEF MergedInv, DoneFrame, Point
<1>6. CASE Merged(AllFrames)
  <2> DEFINE fs == Append(merging, t)
             ps == multi \o w
             st == IF multiStart <= 0 THEN z ELSE multiStart
  <2>1. fs \in Seq(DoneFrame) /\ Len(fs) = Len(merging) + 1 /\ ps \in Seq(Point) /\ st \in Nat
        /\ multiPackets + packetNum \in Nat
    BY <1>3, <1>4, AppendProperties, ConcatProperties DEF MergedInv
  <2> HIDE DEF fs, ps, st
  <2>2. AllFrames = [points |-> ps, packets |-> multiPackets + packetNum, start |-> st, frames |-> fs]
    BY DEF AllFrames, fs, ps, st, t, w, z
  <2>3. sends' = sends + 1 /\ sends \in Nat /\ Len(merging) = sends % rate
    BY <1>6 DEF Merged, MergedInv
  <2>4. CASE (sends + 1) % rate = 0
    <3>1. /\ cloud' = AllFrames /\ multi' = <<>> /\ multiPackets' = 0 /\ multiStart' = 0
          /\ merging' = <<>>
      BY <1>6, <2>4 DEF Merged
    <3>2. cloud' \in [points : Seq(Point), packets : Nat, start : Nat, frames : Seq(DoneFrame)]
      BY <2>1, <2>2, <3>1
    <3>3. cloud'.frames = fs
      BY <2>2, <3>1
    <3>4. (sends % rate) + 1 = rate
      BY <1>3, <2>3, <2>4, SendsCounted
    <3>5. Len(cloud'.frames) = rate
      BY <2>1, <2>3, <3>3, <3>4
    <3>6. Len(merging') = 0 /\ merging' \in Seq(DoneFrame) /\ multi' \in Seq(Point)
      BY <3>1
    <3>7. sends' \in Nat /\ sends' % rate' = 0
      BY <2>3, <2>4
    <3> QED
      BY <3>1, <3>2, <3>5, <3>6, <3>7 DEF MergedInv, DoneFrame, Point
  <2>5. CASE (sends + 1) % rate # 0
    <3>1. /\ cloud' = cloud /\ multi' = ps /\ multiPackets' = multiPackets + packetNum
          /\ multiStart' = st /\ merging' = fs
      BY <1>6, <2>2, <2>5 DEF Merged
    <3>2. (sends % rate) + 1 = (sends + 1) % rate
      BY <1>3, <2>3, <2>5, SendsCounted
    <3>3. Len(merging') = sends' % rate'
      BY <2>1, <2>3, <3>1, <3>2
    <3> QED
      BY <2>1, <2>3, <3>1, <3>3 DEF MergedInv, DoneFrame, Point
  <2> QED
    BY <2>4, <2>5
<1> QED
  BY <1>5, <1>6, MultiSends


(* Frames and the cells of their grids, one grid after the other.          *)
GridsHeld(frames, pts) ==
  /\ Len(pts) = Len(frames) * Clouds!Cells
  /\ \A i \in 1 .. Len(frames) : \A c \in 0 .. Clouds!Cells - 1 :
       Holds(Clouds!PointsAt(frames[i], c), pts[(i - 1) * Clouds!Cells + c + 1])
GridOf(f, w) ==
  /\ Len(w) = Clouds!Cells
  /\ \A c \in 0 .. Clouds!Cells - 1 : Holds(Clouds!PointsAt(f, c), w[c + 1])

LEMMA GridsGrow ==
  ASSUME NEW frames \in Seq(DoneFrame), NEW pts \in Seq(Point), GridsHeld(frames, pts),
         NEW f \in DoneFrame, NEW w \in Seq(Point), GridOf(f, w)
  PROVE  GridsHeld(Append(frames, f), pts \o w)
<1> DEFINE n == Len(frames)
           N == Clouds!Cells
           fs == Append(frames, f)
           ps == pts \o w
<1>1. n \in Nat /\ N \in Nat \ {0} /\ Len(pts) = n * N /\ Len(w) = N /\ n * N \in Nat
  BY CellsArePlaces, LenProperties DEF GridsHeld, GridOf
<1>2. Len(fs) = n + 1 /\ (\A i \in 1 .. n : fs[i] = frames[i]) /\ fs[n + 1] = f
  BY AppendProperties
<1>3. Len(ps) = Len(pts) + Len(w)
      /\ \A i \in 1 .. Len(pts) + Len(w) : ps[i] = IF i <= Len(pts) THEN pts[i] ELSE w[i - Len(pts)]
  BY ConcatProperties
<1>4. \A i \in 1 .. n : \A c \in 0 .. N - 1 : Holds(Clouds!PointsAt(frames[i], c), pts[(i - 1) * N + c + 1])
  BY DEF GridsHeld
<1>5. \A c \in 0 .. N - 1 : Holds(Clouds!PointsAt(f, c), w[c + 1])
  BY DEF GridOf
<1> HIDE DEF fs, ps, N, n
<1>6. (n + 1) * N = n * N + N
  BY <1>1
<1>9. Len(ps) = n * N + N
      /\ \A i \in 1 .. n * N + N : ps[i] = IF i <= n * N THEN pts[i] ELSE w[i - n * N]
  BY <1>1, <1>3
<1>7. \A i \in 1 .. n + 1 : \A c \in 0 .. N - 1 : Holds(Clouds!PointsAt(fs[i], c), ps[(i - 1) * N + c + 1])
  <2> SUFFICES ASSUME NEW i \in 1 .. n + 1, NEW c \in 0 .. N - 1
               PROVE  Holds(Clouds!PointsAt(fs[i], c), ps[(i - 1) * N + c + 1])
    OBVIOUS
  <2>1. CASE i \in 1 .. n
    <3> DEFINE j == (i - 1) * N + c + 1
               z == n * N
    <3>1. j \in 1 .. z
      <4>1. (i - 1) * N \in Nat
        BY <1>1, <2>1
      <4>2. (i - 1) * N + N = i * N /\ i * N <= n * N
        BY <1>1, <2>1
      <4>3. (i - 1) * N + N <= z
        BY <4>2
      <4> DEFINE y == (i - 1) * N
      <4>5. y \in Nat /\ y + N <= z /\ z \in Nat /\ N \in Nat /\ c \in 0 .. N - 1
        BY <1>1, <4>1, <4>3
      <4> HIDE DEF y, z
      <4>4. y + c + 1 \in 1 .. z
        BY <4>5
      <4> QED
        BY <4>4 DEF y
    <3>2. z \in Nat /\ N \in Nat
      BY <1>1
    <3> HIDE DEF j, z
    <3>3. ps[j] = pts[j]
      BY <1>9, <3>1, <3>2 DEF z
    <3>4. Holds(Clouds!PointsAt(frames[i], c), pts[j])
      BY <1>4, <2>1 DEF j
    <3> QED
      BY <1>2, <2>1, <3>3, <3>4 DEF j
  <2>2. CASE i = n + 1
    <3> DEFINE z == n * N
    <3>1. z \in Nat /\ N \in Nat
      BY <1>1
    <3>2. (i - 1) * N + c + 1 = z + c + 1
      BY <1>1, <2>2
    <3> HIDE DEF z
    <3>3. z + c + 1 \in 1 .. z + N /\ ~(z + c + 1 <= z) /\ (z + c + 1) - z = c + 1
      BY <3>1
    <3>4. ps[z + c + 1] = w[(z + c + 1) - z]
      BY <1>9, <3>3 DEF z
    <3>5. ps[z + c + 1] = w[c + 1]
      BY <3>3, <3>4
    <3>6. fs[i] = f
      BY <1>2, <2>2
    <3> QED
      BY <1>5, <3>2, <3>5, <3>6
  <2> QED
    BY <1>1, <2>1, <2>2
<1>8. GridsHeld(fs, ps)
  <2>1. Len(ps) = Len(fs) * N
    BY <1>2, <1>9, <1>6
  <2>2. \A i \in 1 .. Len(fs) : \A c \in 0 .. N - 1 : Holds(Clouds!PointsAt(fs[i], c), ps[(i - 1) * N + c + 1])
    BY <1>2, <1>7
  <2> QED
    BY <2>1, <2>2 DEF GridsHeld, N
<1> QED
  BY <1>8 DEF fs, ps

(* No frames have no points. *)
LEMMA GridsOfNone ==
  GridsHeld(<<>>, <<>>)
<1>1. Len(<<>>) = 0 /\ Clouds!Cells \in Nat
  BY CellsArePlaces
<1> QED
  BY <1>1 DEF GridsHeld

(* The frame at its end has the grid of what it computed.                  *)
LEMMA ThisGrid ==
  ASSUME FrameTyped, GridInv, remake, \A s \in 1 .. packetNum : contents[s] # Clouds!NotYet
  PROVE  GridOf(Clouds!This, Clouds!Whole)
<1>1. Clouds!PointsNum = Clouds!Cells /\ Clouds!Finished = points
  BY DEF Clouds!PointsNum, Clouds!Finished
<1>2. /\ Len(Clouds!Whole) = Clouds!Cells
      /\ \A i \in 1 .. Clouds!Cells : Clouds!Whole[i] = points[i - 1]
  BY <1>1, WholeTyped
<1>3. ASSUME NEW c \in 0 .. Clouds!Cells - 1
      PROVE  Holds(Clouds!PointsAt(Clouds!This, c), Clouds!Whole[c + 1])
  <2>1. Clouds!Cells \in Nat
    BY CellsArePlaces
  <2>2. c + 1 \in 1 .. Clouds!Cells /\ (c + 1) - 1 = c
    BY <2>1
  <2>3. Clouds!Whole[c + 1] = points[c]
    BY <1>2, <2>2
  <2>4. Len(contents) = packetNum /\ packetNum \in Nat
    BY LenProperties DEF FrameTyped
  <2> DEFINE f == Clouds!This
             B == [frame : {frameIndex}, slot : 0 .. packetNum - 1, k : 1 .. PerPoints]
  <2>5. f.index = frameIndex /\ f.contents = contents
    BY DEF Clouds!This
  <2> HIDE DEF f
  <2>6. Clouds!PointsAt(f, c) =
          {p \in B : p.k \in DOMAIN contents[p.slot + 1] /\ LiesIn(contents[p.slot + 1][p.k], c)}
    BY <2>4, <2>5 DEF Clouds!PointsAt, LiesIn
  <2>7. \A p \in B : contents[p.slot + 1] # Clouds!NotYet
    <3> SUFFICES ASSUME NEW p \in B PROVE p.slot + 1 \in 1 .. packetNum
      OBVIOUS
    <3>1. p.slot \in 0 .. packetNum - 1
      OBVIOUS
    <3> QED
      BY <2>4, <3>1
  <2>8. HereNow(c) =
          {p \in B : contents[p.slot + 1] # Clouds!NotYet /\ p.k \in DOMAIN contents[p.slot + 1]
                     /\ LiesIn(contents[p.slot + 1][p.k], c)}
    BY DEF HereNow
  <2> HIDE DEF B
  <2>9. Clouds!PointsAt(f, c) = HereNow(c)
    BY <2>6, <2>7, <2>8
  <2>10. Holds(HereNow(c), points[c])
    BY DEF GridInv
  <2> QED
    BY <2>3, <2>9, <2>10 DEF f
<1> QED
  BY <1>2, <1>3 DEF GridOf

GridsInv ==
  /\ FrameTyped /\ MergedInv /\ GridInv
  /\ remake => GridsHeld(merging, multi) /\ GridsHeld(cloud.frames, cloud.points)

LEMMA GridsMerged ==
  ASSUME GridsInv, \A s \in 1 .. packetNum : contents[s] # Clouds!NotYet,
         Clouds!MultiSend, UNCHANGED remake
  PROVE  remake => GridsHeld(merging', multi') /\ GridsHeld(cloud'.frames, cloud'.points)
<1> SUFFICES ASSUME remake
             PROVE  GridsHeld(merging', multi') /\ GridsHeld(cloud'.frames, cloud'.points)
  OBVIOUS
<1>1. FrameTyped /\ MergedInv /\ GridInv
      /\ GridsHeld(merging, multi) /\ GridsHeld(cloud.frames, cloud.points)
  BY DEF GridsInv
<1> DEFINE t == Clouds!This
           w == Clouds!Whole
<1>2. t \in DoneFrame /\ w \in Seq(Point) /\ GridOf(t, w)
  BY <1>1, ThisDone, WholeTyped, ThisGrid
<1> HIDE DEF t, w
<1>3. CASE SentAlone
  <2>1. cloud'.points = w /\ cloud'.frames = <<t>> /\ UNCHANGED <<multi, merging>>
    BY <1>3 DEF SentAlone, t, w
  <2>2. <<>> \in Seq(DoneFrame) /\ <<>> \in Seq(Point) /\ Append(<<>>, t) = <<t>> /\ <<>> \o w = w
    BY <1>2, ConcatEmptySeq
  <2>3. GridsHeld(Append(<<>>, t), <<>> \o w)
    BY <1>2, <2>2, GridsOfNone, GridsGrow
  <2>4. GridsHeld(<<t>>, w)
    BY <2>2, <2>3
  <2> QED
    BY <1>1, <2>1, <2>4
<1>4. CASE Merged(AllFrames)
  <2> DEFINE fs == Append(merging, t)
             ps == multi \o w
  <2>1. GridsHeld(fs, ps)
    BY <1>1, <1>2, GridsGrow DEF MergedInv
  <2>2. AllFrames.points = ps /\ AllFrames.frames = fs
    BY DEF AllFrames, t, w
  <2> HIDE DEF fs, ps
  <2>3. \/ cloud' = AllFrames /\ multi' = <<>> /\ merging' = <<>>
        \/ cloud' = cloud /\ multi' = AllFrames.points /\ merging' = AllFrames.frames
    BY <1>4 DEF Merged
  <2> QED
    BY <1>1, <2>1, <2>2, <2>3, GridsOfNone
<1> QED
  BY <1>3, <1>4, MultiSends

LEMMA GridsKept ==
  ASSUME NoneBelow, GridsFit, GridsInv, Clouds!Next
  PROVE  GridsInv'
<1>1. FrameTyped /\ MergedInv /\ GridInv
      /\ (remake => GridsHeld(merging, multi) /\ GridsHeld(cloud.frames, cloud.points))
  BY DEF GridsInv
<1>2. ASSUME UNCHANGED <<remake, rate, Clouds!multiVars, cloud>>
      PROVE  /\ MergedInv'
             /\ (remake => GridsHeld(merging, multi) /\ GridsHeld(cloud.frames, cloud.points))'
  <2>1. /\ UNCHANGED <<remake, rate, multi, multiPackets, multiStart, sends, merging>>
        /\ cloud' = cloud
    BY <1>2 DEF Clouds!multiVars
  <2>2. MergedInv'
    BY <1>1, <2>1 DEF MergedInv
  <2>3. remake' => GridsHeld(merging', multi') /\ GridsHeld(cloud'.frames, cloud'.points)
    BY <1>1, <2>1
  <2> QED
    BY <2>2, <2>3 DEF GridsHeld, Holds, Clouds!PointsAt, Clouds!Cells, Clouds!Blank
<1>3. CASE Clouds!Packet
  <2>1. UNCHANGED <<remake, rate, Clouds!multiVars, cloud>>
    BY <1>3 DEF Clouds!Packet
  <2> QED
    BY <1>1, <1>2, <1>3, <2>1, GridPacket DEF GridsInv
<1>4. ASSUME NEW s \in 0 .. packetNum - 1, Clouds!ComputeXYZI(s) PROVE GridsInv'
  <2>1. UNCHANGED <<remake, rate, Clouds!multiVars, cloud>>
    BY <1>4 DEF Clouds!ComputeXYZI
  <2> QED
    BY <1>1, <1>2, <1>4, <2>1, FrameComputed, GridComputed DEF GridsInv
<1>5. CASE Clouds!SplitFrame
  <2>1. /\ \A s \in 1 .. packetNum : contents[s] # Clouds!NotYet
        /\ Clouds!MultiSend \/ UNCHANGED <<Clouds!multiVars, cloud>>
        /\ Clouds!Update /\ points' = Clouds!Cleared(Clouds!Finished)
        /\ UNCHANGED <<remake, rate, validPoints>>
    BY <1>5 DEF Clouds!SplitFrame
  <2>2. points' \in [Clouds!Places -> Point]
        /\ (remake => points' = [i \in Clouds!Places |-> Clouds!Blank])
    <3>1. Clouds!Finished \in [Clouds!Places -> Point]
      BY <1>1, WholeTyped
    <3>2. Clouds!Blank \in Point
      BY DEF Clouds!Blank, Point
    <3> QED
      BY <2>1, <3>1, <3>2 DEF Clouds!Cleared
  <2>3. FrameTyped' /\ GridInv'
    BY <1>1, <2>1, <2>2, GridAnew
  <2>4. CASE Clouds!MultiSend
    <3>1. MergedInv'
      BY <1>1, <2>1, <2>4, MergedTyped
    <3>2. remake => GridsHeld(merging', multi') /\ GridsHeld(cloud'.frames, cloud'.points)
      BY <2>1, <2>4, GridsMerged
    <3>3. (remake => GridsHeld(merging, multi) /\ GridsHeld(cloud.frames, cloud.points))'
      BY <2>1, <3>2 DEF GridsHeld, Holds, Clouds!PointsAt, Clouds!Cells, Clouds!Blank
    <3> QED
      BY <2>3, <3>1, <3>3 DEF GridsInv
  <2>5. CASE UNCHANGED <<Clouds!multiVars, cloud>>
    BY <1>2, <2>1, <2>3, <2>5 DEF GridsInv
  <2> QED
    BY <2>1, <2>4, <2>5
<1>6. CASE Clouds!GiveUp
  <2>1. /\ packetNum = MaxInFrame /\ Clouds!Update
        /\ UNCHANGED <<remake, rate, points, validPoints, Clouds!multiVars, cloud>>
    BY <1>6 DEF Clouds!GiveUp
  <2>2. ~remake
    <3>1. MaxInFrame \in Nat
      BY CloudsParameters DEF Clouds!CloudsAssumption
    <3> QED
      BY <1>1, <2>1, <3>1 DEF GridInv
  <2>3. points' \in [Clouds!Places -> Point]
    BY <1>1, <2>1 DEF FrameTyped
  <2>4. FrameTyped' /\ GridInv'
    BY <1>1, <2>1, <2>2, <2>3, GridAnew
  <2> QED
    BY <1>2, <2>1, <2>4 DEF GridsInv
<1> QED
  BY <1>3, <1>4, <1>5, <1>6 DEF Clouds!Next

LEMMA CloudsStart ==
  ASSUME Clouds!Init
  PROVE  FrameTyped /\ MergedInv /\ GridInv /\ cloud.frames = <<>> /\ cloud.points = <<>>
<1>1. /\ remake \in BOOLEAN /\ rate \in Rates /\ frameIndex = 1 /\ packetNum = 0 /\ contents = <<>>
      /\ points = [i \in Clouds!Places |-> Clouds!Blank]
      /\ validPoints = [s \in Clouds!Slots |-> 0]
      /\ multi = <<>> /\ multiPackets = 0 /\ multiStart = 0 /\ sends = 0 /\ merging = <<>>
      /\ cloud = [points |-> <<>>, packets |-> 0, start |-> 0, frames |-> <<>>]
  BY DEF Clouds!Init
<1>2. MaxInFrame \in Nat \ {0} /\ rate \in Nat \ {0} /\ PerPoints \in Nat
  BY <1>1, CloudsParameters DEF Clouds!CloudsAssumption
<1>3. Clouds!Blank \in Point
  BY DEF Clouds!Blank, Point
<1>4. FrameTyped
  <2>1. Len(contents) = 0 /\ contents \in Seq(Contents \cup {Clouds!NotYet})
    BY <1>1
  <2> QED
    BY <1>1, <1>2, <1>3, <2>1 DEF FrameTyped
<1>5. MergedInv
  <2>1. Len(merging) = 0 /\ 0 % rate = 0
    BY <1>1, <1>2
  <2> QED
    BY <1>1, <2>1 DEF MergedInv
<1>6. GridInv
  <2>1. \A c : HereNow(c) = {}
    <3> SUFFICES ASSUME NEW c PROVE HereNow(c) = {}
      OBVIOUS
    <3>1. \A p \in HereNow(c) : p.slot \in 0 .. packetNum - 1
      BY DEF HereNow
    <3> QED
      BY <1>1, <3>1
  <2>2. \A c \in 0 .. Clouds!Cells - 1 : points[c] = Clouds!Blank
    BY <1>1, CellsArePlaces
  <2> QED
    BY <1>1, <1>2, <2>1, <2>2 DEF GridInv, Holds
<1> QED
  BY <1>1, <1>4, <1>5, <1>6

(* It says what GridsAreExact says.                                        *)
LEMMA GridsFollow ==
  ASSUME GridsInv PROVE Clouds!GridsAreExact
<1> SUFFICES ASSUME remake, cloud.frames # <<>>
             PROVE  /\ Len(cloud.points) = rate * Clouds!Cells
                    /\ \A i \in DOMAIN cloud.frames : \A cell \in 0 .. Clouds!Cells - 1 :
                         Holds(Clouds!PointsAt(cloud.frames[i], cell),
                               cloud.points[(i - 1) * Clouds!Cells + cell + 1])
  BY DEF Clouds!GridsAreExact, Holds
<1>1. GridsHeld(cloud.frames, cloud.points) /\ Len(cloud.frames) = rate
      /\ DOMAIN cloud.frames = 1 .. Len(cloud.frames)
  BY LenProperties DEF GridsInv, MergedInv
<1> QED
  BY <1>1 DEF GridsHeld

(* With remake_config every cell of every grid of a cloud holds a point of  *)
(* that frame whose angles lie in it, or nothing when there is none: for    *)
(* any contents, sizes and rates, as long as no point lies below the grid   *)
(* and no frame of a grid is given up for too many packets.                *)
THEOREM GridsExact == NoneBelow /\ GridsFit => (Spec => []GridsAreExact)
<1> SUFFICES ASSUME NoneBelow, GridsFit PROVE Spec => []GridsAreExact
  OBVIOUS
<1> DEFINE Inv == part = "clouds" => GridsInv
<1>1. Init => Inv
  <2> SUFFICES ASSUME Init, part = "clouds" PROVE GridsInv
    OBVIOUS
  <2>1. Clouds!Init
    BY DEF Init
  <2>2. FrameTyped /\ MergedInv /\ GridInv /\ cloud.frames = <<>> /\ cloud.points = <<>>
    BY <2>1, CloudsStart
  <2>3. merging = <<>> /\ multi = <<>>
    BY <2>1 DEF Clouds!Init
  <2> QED
    BY <2>2, <2>3, GridsOfNone DEF GridsInv
<1>2. Inv /\ [Next]_vars => Inv'
  <2> SUFFICES ASSUME Inv, [Next]_vars, (part = "clouds")' PROVE GridsInv'
    OBVIOUS
  <2>1. part = "clouds" /\ GridsInv
    BY DEF Next, OfSerial, OfTcp, OfPcap, OfDecoder, OfClouds, vars
  <2>2. CASE OfClouds(Clouds!Next)
    <3>1. Clouds!Next
      BY <2>2 DEF OfClouds
    <3> QED
      BY <2>1, <3>1, GridsKept
  <2>3. CASE UNCHANGED vars
    <3>1. UNCHANGED <<packetNum, points, remake, rate, frameIndex, contents, validPoints, multi, multiPackets,
                      multiStart, sends, merging, cloud>>
      BY <2>3 DEF vars, varsPoints, varsPacketNum, varsClouds
    <3>2. FrameTyped'
      BY <2>1, <3>1 DEF GridsInv, FrameTyped, Clouds!Places, Clouds!Slots, Clouds!NotYet, Clouds!Blank
    <3>3. MergedInv'
      BY <2>1, <3>1 DEF GridsInv, MergedInv
    <3>4. \A c \in 0 .. Clouds!Cells - 1 : HereNow(c)' = HereNow(c)
      BY <3>1 DEF HereNow, LiesIn, Clouds!NotYet, Clouds!Blank
    <3>5. GridInv'
      BY <2>1, <3>1, <3>4 DEF GridsInv, GridInv, Holds, Clouds!Cells, Clouds!Blank
    <3>6. remake' => GridsHeld(merging', multi') /\ GridsHeld(cloud'.frames, cloud'.points)
      BY <2>1, <3>1 DEF GridsInv
    <3>7. (remake => GridsHeld(merging, multi) /\ GridsHeld(cloud.frames, cloud.points))'
      BY <3>6 DEF GridsHeld, Holds, Clouds!PointsAt, Clouds!Cells, Clouds!Blank
    <3> QED
      BY <3>2, <3>3, <3>5, <3>7 DEF GridsInv
  <2> QED
    BY <2>1, <2>2, <2>3 DEF Next, OfSerial, OfTcp, OfPcap, OfDecoder
<1>3. Inv => GridsAreExact
  BY GridsFollow DEF GridsAreExact
<1> QED
  BY <1>1, <1>2, <1>3, PTL DEF Spec

(* Where the points of a packet are until the frame ends.                  *)
SlotPoint(s, k) == [frame |-> frameIndex, slot |-> s, k |-> k]
SlotsInv ==
  ~remake => \A s \in 0 .. packetNum - 1 : contents[s + 1] # Clouds!NotYet =>
    /\ validPoints[s] = Len(contents[s + 1])
    /\ \A k \in 1 .. Len(contents[s + 1]) : points[s * PerPoints + k - 1] = SlotPoint(s, k)

(* The places of the slots.                                                *)
PlaceOf(s, k) == s * PerPoints + k - 1

LEMMA PlacesApart ==
  ASSUME NEW s \in 0 .. MaxInFrame - 1, NEW k \in 1 .. PerPoints
  PROVE  /\ PlaceOf(s, k) \in Clouds!Places
         /\ \A t \in 0 .. MaxInFrame - 1 : \A l \in 1 .. PerPoints :
              PlaceOf(t, l) = PlaceOf(s, k) => t = s /\ l = k
<1>1. MaxInFrame \in Nat /\ PerPoints \in Nat
  BY CloudsParameters DEF Clouds!CloudsAssumption
<1>2. ASSUME NEW t \in Nat, NEW u \in Nat, t < u
      PROVE  t * PerPoints + PerPoints <= u * PerPoints
  <2>1. t + 1 <= u /\ (t + 1) * PerPoints = t * PerPoints + PerPoints
    BY <1>1, <1>2
  <2>2. (t + 1) * PerPoints <= u * PerPoints
    BY <1>1, <2>1
  <2> QED
    BY <2>1, <2>2
<1>3. \A t \in Nat : t * PerPoints \in Nat
  BY <1>1
<1>4. PlaceOf(s, k) \in Clouds!Places
  <2> DEFINE a == s * PerPoints
             z == MaxInFrame * PerPoints
  <2>1. a \in Nat /\ z \in Nat /\ a + PerPoints <= z
    BY <1>1, <1>2, <1>3
  <2>2. k \in 1 .. PerPoints
    OBVIOUS
  <2> HIDE DEF a, z
  <2>3. a + k - 1 \in 0 .. z - 1
    BY <1>1, <2>1, <2>2
  <2> QED
    BY <2>3 DEF PlaceOf, a, z, Clouds!Places
<1>5. ASSUME NEW t \in 0 .. MaxInFrame - 1, NEW l \in 1 .. PerPoints, PlaceOf(t, l) = PlaceOf(s, k)
      PROVE  t = s /\ l = k
  <2> DEFINE a == s * PerPoints
             b == t * PerPoints
  <2>1. a \in Nat /\ b \in Nat /\ b + l - 1 = a + k - 1
    BY <1>3, <1>5 DEF PlaceOf
  <2>2. (s < t => a + PerPoints <= b) /\ (t < s => b + PerPoints <= a) /\ (s = t => a = b)
    BY <1>2
  <2> HIDE DEF a, b
  <2> QED
    BY <1>1, <2>1, <2>2
<1> QED
  BY <1>4, <1>5

(* A packet computed takes the places of its slot and no others.           *)
LEMMA SlotsComputed ==
  ASSUME FrameTyped, SlotsInv, NEW s \in 0 .. packetNum - 1, Clouds!ComputeXYZI(s)
  PROVE  SlotsInv'
<1>1. PICK content \in Contents : \E place \in [DOMAIN content -> Int] : ComputedBy(s, content, place)
  BY Computed
<1>2. PICK place \in [DOMAIN content -> Int] : ComputedBy(s, content, place)
  BY <1>1
<1>3. /\ \A k \in DOMAIN content :
           place[k] = IF remake THEN Clouds!DoRemake(content[k]) ELSE s * PerPoints + k - 1
      /\ contents' = [contents EXCEPT ![s + 1] = content]
      /\ \A i \in Clouds!Places :
           \/ (\A k \in DOMAIN content : place[k] # i) /\ points'[i] = points[i]
           \/ \E k \in DOMAIN content : place[k] = i /\ points'[i] = SlotPoint(s, k)
      /\ validPoints' = [validPoints EXCEPT
           ![s] = Clouds!Cardinality({k \in DOMAIN content : place[k] >= 0})]
      /\ UNCHANGED <<remake, frameIndex, packetNum>>
  BY <1>2 DEF ComputedBy, SlotPoint
<1>4. /\ packetNum \in Nat /\ packetNum <= MaxInFrame /\ s \in Nat /\ Len(contents) = packetNum
      /\ contents \in Seq(Contents \cup {Clouds!NotYet}) /\ MaxInFrame \in Nat /\ PerPoints \in Nat
      /\ validPoints \in [0 .. MaxInFrame - 1 -> 0 .. PerPoints]
  BY CloudsParameters DEF FrameTyped, Clouds!CloudsAssumption, Clouds!Slots
<1>5. Len(content) \in Nat /\ DOMAIN content = 1 .. Len(content)
      /\ \A k \in 1 .. Len(content) : k \in 1 .. PerPoints
  <2>1. Len(content) \in 0 .. PerPoints /\ DOMAIN content = 1 .. Len(content)
    BY ContentTyped
  <2> QED
    BY <1>4, <2>1
<1>6. contents'[s + 1] = content /\ \A t \in 0 .. packetNum - 1 : t # s => contents'[t + 1] = contents[t + 1]
  <2>1. s + 1 \in DOMAIN contents /\ DOMAIN contents = 1 .. packetNum
    BY <1>4, LenProperties
  <2> QED
    BY <1>3, <1>4, <2>1
<1> SUFFICES ASSUME ~remake, NEW t \in 0 .. packetNum - 1, contents'[t + 1] # Clouds!NotYet
             PROVE  /\ validPoints'[t] = Len(contents'[t + 1])
                    /\ \A k \in 1 .. Len(contents'[t + 1]) :
                         points'[t * PerPoints + k - 1] = SlotPoint(t, k)
  BY <1>3 DEF SlotsInv, SlotPoint, Clouds!NotYet, Clouds!Blank
<1>7. \A k \in 1 .. Len(content) : place[k] = PlaceOf(s, k)
  BY <1>3, <1>5 DEF PlaceOf
<1>8. t \in 0 .. MaxInFrame - 1 /\ s \in 0 .. MaxInFrame - 1
  BY <1>4
<1>9. CASE t = s
  <2>1. validPoints'[s] = Len(content)
    <3>1. {k \in DOMAIN content : place[k] >= 0} = 1 .. Len(content)
      <4>1. \A k \in 1 .. Len(content) : PlaceOf(s, k) \in Clouds!Places
        BY <1>5, <1>8, PlacesApart
      <4>2. \A i \in Clouds!Places : i >= 0
        BY <1>4 DEF Clouds!Places
      <4> QED
        BY <1>5, <1>7, <4>1, <4>2
    <3>2. Clouds!Cardinality(1 .. Len(content)) = Len(content)
      <4>2. Len(content) \in Nat
        BY <1>5
      <4> DEFINE a == Len(content)
      <4> HIDE DEF a
      <4>3. a \in Nat
        BY <4>2 DEF a
      <4>4. Cardinality(1 .. a) = IF 1 > a THEN 0 ELSE a - 1 + 1
        BY <4>3, FS_Interval
      <4>1. Cardinality(1 .. Len(content)) = Len(content)
        BY <4>3, <4>4 DEF a
      <4> QED
        BY <4>1 DEF Clouds!Cardinality, Cardinality
    <3> QED
      BY <1>3, <1>4, <1>8, <3>1, <3>2
  <2>2. ASSUME NEW k \in 1 .. Len(content) PROVE points'[s * PerPoints + k - 1] = SlotPoint(s, k)
    <3> DEFINE i == PlaceOf(s, k)
    <3>1. k \in 1 .. PerPoints
      BY <1>5
    <3>2. i \in Clouds!Places
      BY <1>8, <3>1, PlacesApart
    <3>3. place[k] = i /\ k \in DOMAIN content
      BY <1>5, <1>7
    <3> HIDE DEF i
    <3>4. PICK l \in DOMAIN content : place[l] = i /\ points'[i] = SlotPoint(s, l)
      BY <1>3, <3>2, <3>3
    <3>5. l \in 1 .. PerPoints /\ PlaceOf(s, l) = PlaceOf(s, k)
      BY <1>5, <1>7, <3>4 DEF i
    <3>6. l = k
      BY <1>8, <3>1, <3>5, PlacesApart
    <3> QED
      BY <3>4, <3>6 DEF i, PlaceOf
  <2> QED
    BY <1>6, <1>9, <2>1, <2>2
<1>10. CASE t # s
  <2>1. contents'[t + 1] = contents[t + 1] /\ validPoints'[t] = validPoints[t]
    BY <1>3, <1>4, <1>6, <1>8, <1>10
  <2>2. /\ validPoints[t] = Len(contents[t + 1])
        /\ \A k \in 1 .. Len(contents[t + 1]) : points[t * PerPoints + k - 1] = SlotPoint(t, k)
    BY <2>1 DEF SlotsInv
  <2>3. ASSUME NEW k \in 1 .. Len(contents[t + 1])
        PROVE  points'[t * PerPoints + k - 1] = points[t * PerPoints + k - 1]
    <3> DEFINE i == PlaceOf(t, k)
    <3>1. k \in 1 .. PerPoints
      <4>1. validPoints[t] \in 0 .. PerPoints
        BY <1>4, <1>8
      <4> QED
        BY <1>4, <2>2, <4>1
    <3>2. i \in Clouds!Places
      BY <1>8, <3>1, PlacesApart
    <3>3. \A l \in DOMAIN content : place[l] # i
      <4> SUFFICES ASSUME NEW l \in DOMAIN content, place[l] = i PROVE FALSE
        OBVIOUS
      <4>1. l \in 1 .. PerPoints /\ PlaceOf(s, l) = PlaceOf(t, k)
        BY <1>5, <1>7
      <4>2. s = t
        BY <1>8, <3>1, <4>1, PlacesApart
      <4> QED
        BY <1>10, <4>2
    <3> HIDE DEF i
    <3>4. points'[i] = points[i]
      BY <1>3, <3>2, <3>3
    <3> QED
      BY <3>4 DEF i, PlaceOf
  <2> QED
    BY <2>1, <2>2, <2>3
<1> QED
  BY <1>9, <1>10


(* Closing a gap moves what a slot has, and nothing in front or behind.    *)
MovesUp(g, s) ==
  LET to == Clouds!Before[s-1]
      from == (s - 1) * PerPoints
  IN /\ \A j \in 0 .. to - 1 : g[s][j] = g[s-1][j]
     /\ \A j \in 0 .. validPoints[s-1] - 1 : g[s][to + j] = g[s-1][from + j]
     /\ \A j \in Clouds!Places : j >= s * PerPoints => g[s][j] = g[s-1][j]

LEMMA MovedUp ==
  ASSUME ForwardCopy, FrameTyped, NEW g, CompactsBy(g), NEW s \in 1 .. packetNum
  PROVE  MovesUp(g, s)
<1> DEFINE to == Clouds!Before[s-1]
           from == (s - 1) * PerPoints
           n == validPoints[s-1]
           size == MaxInFrame * PerPoints
<1>1. /\ packetNum \in Nat /\ packetNum <= MaxInFrame /\ MaxInFrame \in Nat /\ PerPoints \in Nat
      /\ \A t \in 0 .. packetNum - 1 : validPoints[t] \in 0 .. PerPoints
  BY FrameBounds
<1>2. s - 1 \in 0 .. packetNum /\ s - 1 \in 0 .. packetNum - 1 /\ n \in 0 .. PerPoints
  BY <1>1
<1>3. to \in 0 .. from
  BY <1>1, <1>2, BeforeFits
<1>4. /\ from \in Nat /\ size \in Nat /\ s * PerPoints = from + PerPoints
      /\ from + PerPoints <= size
  <2>1. from + PerPoints = s * PerPoints /\ s * PerPoints <= MaxInFrame * PerPoints
    BY <1>1
  <2> QED
    BY <1>1, <1>2, <2>1
<1>5. g[s] = IF to = from THEN g[s-1] ELSE Clouds!Copied(g[s-1], to, from, n)
  BY DEF CompactsBy
<1>6. g[s-1] \in [Clouds!Places -> Point]
  BY <1>2 DEF CompactsBy
<1>7. Clouds!Places = 0 .. size - 1
  BY DEF Clouds!Places
<1> HIDE DEF to, from, n, size
<1>8. CASE to = from
  <2>1. g[s] = g[s-1]
    BY <1>5, <1>8
  <2> QED
    BY <1>8, <2>1 DEF MovesUp, to, from
<1>9. CASE to # from
  <2> DEFINE a == g[s-1]
             c == g[s]
  <2>1. CopyIs(a, to, from, n)
    <3>1. to \in Nat /\ to < from /\ n \in Nat
      BY <1>1, <1>2, <1>3, <1>4, <1>9
    <3>2. from + n <= MaxInFrame * PerPoints
      BY <1>1, <1>2, <1>4 DEF size
    <3> HIDE DEF a
    <3> QED
      BY <1>4, <1>6, <3>1, <3>2, CopiedIs DEF a
  <2>2. /\ \A i \in Clouds!Places : i \notin to .. to + n - 1 => c[i] = a[i]
        /\ \A i \in to .. to + n - 1 : c[i] = a[from + (i - to)]
    BY <1>5, <1>9, <2>1 DEF CopyIs
  <2> HIDE DEF a, c
  <2>3. \A j \in 0 .. to - 1 : c[j] = a[j]
    <3>1. \A j \in 0 .. to - 1 : j \in Clouds!Places /\ j \notin to .. to + n - 1
      BY <1>1, <1>2, <1>3, <1>4, <1>7
    <3> QED
      BY <2>2, <3>1
  <2>4. ASSUME NEW j \in 0 .. n - 1 PROVE c[to + j] = a[from + j]
    <3>1. to + j \in to .. to + n - 1 /\ (to + j) - to = j
      BY <1>1, <1>2, <1>3, <1>4
    <3>2. c[to + j] = a[from + ((to + j) - to)]
      BY <2>2, <3>1
    <3> QED
      BY <3>1, <3>2
  <2>5. ASSUME NEW j \in Clouds!Places, j >= s * PerPoints PROVE c[j] = a[j]
    <3>1. j \notin to .. to + n - 1
      BY <1>1, <1>2, <1>3, <1>4, <1>7, <2>5
    <3> QED
      BY <2>2, <3>1
  <2> QED
    BY <2>3, <2>4, <2>5 DEF MovesUp, to, from, n, a, c
<1> QED
  BY <1>8, <1>9

(* What a frame's packets hold, packet by packet.                          *)
PacketsNow ==
  [s \in DOMAIN contents |-> [k \in DOMAIN contents[s] |->
     [frame |-> frameIndex, slot |-> s - 1, k |-> k]]]

LEMMA PacketsHeld ==
  ASSUME FrameTyped, \A s \in 1 .. packetNum : contents[s] # Clouds!NotYet
  PROVE  /\ PacketsNow \in Seq(Seq(Point)) /\ Len(PacketsNow) = packetNum
         /\ \A s \in 1 .. packetNum :
              /\ PacketsNow[s] \in Seq(Point) /\ Len(PacketsNow[s]) = Len(contents[s])
              /\ \A k \in 1 .. Len(contents[s]) : PacketsNow[s][k] = SlotPoint(s - 1, k)
         /\ Clouds!PointsOf(Clouds!This) = Clouds!FlattenSeq(PacketsNow)
<1>1. contents \in Seq(Contents) /\ Len(contents) = packetNum /\ packetNum \in Nat
  BY ThisDone DEF Clouds!This, DoneFrame, FrameTyped
<1>2. DOMAIN contents = 1 .. packetNum
  BY <1>1, LenProperties
<1>3. ASSUME NEW s \in 1 .. packetNum
      PROVE  /\ PacketsNow[s] \in Seq(Point) /\ Len(PacketsNow[s]) = Len(contents[s])
             /\ \A k \in 1 .. Len(contents[s]) : PacketsNow[s][k] = SlotPoint(s - 1, k)
  <2>1. contents[s] \in Contents
    BY <1>1, ElementOfSeq
  <2>2. Len(contents[s]) \in Nat /\ DOMAIN contents[s] = 1 .. Len(contents[s])
    BY <2>1, ContentTyped
  <2>3. PacketsNow[s] = [k \in 1 .. Len(contents[s]) |-> SlotPoint(s - 1, k)]
    BY <1>2, <2>2 DEF PacketsNow, SlotPoint
  <2>4. \A k \in 1 .. Len(contents[s]) : SlotPoint(s - 1, k) \in Point
    BY <1>1, <2>2 DEF SlotPoint, Point, FrameTyped
  <2> DEFINE m == Len(contents[s])
             p == PacketsNow[s]
  <2> HIDE DEF m, p
  <2>5. p = [k \in 1 .. m |-> SlotPoint(s - 1, k)] /\ m \in Nat
        /\ \A k \in 1 .. m : SlotPoint(s - 1, k) \in Point
    BY <2>2, <2>3, <2>4 DEF m, p
  <2>6. p \in [1 .. m -> Point]
    BY <2>5
  <2>7. p \in Seq(Point) /\ Len(p) = m /\ \A k \in 1 .. m : p[k] = SlotPoint(s - 1, k)
    BY <2>5, <2>6
  <2> QED
    BY <2>7 DEF m, p
<1>4. PacketsNow = [s \in 1 .. packetNum |-> PacketsNow[s]]
  BY <1>2 DEF PacketsNow
<1>5. PacketsNow \in [1 .. packetNum -> Seq(Point)]
  BY <1>3, <1>4
<1>6. PacketsNow \in Seq(Seq(Point)) /\ Len(PacketsNow) = packetNum
  BY <1>1, <1>4, <1>5
<1>7. Clouds!PointsOf(Clouds!This) = Clouds!FlattenSeq(PacketsNow)
  BY DEF Clouds!PointsOf, Clouds!This, PacketsNow
<1> QED
  BY <1>3, <1>6, <1>7


(* The first slots' points are in front, the others where they were.       *)
ClosedUpTo(s, g, f) ==
  /\ Len(f[s]) = Clouds!Before[s]
  /\ \A i \in 1 .. Clouds!Before[s] : g[s][i-1] = f[s][i]
  /\ \A j \in Clouds!Places : j >= s * PerPoints => g[s][j] = points[j]

LEMMA SlotClosed ==
  ASSUME ForwardCopy, ~remake, FrameTyped, SlotsInv,
         \A t \in 1 .. packetNum : contents[t] # Clouds!NotYet,
         NEW g, CompactsBy(g), NEW f, FlatsBy(f, PacketsNow, Point),
         NEW s \in 1 .. packetNum, ClosedUpTo(s - 1, g, f)
  PROVE  ClosedUpTo(s, g, f)
<1> DEFINE to == Clouds!Before[s-1]
           from == (s - 1) * PerPoints
           n == validPoints[s-1]
           size == MaxInFrame * PerPoints
           p == PacketsNow[s]
           a == g[s-1]
           c == g[s]
           x == f[s-1]
           y == f[s]
           b == Clouds!Before[s]
<1>1. /\ packetNum \in Nat /\ packetNum <= MaxInFrame /\ MaxInFrame \in Nat /\ PerPoints \in Nat
      /\ \A t \in 0 .. packetNum - 1 : validPoints[t] \in 0 .. PerPoints
  BY FrameBounds
<1>2. s - 1 \in 0 .. packetNum /\ s - 1 \in 0 .. packetNum - 1 /\ n \in 0 .. PerPoints
      /\ s \in 0 .. packetNum /\ (s - 1) + 1 = s
  BY <1>1
<1>3. to \in 0 .. from
  BY <1>1, <1>2, BeforeFits
<1>4. b = to + n
  BY <1>1, <1>2, BeforeIs
<1>5. /\ from \in Nat /\ size \in Nat /\ s * PerPoints = from + PerPoints /\ from + PerPoints <= size
  <2>1. from + PerPoints = s * PerPoints /\ s * PerPoints <= MaxInFrame * PerPoints
    BY <1>1
  <2> QED
    BY <1>1, <1>2, <2>1
<1>6. /\ \A j \in 0 .. to - 1 : c[j] = a[j]
      /\ \A j \in 0 .. n - 1 : c[to + j] = a[from + j]
      /\ \A j \in Clouds!Places : j >= s * PerPoints => c[j] = a[j]
  BY MovedUp DEF MovesUp
<1>7. /\ Len(x) = to
      /\ \A i \in 1 .. to : a[i-1] = x[i]
      /\ \A j \in Clouds!Places : j >= from => a[j] = points[j]
  BY DEF ClosedUpTo
<1>8. p \in Seq(Point) /\ Len(p) = n /\ \A k \in 1 .. n : p[k] = points[from + k - 1]
  <2>1. contents[s] # Clouds!NotYet
    OBVIOUS
  <2>2. /\ n = Len(contents[s])
        /\ \A k \in 1 .. Len(contents[s]) : points[from + k - 1] = SlotPoint(s - 1, k)
    BY <1>2, <2>1 DEF SlotsInv
  <2>3. /\ p \in Seq(Point) /\ Len(p) = Len(contents[s])
        /\ \A k \in 1 .. Len(contents[s]) : p[k] = SlotPoint(s - 1, k)
    BY PacketsHeld
  <2> HIDE DEF n, p, from
  <2> QED
    BY <2>2, <2>3
<1>9. x \in Seq(Point) /\ y = x \o p
  <2>1. Len(PacketsNow) = packetNum
    BY PacketsHeld
  <2> QED
    BY <1>2, <2>1 DEF FlatsBy
<1>10. Clouds!Places = 0 .. size - 1
  BY DEF Clouds!Places
<1> HIDE DEF to, from, n, size, p, a, c, x, y, b
<1>11. /\ Len(y) = to + n
       /\ \A i \in 1 .. to + n : y[i] = IF i <= to THEN x[i] ELSE p[i - to]
  BY <1>7, <1>8, <1>9, ConcatProperties
<1>12. to \in Nat /\ n \in Nat /\ n <= PerPoints
  BY <1>1, <1>2, <1>3
<1>13. ASSUME NEW i \in 1 .. to + n PROVE c[i-1] = y[i]
  <2>1. CASE i <= to
    <3>1. i \in 1 .. to /\ i - 1 \in 0 .. to - 1
      BY <1>12, <2>1
    <3> QED
      BY <1>6, <1>7, <1>11, <2>1, <3>1
  <2>2. CASE ~(i <= to)
    <3> DEFINE k == i - to
    <3>1. k \in 1 .. n /\ k - 1 \in 0 .. n - 1 /\ to + (k - 1) = i - 1 /\ from + (k - 1) = from + k - 1
      BY <1>5, <1>12, <2>2
    <3>2. y[i] = p[k]
      BY <1>11, <2>2
    <3> HIDE DEF k
    <3>3. from + (k - 1) \in Clouds!Places /\ from + (k - 1) >= from
      BY <1>1, <1>5, <1>10, <1>12, <3>1
    <3>4. c[to + (k - 1)] = a[from + (k - 1)]
      BY <1>6, <3>1
    <3>5. a[from + (k - 1)] = points[from + (k - 1)]
      BY <1>7, <3>3
    <3>6. p[k] = points[from + (k - 1)]
      BY <1>8, <3>1
    <3> QED
      BY <3>1, <3>2, <3>4, <3>5, <3>6
  <2> QED
    BY <2>1, <2>2
<1>14. ASSUME NEW j \in Clouds!Places, j >= s * PerPoints PROVE c[j] = points[j]
  <2>1. j >= from
    BY <1>1, <1>5, <1>10, <1>14
  <2> QED
    BY <1>6, <1>7, <1>14, <2>1
<1>15. Len(y) = b /\ \A i \in 1 .. b : c[i-1] = y[i]
  BY <1>4, <1>11, <1>13
<1> QED
  BY <1>14, <1>15 DEF ClosedUpTo, b, c, y

(* At its end a frame is what its packets hold.                            *)
LEMMA ThisWhole ==
  ASSUME ForwardCopy, ~remake, FrameTyped, SlotsInv,
         \A t \in 1 .. packetNum : contents[t] # Clouds!NotYet
  PROVE  Clouds!Whole = Clouds!PointsOf(Clouds!This)
<1> DEFINE n == packetNum
<1>1. n \in Nat /\ \A t \in 0 .. n - 1 : validPoints[t] \in Nat
  BY FrameBounds
<1>2. PacketsNow \in Seq(Seq(Point)) /\ Len(PacketsNow) = n
      /\ Clouds!PointsOf(Clouds!This) = Clouds!FlattenSeq(PacketsNow)
  BY PacketsHeld
<1>3. PICK f : FlatsBy(f, PacketsNow, Point)
  BY <1>2, FlattensBy
<1>4. PICK g : CompactsBy(g)
  BY CompactedIs
<1> DEFINE T == {s \in 0 .. n : ClosedUpTo(s, g, f)}
<1>5. 0 \in T
  <2>1. Clouds!Before[0] = 0
    BY <1>1, BeforeIs
  <2>2. f[0] = <<>> /\ g[0] = points
    BY <1>3, <1>4 DEF FlatsBy, CompactsBy
  <2>3. ClosedUpTo(0, g, f)
    BY <2>1, <2>2 DEF ClosedUpTo
  <2> QED
    BY <1>1, <2>3
<1>6. \A s \in 1 .. n : s - 1 \in T => s \in T
  <2> SUFFICES ASSUME NEW s \in 1 .. n, s - 1 \in T PROVE s \in T
    OBVIOUS
  <2>1. ClosedUpTo(s - 1, g, f)
    OBVIOUS
  <2>2. ClosedUpTo(s, g, f)
    BY <1>3, <1>4, <2>1, SlotClosed
  <2> QED
    BY <1>1, <2>2
<1>7. ClosedUpTo(n, g, f)
  <2> HIDE DEF T, n
  <2>1. 0 .. n \subseteq T
    BY <1>1, <1>5, <1>6, UpTo
  <2>2. n \in T
    BY <1>1, <2>1
  <2> QED
    BY <2>2 DEF T
<1>8. Clouds!FlattenSeq(PacketsNow) = f[n] /\ f[n] \in Seq(Point)
  BY <1>1, <1>2, <1>3 DEF FlatsBy
<1>9. Clouds!PointsNum = Clouds!Before[n] /\ Clouds!Finished = g[n]
  BY <1>4 DEF Clouds!PointsNum, Clouds!Finished, CompactsBy
<1>10. /\ Clouds!Whole \in Seq(Point) /\ Len(Clouds!Whole) = Clouds!PointsNum
       /\ \A i \in 1 .. Clouds!PointsNum : Clouds!Whole[i] = Clouds!Finished[i-1]
  BY WholeTyped
<1> DEFINE w == Clouds!Whole
           y == f[n]
           b == Clouds!Before[n]
           c == g[n]
<1>11. Len(y) = b /\ \A i \in 1 .. b : c[i-1] = y[i]
  BY <1>7 DEF ClosedUpTo
<1>12. w \in Seq(Point) /\ y \in Seq(Point) /\ Len(w) = b /\ \A i \in 1 .. b : w[i] = c[i-1]
  BY <1>8, <1>9, <1>10
<1> HIDE DEF w, y, b, c
<1>13. w = y
  BY <1>11, <1>12, SeqEqual
<1> QED
  BY <1>2, <1>8, <1>13 DEF w, y


(* The points of any frame are points.                                     *)
LEMMA PointsTyped ==
  ASSUME NEW f \in DoneFrame
  PROVE  Clouds!PointsOf(f) \in Seq(Point)
<1> DEFINE c == f.contents
           n == Len(c)
           p(s) == [k \in DOMAIN c[s] |-> [frame |-> f.index, slot |-> s - 1, k |-> k]]
           q == [s \in DOMAIN c |-> p(s)]
<1>1. c \in Seq(Contents) /\ n \in Nat /\ DOMAIN c = 1 .. n /\ f.index \in Nat
  BY LenProperties DEF DoneFrame
<1>2. ASSUME NEW s \in 1 .. n PROVE p(s) \in Seq(Point)
  <2> DEFINE m == Len(c[s])
  <2>1. c[s] \in Contents
    BY <1>1, ElementOfSeq
  <2>2. m \in Nat /\ DOMAIN c[s] = 1 .. m
    BY <2>1, ContentTyped
  <2>3. \A k \in 1 .. m : [frame |-> f.index, slot |-> s - 1, k |-> k] \in Point
    BY <1>1, <2>2 DEF Point
  <2> HIDE DEF m
  <2>4. p(s) \in [1 .. m -> Point]
    BY <2>2, <2>3
  <2> QED
    BY <2>2, <2>4
<1> HIDE DEF p, n
<1>3. q \in [1 .. n -> Seq(Point)]
  BY <1>1, <1>2
<1>4. q \in Seq(Seq(Point))
  BY <1>1, <1>3
<1>5. <<>> \in Seq(Point)
  OBVIOUS
<1> HIDE DEF q
<1>6. Clouds!FlattenSeq(q) \in Seq(Point)
  BY <1>4, <1>5, FlatGrows
<1> QED
  BY <1>6 DEF Clouds!PointsOf, q, p

(* Frames and what a cloud of them has.                                    *)
PointsIn(frames) == [i \in DOMAIN frames |-> Clouds!PointsOf(frames[i])]
ContentsIn(frames) == [i \in DOMAIN frames |-> frames[i].contents]
FramesHeld(grid, frames, pts, packets, start) ==
  /\ packets = Len(Clouds!FlattenSeq(ContentsIn(frames)))
  /\ ~grid => /\ pts = Clouds!FlattenSeq(PointsIn(frames))
              /\ frames # <<>> => start = frames[1].index
FrameHeld(grid, f, w, packets, start) ==
  /\ packets = Len(f.contents)
  /\ ~grid => w = Clouds!PointsOf(f) /\ start = f.index
NoneBegins(frames, start) == frames = <<>> => start = 0

LEMMA FramesOfNone ==
  ASSUME NEW grid, NEW start
  PROVE  FramesHeld(grid, <<>>, <<>>, 0, start)
<1>1. PointsIn(<<>>) = <<>> /\ ContentsIn(<<>>) = <<>>
  BY DEF PointsIn, ContentsIn
<1>2. Clouds!FlattenSeq(<<>>) = <<>> /\ Len(<<>>) = 0
  BY DEF Clouds!FlattenSeq
<1> QED
  BY <1>1, <1>2 DEF FramesHeld

LEMMA AppendAs ==
  ASSUME NEW S, NEW a \in Seq(S), NEW c \in S, NEW m \in Nat, Len(a) = m
  PROVE  Append(a, c) = [i \in 1 .. m + 1 |-> IF i \in 1 .. m THEN a[i] ELSE c]
<1> DEFINE b == Append(a, c)
<1>1. /\ b \in Seq(S) /\ Len(b) = m + 1
      /\ (\A i \in 1 .. m : b[i] = a[i]) /\ b[m + 1] = c
  BY AppendProperties
<1> HIDE DEF b
<1>2. b = [i \in 1 .. m + 1 |-> b[i]]
  BY <1>1
<1>3. \A i \in 1 .. m + 1 : b[i] = IF i \in 1 .. m THEN a[i] ELSE c
  BY <1>1
<1>4. b = [i \in 1 .. m + 1 |-> IF i \in 1 .. m THEN a[i] ELSE c]
  BY <1>2, <1>3
<1> QED
  BY <1>4 DEF b

LEMMA FramesGrow ==
  ASSUME NEW grid \in BOOLEAN, NEW frames \in Seq(DoneFrame), NEW pts, NEW packets \in Nat, NEW start \in Nat,
         FramesHeld(grid, frames, pts, packets, start), NoneBegins(frames, start),
         NEW f \in DoneFrame, NEW w, NEW n \in Nat, NEW z, FrameHeld(grid, f, w, n, z)
  PROVE  FramesHeld(grid, Append(frames, f), pts \o w, packets + n,
                    IF start <= 0 THEN z ELSE start)
<1> DEFINE m == Len(frames)
           fs == Append(frames, f)
           st == IF start <= 0 THEN z ELSE start
<1>1. /\ m \in Nat /\ DOMAIN frames = 1 .. m /\ Len(fs) = m + 1 /\ DOMAIN fs = 1 .. m + 1
      /\ (\A i \in 1 .. m : fs[i] = frames[i]) /\ fs[m + 1] = f
  BY LenProperties, AppendProperties
<1>2. \A i \in 1 .. m : frames[i] \in DoneFrame
  BY <1>1, ElementOfSeq
<1> HIDE DEF m, fs
<1>3. packets + n = Len(Clouds!FlattenSeq(ContentsIn(fs)))
  <2> DEFINE a == ContentsIn(frames)
             c == f.contents
  <2>1. a \in Seq(Seq(Contents)) /\ Len(a) = m /\ c \in Seq(Contents)
    <3>1. a = [i \in 1 .. m |-> frames[i].contents]
      BY <1>1 DEF ContentsIn
    <3>2. a \in [1 .. m -> Seq(Contents)]
      BY <1>2, <3>1 DEF DoneFrame
    <3> QED
      BY <1>1, <3>1, <3>2 DEF DoneFrame
  <2>2. ContentsIn(fs) = Append(a, c)
    <3>1. ContentsIn(fs) = [i \in 1 .. m + 1 |-> fs[i].contents]
      BY <1>1 DEF ContentsIn
    <3>2. a = [i \in 1 .. m |-> frames[i].contents]
      BY <1>1 DEF ContentsIn
    <3>3. \A i \in 1 .. m + 1 : fs[i].contents = IF i \in 1 .. m THEN a[i] ELSE c
      BY <1>1, <3>2
    <3> HIDE DEF a, c
    <3>4. Append(a, c) = [i \in 1 .. m + 1 |-> IF i \in 1 .. m THEN a[i] ELSE c]
      <4>1. m \in Nat
        BY <1>1
      <4> QED
        BY <2>1, <4>1, AppendAs
    <3> QED
      BY <3>1, <3>3, <3>4
  <2> HIDE DEF a, c
  <2>3. Clouds!FlattenSeq(a) \in Seq(Contents)
        /\ Clouds!FlattenSeq(Append(a, c)) = Clouds!FlattenSeq(a) \o c
    BY <2>1, FlatGrows
  <2>4. Len(Clouds!FlattenSeq(a) \o c) = Len(Clouds!FlattenSeq(a)) + Len(c)
    BY <2>1, <2>3, ConcatProperties
  <2>5. packets = Len(Clouds!FlattenSeq(a)) /\ n = Len(c)
    BY DEF FramesHeld, FrameHeld, a, c
  <2> QED
    BY <2>2, <2>3, <2>4, <2>5
<1>4. ASSUME ~grid PROVE pts \o w = Clouds!FlattenSeq(PointsIn(fs))
  <2> DEFINE a == PointsIn(frames)
             c == Clouds!PointsOf(f)
  <2>1. a \in Seq(Seq(Point)) /\ Len(a) = m /\ c \in Seq(Point)
    <3>1. a = [i \in 1 .. m |-> Clouds!PointsOf(frames[i])]
      BY <1>1 DEF PointsIn
    <3>2. \A i \in 1 .. m : Clouds!PointsOf(frames[i]) \in Seq(Point)
      BY <1>2, PointsTyped
    <3>3. a \in [1 .. m -> Seq(Point)]
      BY <3>1, <3>2
    <3>4. c \in Seq(Point)
      BY PointsTyped
    <3> QED
      BY <1>1, <3>1, <3>3, <3>4
  <2>2. PointsIn(fs) = Append(a, c)
    <3>1. PointsIn(fs) = [i \in 1 .. m + 1 |-> Clouds!PointsOf(fs[i])]
      BY <1>1 DEF PointsIn
    <3>2. a = [i \in 1 .. m |-> Clouds!PointsOf(frames[i])]
      BY <1>1 DEF PointsIn
    <3>3. \A i \in 1 .. m + 1 : Clouds!PointsOf(fs[i]) = IF i \in 1 .. m THEN a[i] ELSE c
      BY <1>1, <3>2
    <3> HIDE DEF a, c
    <3>4. Append(a, c) = [i \in 1 .. m + 1 |-> IF i \in 1 .. m THEN a[i] ELSE c]
      <4>1. m \in Nat
        BY <1>1
      <4> QED
        BY <2>1, <4>1, AppendAs
    <3> QED
      BY <3>1, <3>3, <3>4
  <2> HIDE DEF a, c
  <2>3. Clouds!FlattenSeq(Append(a, c)) = Clouds!FlattenSeq(a) \o c
    BY <2>1, FlatGrows
  <2>4. pts = Clouds!FlattenSeq(a) /\ w = c
    BY <1>4 DEF FramesHeld, FrameHeld, a, c
  <2> QED
    BY <2>2, <2>3, <2>4
<1>5. ASSUME ~grid PROVE st = fs[1].index
  <2>1. CASE m = 0
    <3>1. frames = <<>>
      BY <2>1, EmptySeq DEF m
    <3>2. start = 0 /\ fs[1] = f
      BY <1>1, <2>1, <3>1 DEF NoneBegins
    <3> QED
      BY <1>5, <3>2 DEF FrameHeld
  <2>2. CASE m # 0
    <3>1. 1 \in 1 .. m
      BY <1>1, <2>2
    <3>2. frames # <<>>
      BY <2>2, EmptySeq DEF m
    <3>3. start = frames[1].index /\ fs[1] = frames[1]
      BY <1>1, <1>5, <3>1, <3>2 DEF FramesHeld
    <3>4. frames[1].index \in Nat \ {0}
      BY <1>2, <3>1 DEF DoneFrame
    <3> QED
      BY <3>3, <3>4
  <2> QED
    BY <2>1, <2>2
<1>6. FramesHeld(grid, fs, pts \o w, packets + n, st)
  <2> HIDE DEF st
  <2> QED
    BY <1>3, <1>4, <1>5 DEF FramesHeld
<1> QED
  BY <1>6 DEF fs


(* The invariant behind CloudsAreExact.                                    *)
CloudsInv ==
  /\ FrameTyped /\ MergedInv /\ SlotsInv
  /\ NoneBegins(merging, multiStart)
  /\ FramesHeld(remake, merging, multi, multiPackets, multiStart)
  /\ FramesHeld(remake, cloud.frames, cloud.points, cloud.packets, cloud.start)

(* The frame at its end, if it is large enough to be sent.                 *)
LEMMA ThisHeld ==
  ASSUME ForwardCopy, FrameTyped, SlotsInv, Clouds!PointsNum > MinPoints,
         \A t \in 1 .. packetNum : contents[t] # Clouds!NotYet
  PROVE  FrameHeld(remake, Clouds!This, Clouds!Whole, packetNum, Clouds!StartTimestamp)
<1>1. packetNum = Len(Clouds!This.contents)
  BY DEF Clouds!This, FrameTyped
<1>2. ASSUME ~remake
      PROVE  Clouds!Whole = Clouds!PointsOf(Clouds!This) /\ Clouds!StartTimestamp = Clouds!This.index
  <2>1. Clouds!Whole = Clouds!PointsOf(Clouds!This)
    BY <1>2, ThisWhole
  <2>2. packetNum # 0
    <3> SUFFICES ASSUME packetNum = 0 PROVE FALSE
      OBVIOUS
    <3>1. Clouds!Before[0] = 0
      BY FrameBounds, BeforeIs
    <3>2. MinPoints \in Nat
      BY CloudsParameters DEF Clouds!CloudsAssumption
    <3>3. Clouds!PointsNum = 0
      BY <1>2, <3>1 DEF Clouds!PointsNum
    <3> QED
      BY <3>2, <3>3
  <2> QED
    BY <2>1, <2>2 DEF Clouds!StartTimestamp, Clouds!This
<1> QED
  BY <1>1, <1>2 DEF FrameHeld

LEMMA FramesMerged ==
  ASSUME ForwardCopy, CloudsInv, Clouds!PointsNum > MinPoints,
         \A t \in 1 .. packetNum : contents[t] # Clouds!NotYet, Clouds!MultiSend
  PROVE  /\ NoneBegins(merging', multiStart')
         /\ FramesHeld(remake, merging', multi', multiPackets', multiStart')
         /\ FramesHeld(remake, cloud'.frames, cloud'.points, cloud'.packets, cloud'.start)
<1> DEFINE t == Clouds!This
           w == Clouds!Whole
           z == Clouds!StartTimestamp
           n == packetNum
<1>1. /\ remake \in BOOLEAN /\ merging \in Seq(DoneFrame) /\ multi \in Seq(Point)
      /\ multiPackets \in Nat /\ multiStart \in Nat
      /\ NoneBegins(merging, multiStart)
      /\ FramesHeld(remake, merging, multi, multiPackets, multiStart)
      /\ FramesHeld(remake, cloud.frames, cloud.points, cloud.packets, cloud.start)
  BY DEF CloudsInv, FrameTyped, MergedInv
<1>2. FrameHeld(remake, t, w, n, z)
  BY ThisHeld DEF CloudsInv
<1>3. t \in DoneFrame /\ w \in Seq(Point) /\ n \in Nat
  BY ThisDone, WholeTyped, FrameBounds DEF CloudsInv
<1> HIDE DEF t, w, z, n
<1>4. CASE SentAlone
  <2>1. /\ cloud'.points = w /\ cloud'.frames = <<t>> /\ cloud'.packets = n /\ cloud'.start = z
        /\ UNCHANGED <<multi, merging, multiPackets, multiStart>>
    BY <1>4 DEF SentAlone, t, w, z, n
  <2>2. <<>> \in Seq(DoneFrame) /\ Append(<<>>, t) = <<t>> /\ <<>> \o w = w /\ 0 + n = n
        /\ (IF 0 <= 0 THEN z ELSE 0) = z
    BY <1>3, ConcatEmptySeq
  <2>3. FramesHeld(remake, <<>>, <<>>, 0, 0) /\ NoneBegins(<<>>, 0)
    BY FramesOfNone DEF NoneBegins
  <2>4. FramesHeld(remake, Append(<<>>, t), <<>> \o w, 0 + n, IF 0 <= 0 THEN z ELSE 0)
    <3>1. 0 \in Nat
      OBVIOUS
    <3> QED
      BY <1>1, <1>2, <1>3, <2>2, <2>3, <3>1, FramesGrow
  <2>5. FramesHeld(remake, <<t>>, w, n, z)
    BY <2>2, <2>4
  <2> QED
    BY <1>1, <2>1, <2>5
<1>5. CASE Merged(AllFrames)
  <2> DEFINE fs == Append(merging, t)
             ps == multi \o w
             ks == multiPackets + n
             st == IF multiStart <= 0 THEN z ELSE multiStart
  <2>1. FramesHeld(remake, fs, ps, ks, st)
    BY <1>1, <1>2, <1>3, FramesGrow
  <2>2. fs # <<>>
    BY <1>1, <1>3, AppendProperties
  <2>3. /\ AllFrames.points = ps /\ AllFrames.frames = fs /\ AllFrames.packets = ks
        /\ AllFrames.start = st
    BY DEF AllFrames, t, w, z, n
  <2> HIDE DEF fs, ps, ks, st
  <2>4. \/ cloud' = AllFrames /\ multi' = <<>> /\ merging' = <<>> /\ multiPackets' = 0 /\ multiStart' = 0
        \/ /\ cloud' = cloud /\ multi' = AllFrames.points /\ merging' = AllFrames.frames
           /\ multiPackets' = AllFrames.packets /\ multiStart' = AllFrames.start
    BY <1>5 DEF Merged
  <2>5. FramesHeld(remake, <<>>, <<>>, 0, 0) /\ NoneBegins(<<>>, 0)
    BY FramesOfNone DEF NoneBegins
  <2>6. NoneBegins(fs, st)
    BY <2>2 DEF NoneBegins
  <2> QED
    BY <1>1, <2>1, <2>3, <2>4, <2>5, <2>6
<1> QED
  BY <1>4, <1>5, MultiSends

(* A packet is in none of the slots before.                                *)
LEMMA SlotsQueued ==
  ASSUME FrameTyped, SlotsInv, Clouds!Packet PROVE SlotsInv'
<1> DEFINE T == Contents \cup {Clouds!NotYet}
           n == packetNum
<1>1. /\ packetNum' = n + 1 /\ contents' = Append(contents, Clouds!NotYet)
      /\ UNCHANGED <<remake, frameIndex, points, validPoints>>
  BY DEF Clouds!Packet
<1>2. contents \in Seq(T) /\ Len(contents) = n /\ n \in Nat /\ Clouds!NotYet \in T
  BY FrameBounds DEF FrameTyped
<1> HIDE DEF T
<1>3. (\A i \in 1 .. n : contents'[i] = contents[i]) /\ contents'[n + 1] = Clouds!NotYet
  BY <1>1, <1>2, AppendProperties
<1> SUFFICES ASSUME ~remake, NEW s \in 0 .. n, contents'[s + 1] # Clouds!NotYet
             PROVE  /\ validPoints[s] = Len(contents'[s + 1])
                    /\ \A k \in 1 .. Len(contents'[s + 1]) :
                         points[s * PerPoints + k - 1] = SlotPoint(s, k)
  <2>1. 0 .. packetNum' - 1 = 0 .. n
    BY <1>1, <1>2
  <2> QED
    BY <1>1, <2>1 DEF SlotsInv, SlotPoint, Clouds!NotYet, Clouds!Blank
<1>4. s # n
  BY <1>3
<1>5. s \in 0 .. n - 1 /\ s + 1 \in 1 .. n
  BY <1>2, <1>4
<1>6. contents'[s + 1] = contents[s + 1]
  BY <1>3, <1>5
<1> QED
  BY <1>5, <1>6 DEF SlotsInv

(* A frame begins with no slots.                                           *)
LEMMA FrameAnew ==
  ASSUME FrameTyped, Clouds!Update, points' \in [Clouds!Places -> Point], UNCHANGED <<remake, rate, validPoints>>
  PROVE  FrameTyped' /\ SlotsInv'
<1>1. frameIndex' = frameIndex + 1 /\ packetNum' = 0 /\ contents' = <<>>
  BY DEF Clouds!Update
<1>2. FrameTyped'
  <2>1. Len(contents') = 0 /\ contents' \in Seq(Contents \cup {Clouds!NotYet})
    BY <1>1
  <2>2. frameIndex' \in Nat \ {0} /\ packetNum' \in 0 .. MaxInFrame
    BY <1>1, FrameBounds DEF FrameTyped
  <2> QED
    BY <1>1, <2>1, <2>2 DEF FrameTyped, Clouds!Places, Clouds!Slots, Clouds!NotYet, Clouds!Blank
<1>3. SlotsInv'
  <2>1. 0 .. packetNum' - 1 = {}
    BY <1>1
  <2> QED
    BY <2>1 DEF SlotsInv
<1> QED
  BY <1>2, <1>3


LEMMA CloudsKept ==
  ASSUME ForwardCopy, CloudsInv, Clouds!Next
  PROVE  CloudsInv'
<1> DEFINE AllHeld == /\ NoneBegins(merging', multiStart')
                    /\ FramesHeld(remake, merging', multi', multiPackets', multiStart')
                    /\ FramesHeld(remake, cloud'.frames, cloud'.points, cloud'.packets, cloud'.start)
<1>1. /\ FrameTyped /\ MergedInv /\ SlotsInv /\ NoneBegins(merging, multiStart)
      /\ FramesHeld(remake, merging, multi, multiPackets, multiStart)
      /\ FramesHeld(remake, cloud.frames, cloud.points, cloud.packets, cloud.start)
  BY DEF CloudsInv
<1>2. ASSUME UNCHANGED remake, FrameTyped', MergedInv', SlotsInv', AllHeld
      PROVE  CloudsInv'
  <2>1. /\ NoneBegins(merging', multiStart')
        /\ FramesHeld(remake', merging', multi', multiPackets', multiStart')
        /\ FramesHeld(remake', cloud'.frames, cloud'.points, cloud'.packets, cloud'.start)
    BY <1>2
  <2>2. /\ NoneBegins(merging, multiStart)'
        /\ FramesHeld(remake, merging, multi, multiPackets, multiStart)'
        /\ FramesHeld(remake, cloud.frames, cloud.points, cloud.packets, cloud.start)'
    BY <2>1 DEF NoneBegins, FramesHeld, PointsIn, ContentsIn, Clouds!PointsOf, Clouds!FlattenSeq
  <2> QED
    BY <1>2, <2>2 DEF CloudsInv
<1>3. ASSUME UNCHANGED <<remake, rate, Clouds!multiVars, cloud>>
      PROVE  MergedInv' /\ AllHeld
  <2>1. /\ UNCHANGED <<remake, rate, multi, multiPackets, multiStart, sends, merging>>
        /\ cloud' = cloud
    BY <1>3 DEF Clouds!multiVars
  <2> QED
    BY <1>1, <2>1 DEF MergedInv
<1> HIDE DEF AllHeld
<1>4. CASE Clouds!Packet
  <2>1. UNCHANGED <<remake, rate, Clouds!multiVars, cloud>>
    BY <1>4 DEF Clouds!Packet
  <2> QED
    BY <1>1, <1>2, <1>3, <1>4, <2>1, GridPacket, SlotsQueued
<1>5. ASSUME NEW s \in 0 .. packetNum - 1, Clouds!ComputeXYZI(s) PROVE CloudsInv'
  <2>1. UNCHANGED <<remake, rate, Clouds!multiVars, cloud>>
    BY <1>5 DEF Clouds!ComputeXYZI
  <2> QED
    BY <1>1, <1>2, <1>3, <1>5, <2>1, FrameComputed, SlotsComputed
<1>6. CASE Clouds!SplitFrame
  <2>1. /\ \A s \in 1 .. packetNum : contents[s] # Clouds!NotYet
        /\ IF Clouds!PointsNum > MinPoints THEN Clouds!MultiSend ELSE UNCHANGED <<Clouds!multiVars, cloud>>
        /\ Clouds!Update /\ points' = Clouds!Cleared(Clouds!Finished)
        /\ UNCHANGED <<remake, rate, validPoints>>
    BY <1>6 DEF Clouds!SplitFrame
  <2>2. points' \in [Clouds!Places -> Point]
    <3>1. Clouds!Finished \in [Clouds!Places -> Point]
      BY <1>1, WholeTyped
    <3>2. Clouds!Blank \in Point
      BY DEF Clouds!Blank, Point
    <3> QED
      BY <2>1, <3>1, <3>2 DEF Clouds!Cleared
  <2>3. FrameTyped' /\ SlotsInv'
    BY <1>1, <2>1, <2>2, FrameAnew
  <2>4. CASE Clouds!PointsNum > MinPoints
    <3>1. Clouds!MultiSend
      BY <2>1, <2>4
    <3>2. MergedInv'
      BY <1>1, <2>1, <3>1, MergedTyped
    <3>3. AllHeld
      BY <2>1, <2>4, <3>1, FramesMerged DEF AllHeld
    <3> QED
      BY <1>2, <2>1, <2>3, <3>2, <3>3
  <2>5. CASE ~(Clouds!PointsNum > MinPoints)
    <3>1. UNCHANGED <<remake, rate, Clouds!multiVars, cloud>>
      BY <2>1, <2>5
    <3> QED
      BY <1>2, <1>3, <2>1, <2>3, <3>1
  <2> QED
    BY <2>4, <2>5
<1>7. CASE Clouds!GiveUp
  <2>1. /\ Clouds!Update
        /\ UNCHANGED <<remake, rate, points, validPoints, Clouds!multiVars, cloud>>
    BY <1>7 DEF Clouds!GiveUp
  <2>2. points' \in [Clouds!Places -> Point]
    BY <1>1, <2>1 DEF FrameTyped
  <2>3. FrameTyped' /\ SlotsInv'
    BY <1>1, <2>1, <2>2, FrameAnew
  <2> QED
    BY <1>2, <1>3, <2>1, <2>3
<1> QED
  BY <1>4, <1>5, <1>6, <1>7 DEF Clouds!Next

(* It says what CloudsAreExact says.                                       *)
LEMMA CloudsFollow ==
  ASSUME CloudsInv PROVE Clouds!CloudsAreExact
<1> SUFFICES ASSUME cloud.frames # <<>>
             PROVE  /\ Len(cloud.frames) = rate
                    /\ cloud.packets = Len(Clouds!FlattenSeq(ContentsIn(cloud.frames)))
                    /\ ~remake => /\ cloud.points = Clouds!FlattenSeq(PointsIn(cloud.frames))
                                  /\ cloud.start = cloud.frames[1].index
  BY DEF Clouds!CloudsAreExact, ContentsIn, PointsIn
<1> QED
  BY DEF CloudsInv, MergedInv, FramesHeld

(* A cloud is what the filters left of the frames it stands for, each point *)
(* once and in order, and no others; it counts their packets and begins     *)
(* with the first frame: for any contents, sizes and rates, in whatever     *)
(* order the slots are computed, if memcpy copies from front to back.       *)
THEOREM CloudsExact == ForwardCopy => (Spec => []CloudsAreExact)
<1> SUFFICES ASSUME ForwardCopy PROVE Spec => []CloudsAreExact
  OBVIOUS
<1> DEFINE Inv == part = "clouds" => CloudsInv
<1>1. Init => Inv
  <2> SUFFICES ASSUME Init, part = "clouds" PROVE CloudsInv
    OBVIOUS
  <2>1. Clouds!Init
    BY DEF Init
  <2>2. FrameTyped /\ MergedInv
    BY <2>1, CloudsStart
  <2>3. /\ packetNum = 0 /\ merging = <<>> /\ multi = <<>> /\ multiPackets = 0 /\ multiStart = 0
        /\ cloud = [points |-> <<>>, packets |-> 0, start |-> 0, frames |-> <<>>]
    BY <2>1 DEF Clouds!Init
  <2>4. SlotsInv /\ NoneBegins(merging, multiStart)
    BY <2>3 DEF SlotsInv, NoneBegins
  <2> QED
    BY <2>2, <2>3, <2>4, FramesOfNone DEF CloudsInv
<1>2. Inv /\ [Next]_vars => Inv'
  <2> SUFFICES ASSUME Inv, [Next]_vars, (part = "clouds")' PROVE CloudsInv'
    OBVIOUS
  <2>1. part = "clouds" /\ CloudsInv
    BY DEF Next, OfSerial, OfTcp, OfPcap, OfDecoder, OfClouds, vars
  <2>2. CASE OfClouds(Clouds!Next)
    <3>1. Clouds!Next
      BY <2>2 DEF OfClouds
    <3> QED
      BY <2>1, <3>1, CloudsKept
  <2>3. CASE UNCHANGED vars
    <3>1. UNCHANGED <<packetNum, points, remake, rate, frameIndex, contents, validPoints, multi, multiPackets,
                      multiStart, sends, merging, cloud>>
      BY <2>3 DEF vars, varsPoints, varsPacketNum, varsClouds
    <3>2. FrameTyped'
      BY <2>1, <3>1 DEF CloudsInv, FrameTyped, Clouds!Places, Clouds!Slots, Clouds!NotYet, Clouds!Blank
    <3>3. MergedInv'
      BY <2>1, <3>1 DEF CloudsInv, MergedInv
    <3>4. SlotsInv'
      BY <2>1, <3>1 DEF CloudsInv, SlotsInv, SlotPoint, Clouds!NotYet, Clouds!Blank
    <3>5. /\ NoneBegins(merging', multiStart')
          /\ FramesHeld(remake', merging', multi', multiPackets', multiStart')
          /\ FramesHeld(remake', cloud'.frames, cloud'.points, cloud'.packets, cloud'.start)
      BY <2>1, <3>1 DEF CloudsInv
    <3>6. /\ NoneBegins(merging, multiStart)'
          /\ FramesHeld(remake, merging, multi, multiPackets, multiStart)'
          /\ FramesHeld(remake, cloud.frames, cloud.points, cloud.packets, cloud.start)'
      BY <3>5 DEF NoneBegins, FramesHeld, PointsIn, ContentsIn, Clouds!PointsOf, Clouds!FlattenSeq
    <3> QED
      BY <3>2, <3>3, <3>4, <3>6 DEF CloudsInv
  <2> QED
    BY <2>1, <2>2, <2>3 DEF Next, OfSerial, OfTcp, OfPcap, OfDecoder
<1>3. Inv => CloudsAreExact
  BY CloudsFollow DEF CloudsAreExact
<1> QED
  BY <1>1, <1>2, <1>3, PTL DEF Spec
=============================================================================
