--------------------------- MODULE Sources_proofs ---------------------------
(***************************************************************************)
(* Proofs about the ways of a packet into the driver (MCSources), for any   *)
(* messages, recordings, sizes and bounds: what the TCP, pcap and serial   *)
(* sources hand on is what was sent, whole and in order.                   *)
(***************************************************************************)
EXTENDS MCSources, FiniteSets, SequenceTheorems, FiniteSetTheorems, WellFoundedInduction, TLAPS

(* A set of naturals has a least element. *)
LEMMA LeastNatural ==
  ASSUME NEW T, T \subseteq Nat, T # {}
  PROVE  \E x \in T : \A y \in T : x <= y
<1> DEFINE R == OpToRel(<, Nat)
<1>1. \A x, y \in Nat : y < x => <<y, x>> \in R
  BY DEF OpToRel
<1>2. IsWellFoundedOn(R, Nat)
  BY NatLessThanWellFounded
<1> HIDE DEF R
<1>3. PICK x \in T : \A y \in T : ~ (<<y, x>> \in R)
  BY <1>2, WFMin
<1>4. x \in Nat /\ \A y \in T : y \in Nat /\ ~(y < x)
  BY <1>1, <1>3
<1>5. \A y \in T : x <= y
  BY <1>4
<1> QED
  BY <1>5

(* Induction up to n, for a set of naturals. *)
LEMMA UpTo ==
  ASSUME NEW T, NEW n \in Nat, 0 \in T, \A k \in 1 .. n : k - 1 \in T => k \in T
  PROVE  0 .. n \subseteq T
<1> DEFINE M == (0 .. n) \ T
<1> SUFFICES ASSUME M # {} PROVE FALSE
  OBVIOUS
<1>1. PICK x \in M : \A y \in M : x <= y
  <2>1. M \subseteq Nat
    OBVIOUS
  <2> HIDE DEF M
  <2> QED
    BY <2>1, LeastNatural
<1>2. x # 0 /\ x \in 1 .. n /\ x - 1 \in 0 .. n
  OBVIOUS
<1>3. x - 1 \in T
  BY <1>1, <1>2
<1> QED
  BY <1>2, <1>3

(* A quotient and its remainder. *)
LEMMA Divided ==
  ASSUME NEW x \in Nat, NEW r \in Nat \ {0}
  PROVE  x \div r \in Nat /\ x % r \in 0 .. r - 1 /\ x = r * (x \div r) + (x % r)
OBVIOUS

(* Two recursions that start and go on alike, up to n, agree there. *)
Alike(f, g, n) ==
  f[0] = g[0] /\ \A i \in 1 .. n : f[i-1] = g[i-1] => f[i] = g[i]

(* They do. *)
LEMMA Agree ==
  ASSUME NEW n \in Nat, NEW f, NEW g, Alike(f, g, n)
  PROVE  \A i \in 0 .. n : f[i] = g[i]
<1> DEFINE T == {i \in 0 .. n : f[i] = g[i]}
<1>1. 0 \in T /\ \A k \in 1 .. n : k - 1 \in T => k \in T
  BY DEF Alike
<1> HIDE DEF T
<1>2. 0 .. n \subseteq T
  BY <1>1, UpTo
<1> QED
  BY <1>2 DEF T

(* Is f the function that starts with base and goes on by step, up to n? *)
Recurs(f, V, n, base, step) ==
  f \in [0 .. n -> V] /\ f[0] = base /\ \A i \in 1 .. n : f[i] = step[i][f[i-1]]

(* A function may be defined by recursion up to n. *)
LEMMA RecursionExists ==
  ASSUME NEW V, NEW n \in Nat, NEW base \in V, NEW step \in [1 .. n -> [V -> V]]
  PROVE  \E f : Recurs(f, V, n, base, step)
<1> DEFINE Upto(k, f) == /\ f \in [0 .. k -> V] /\ f[0] = base
                         /\ \A i \in 1 .. k : f[i] = step[i][f[i-1]]
           T == {k \in 0 .. n : \E f : Upto(k, f)}
<1>1. 0 \in T
  <2>1. Upto(0, [i \in 0 .. 0 |-> base])
    OBVIOUS
  <2> HIDE DEF Upto
  <2> QED
    BY <2>1
<1>2. \A k \in 1 .. n : k - 1 \in T => k \in T
  <2> SUFFICES ASSUME NEW k \in 1 .. n, k - 1 \in T PROVE k \in T
    OBVIOUS
  <2>1. PICK f : Upto(k - 1, f)
    OBVIOUS
  <2> DEFINE g == [i \in 0 .. k |-> IF i = k THEN step[k][f[k-1]] ELSE f[i]]
  <2>2. f[k-1] \in V /\ step[k] \in [V -> V] /\ step[k][f[k-1]] \in V
    BY <2>1
  <2>3. g \in [0 .. k -> V]
    BY <2>1, <2>2
  <2>4. g[0] = base
    BY <2>1
  <2>5. \A i \in 1 .. k : g[i] = step[i][g[i-1]]
    BY <2>1
  <2>6. Upto(k, g)
    BY <2>3, <2>4, <2>5
  <2> HIDE DEF Upto, g
  <2> QED
    BY <2>6
<1> HIDE DEF T
<1>3. n \in T
  <2>1. 0 .. n \subseteq T
    BY <1>1, <1>2, UpTo
  <2> QED
    BY <2>1
<1> QED
  BY <1>3 DEF T, Recurs

(* Sequences one after the other.                                          *)
FlatsBy(f, seqs, S) ==
  /\ f \in [0 .. Len(seqs) -> Seq(S)] /\ f[0] = <<>>
  /\ \A i \in 1 .. Len(seqs) : f[i] = f[i-1] \o seqs[i]
  /\ Clouds!FlattenSeq(seqs) = f[Len(seqs)]

LEMMA FlattensBy ==
  ASSUME NEW S, NEW seqs \in Seq(Seq(S))
  PROVE  \E f : FlatsBy(f, seqs, S)
<1> DEFINE n == Len(seqs)
           V == Seq(S)
           step == [i \in 1 .. n |-> [v \in V |-> v \o seqs[i]]]
           Of(f) == [i \in 1 .. n |-> IF i = 1 THEN seqs[i] ELSE f[i-1] \o seqs[i]]
           f == CHOOSE h : h = Of(h)
<1>1. n \in Nat /\ <<>> \in V /\ \A i \in 1 .. n : seqs[i] \in V
  BY LenProperties, ElementOfSeq
<1>2. \A i \in 1 .. n : \A v \in V : v \o seqs[i] \in V
  BY <1>1, ConcatProperties
<1>3. step \in [1 .. n -> [V -> V]]
  BY <1>2
<1>4. PICK g \in [0 .. n -> V] : g[0] = <<>> /\ \A i \in 1 .. n : g[i] = step[i][g[i-1]]
  <2> HIDE DEF step, n, V
  <2>1. \E g : Recurs(g, V, n, <<>>, step)
    BY <1>1, <1>3, RecursionExists
  <2> QED
    BY <2>1 DEF Recurs
<1>5. \A i \in 1 .. n : g[i] = g[i-1] \o seqs[i]
  <2> HIDE DEF V
  <2>1. \A i \in 1 .. n : g[i-1] \in V
    <3> HIDE DEF n, step
    <3>1. \A i \in 1 .. n : i - 1 \in 0 .. n
      BY <1>1
    <3> QED
      BY <1>4, <3>1
  <2>2. \A i \in 1 .. n : \A v \in V : step[i][v] = v \o seqs[i]
    OBVIOUS
  <2> HIDE DEF step
  <2> QED
    BY <1>4, <2>1, <2>2
<1>6. CASE n = 0
  <2>1. seqs = <<>>
    BY <1>6, EmptySeq
  <2>2. Clouds!FlattenSeq(seqs) = seqs
    BY <1>6 DEF Clouds!FlattenSeq
  <2>3. FlatsBy(g, seqs, S)
    BY <1>4, <1>5, <1>6, <2>1, <2>2 DEF FlatsBy
  <2> QED
    BY <2>3
<1>7. CASE n # 0
  <2>9. n \in Nat \ {0} /\ 1 \in 1 .. n
    <3> HIDE DEF n
    <3> QED
      BY <1>1, <1>7
  <2>10. g[1] = g[0] \o seqs[1] /\ seqs[1] \in V
    <3> HIDE DEF n, V
    <3>1. g[1] = g[1-1] \o seqs[1]
      BY <1>5, <2>9
    <3> QED
      BY <1>1, <2>9, <3>1
  <2>1. Clouds!FlattenSeq(seqs) = f[n]
    BY <1>7 DEF Clouds!FlattenSeq
  <2> DEFINE h == [i \in 1 .. n |-> g[i]]
  <2>2. h = Of(h)
    <3>1. g[1] = seqs[1]
      <4>1. g[1] = g[0] \o seqs[1] /\ seqs[1] \in V
        BY <2>10
      <4> QED
        BY <1>4, <4>1, ConcatEmptySeq
    <3>2. \A i \in 1 .. n : i # 1 => i - 1 \in 1 .. n /\ h[i-1] = g[i-1]
      BY <1>1
    <3> HIDE DEF n
    <3> QED
      BY <1>1, <1>5, <3>1, <3>2
  <2>3. f = Of(f)
    <3> HIDE DEF Of, h
    <3> QED
      BY <2>2
  <2> HIDE DEF f
  <2>4. f[1] = seqs[1] /\ \A i \in 1 .. n : i # 1 => f[i] = f[i-1] \o seqs[i]
    <3> HIDE DEF n
    <3> QED
      BY <2>3, <2>9
  <2> DEFINE z == [i \in 0 .. n |-> IF i = 0 THEN <<>> ELSE f[i]]
  <2>5. Alike(z, g, n)
    <3>1. z[0] = g[0]
      BY <1>1, <1>4
    <3>2. ASSUME NEW i \in 1 .. n, z[i-1] = g[i-1] PROVE z[i] = g[i]
      <4>1. CASE i = 1
        <5>1. g[1] = g[0] \o seqs[1] /\ seqs[1] \in V
          BY <2>10
        <5>2. g[1] = seqs[1]
          BY <1>4, <5>1, ConcatEmptySeq
        <5>3. z[1] = f[1]
          BY <1>1, <1>7
        <5> QED
          BY <2>4, <4>1, <5>2, <5>3
      <4>2. CASE i # 1
        <5>1. i - 1 \in 1 .. n /\ z[i] = f[i] /\ z[i-1] = f[i-1]
          BY <1>1, <4>2
        <5> HIDE DEF z
        <5> QED
          BY <1>5, <2>4, <3>2, <4>2, <5>1
      <4> QED
        BY <4>1, <4>2
    <3> QED
      BY <3>1, <3>2 DEF Alike
  <2>6. z[n] = g[n]
    <3> HIDE DEF z, n
    <3> QED
      BY <1>1, <2>5, Agree
  <2>7. z[n] = f[n]
    BY <1>1, <1>7
  <2>8. FlatsBy(g, seqs, S)
    BY <1>4, <1>5, <2>1, <2>6, <2>7 DEF FlatsBy
  <2> QED
    BY <2>8
<1> QED
  BY <1>6, <1>7

(* One more sequence.                                                      *)
LEMMA FlatGrows ==
  ASSUME NEW S, NEW seqs \in Seq(Seq(S)), NEW s \in Seq(S)
  PROVE  /\ Clouds!FlattenSeq(seqs) \in Seq(S)
         /\ Clouds!FlattenSeq(Append(seqs, s)) = Clouds!FlattenSeq(seqs) \o s
<1> DEFINE n == Len(seqs)
           more == Append(seqs, s)
<1>1. n \in Nat /\ more \in Seq(Seq(S)) /\ Len(more) = n + 1 /\ more[n + 1] = s
      /\ \A i \in 1 .. n : more[i] = seqs[i]
  BY LenProperties, AppendProperties
<1> HIDE DEF more
<1>2. PICK f : FlatsBy(f, seqs, S)
  BY FlattensBy
<1>3. PICK g : FlatsBy(g, more, S)
  BY <1>1, FlattensBy
<1>4. /\ f \in [0 .. n -> Seq(S)] /\ f[0] = <<>>
      /\ \A i \in 1 .. n : f[i] = f[i-1] \o seqs[i]
      /\ Clouds!FlattenSeq(seqs) = f[n]
  BY <1>2 DEF FlatsBy
<1>5. /\ g[0] = <<>>
      /\ \A i \in 1 .. n + 1 : g[i] = g[i-1] \o more[i]
      /\ Clouds!FlattenSeq(more) = g[n + 1]
  BY <1>1, <1>3 DEF FlatsBy
<1> HIDE DEF n
<1>6. Alike(f, g, n)
  <2>1. \A i \in 1 .. n : g[i] = g[i-1] \o seqs[i]
    <3>1. \A i \in 1 .. n : i \in 1 .. n + 1
      BY <1>1
    <3> QED
      BY <1>1, <1>5, <3>1
  <2> QED
    BY <1>4, <1>5, <2>1 DEF Alike
<1>7. f[n] = g[n]
  BY <1>1, <1>6, Agree
<1>8. g[n + 1] = g[n] \o s
  <2>1. n + 1 \in 1 .. n + 1 /\ (n + 1) - 1 = n
    BY <1>1
  <2> QED
    BY <1>1, <1>5, <2>1
<1> QED
  BY <1>1, <1>4, <1>5, <1>7, <1>8 DEF more

-----------------------------------------------------------------------------
(* TcpStream.  Its packets, and the stream of them.                        *)
TcpPackets == {Tcp!PacketOf(m) : m \in 1 .. Packets}

(* The packets in all are whole, in order, and end before unit base.       *)
InStream(all, base) ==
  /\ all \in Seq(TcpPackets)
  /\ \A i \in 1 .. Len(all) : \E m \in 1 .. Packets :
       all[i] = Tcp!PacketOf(m) /\ m * PacketLen <= base
  /\ \A i, j \in 1 .. Len(all) : i < j => all[i][1].m < all[j][1].m

(* All of them, one after the other, from the first. *)
Consecutive(all) == all = [m \in DOMAIN all |-> Tcp!PacketOf(m)]

(* Where the unit after those in the kernel's hands lies. *)
TcpBase == sent - Len(socket)
TcpAll == got \o ring \o held

(* What the kernel holds are the last units sent; and until a recv ends     *)
(* inside a packet, nothing is left of one, and the rest is in the stream.  *)
SocketInv ==
  /\ sent \in Nat /\ socket \in Seq([m : Nat, k : Nat]) /\ Len(socket) <= sent
  /\ socket # <<>> => sent <= Packets * PacketLen
  /\ \A i \in 1 .. Len(socket) : socket[i] = Tcp!UnitAt(TcpBase + i)
  /\ conn \in {"none", "open", "finished", "broken"}
CutInv ==
  /\ data = <<>>
  /\ conn \in {"open", "finished"} => \E q \in Nat : TcpBase = q * PacketLen
  /\ got \in Seq(TcpPackets) /\ ring \in Seq(TcpPackets) /\ held \in Seq(TcpPackets)
  /\ InStream(TcpAll, TcpBase)
  /\ resets \in Nat
  /\ resets = 0 => /\ conn \in {"none", "open"}
                   /\ conn = "none" => sent = 0
                   /\ Consecutive(TcpAll) /\ Len(TcpAll) * PacketLen = TcpBase
TcpInv ==
  /\ SocketInv /\ cut \in BOOLEAN
  /\ recvThread \in {"none", "recv", "push", "exited"}
  /\ recvThread = "none" => ~running /\ conn = "none"
  /\ recvThread = "push" <=> held # <<>>
  /\ data \in Seq([m : Nat, k : Nat]) /\ held \in Seq(Seq([m : Nat, k : Nat]))
  /\ ~cut => CutInv

(* A unit of the stream, by its packet and its place in it. *)
LEMMA UnitOfPacket ==
  ASSUME NEW q \in Nat, NEW j \in 1 .. PacketLen
  PROVE  Tcp!UnitAt(q * PacketLen + j) = [m |-> q + 1, k |-> j]
<1>1. PacketLen \in Nat \ {0}
  BY TcpParameters DEF Tcp!TcpAssumption
<1> DEFINE a == q * PacketLen + j - 1
<1>2. a \in Nat /\ q * PacketLen \in Nat
  BY <1>1
<1>3. /\ a \div PacketLen \in Int /\ a % PacketLen \in 0 .. PacketLen - 1
      /\ a = PacketLen * (a \div PacketLen) + (a % PacketLen)
  BY <1>1, <1>2
<1> DEFINE r == a \div PacketLen
           t == a % PacketLen
<1>4. PacketLen * (r - q) = j - 1 - t
  <2>1. PacketLen * (r - q) = PacketLen * r - q * PacketLen
    BY <1>1, <1>3
  <2>2. PacketLen * r \in Int
    BY <1>1, <1>3
  <2>3. a = PacketLen * r + t
    BY <1>3
  <2>4. t \in Int
    BY <1>1, <1>3
  <2> HIDE DEF r, t
  <2> QED
    BY <1>1, <1>2, <2>1, <2>2, <2>3, <2>4
<1>5. r \in Int /\ t \in 0 .. PacketLen - 1
  BY <1>3
<1> HIDE DEF a, r, t
<1> DEFINE d == r - q
<1>6. d = 0
  <2>1. d \in Int /\ PacketLen * d = j - 1 - t
    BY <1>4, <1>5
  <2> HIDE DEF d
  <2>2. d >= 1 => PacketLen * d >= PacketLen
    BY <1>1, <2>1
  <2>3. d <= -1 => PacketLen * d <= -PacketLen
    BY <1>1, <2>1
  <2>4. PacketLen * d < PacketLen /\ PacketLen * d > -PacketLen
    BY <1>1, <1>5, <2>1
  <2> QED
    BY <1>1, <2>1, <2>2, <2>3, <2>4
<1>7. r = q /\ t = j - 1
  <2>1. r = q
    BY <1>5, <1>6
  <2>2. PacketLen * (r - q) = 0
    BY <1>1, <2>1
  <2> QED
    BY <1>4, <1>5, <2>1, <2>2
<1> QED
  BY <1>1, <1>7 DEF a, r, t, Tcp!UnitAt

(* A prefix of a packet sequence ends inside a packet unless it is packets. *)
LEMMA EndOfPacket ==
  ASSUME NEW q \in Nat, NEW n \in Nat \ {0}, Tcp!UnitAt(q * PacketLen + n).k = PacketLen
  PROVE  n = (n \div PacketLen) * PacketLen /\ n \div PacketLen \in Nat \ {0}
<1>1. PacketLen \in Nat \ {0}
  BY TcpParameters DEF Tcp!TcpAssumption
<1> DEFINE r == (n - 1) \div PacketLen
           t == (n - 1) % PacketLen
           j == t + 1
<1>2. r \in Nat /\ t \in 0 .. PacketLen - 1 /\ n - 1 = PacketLen * r + t
  BY <1>1
<1> HIDE DEF r, t
<1>3. q + r \in Nat /\ j \in 1 .. PacketLen /\ q * PacketLen + n = (q + r) * PacketLen + j
  <2>1. q * PacketLen \in Nat /\ r * PacketLen \in Nat /\ (q + r) * PacketLen = q * PacketLen + r * PacketLen
    BY <1>1, <1>2
  <2>2. PacketLen * r = r * PacketLen
    BY <1>1, <1>2
  <2> QED
    BY <1>1, <1>2, <2>1, <2>2
<1>4. Tcp!UnitAt(q * PacketLen + n).k = j
  <2> HIDE DEF j
  <2>1. Tcp!UnitAt((q + r) * PacketLen + j) = [m |-> q + r + 1, k |-> j]
    BY <1>3, UnitOfPacket
  <2> QED
    BY <1>3, <2>1
<1>5. n = (r + 1) * PacketLen
  BY <1>1, <1>2, <1>4
<1>6. n \div PacketLen = r + 1
  <2>1. \A v \in Nat : (v * PacketLen) \div PacketLen = v
    BY <1>1
  <2> QED
    BY <1>2, <1>5, <2>1
<1> QED
  BY <1>2, <1>5, <1>6

(* Packets behind those of the stream.                                     *)
Following(q, w) == [p \in 1 .. w |-> Tcp!PacketOf(q + p)]
GoesOn(all, q, w, new) ==
  /\ new \in Seq(TcpPackets) /\ Len(new) = w
  /\ InStream(all \o new, (q + w) * PacketLen)
  /\ Consecutive(all) /\ Len(all) * PacketLen = q * PacketLen
     => Consecutive(all \o new) /\ Len(all \o new) * PacketLen = (q + w) * PacketLen

LEMMA StreamGoesOn ==
  ASSUME NEW all, NEW q \in Nat, NEW w \in Nat, q + w <= Packets, InStream(all, q * PacketLen)
  PROVE  GoesOn(all, q, w, Following(q, w))
<1> DEFINE new == Following(q, w)
<1>0. new = [p \in 1 .. w |-> Tcp!PacketOf(q + p)]
  BY DEF Following
<1> HIDE DEF new
<1>1. PacketLen \in Nat \ {0} /\ Packets \in Nat
  BY TcpParameters DEF Tcp!TcpAssumption
<1>2. \A p \in 1 .. w : q + p \in 1 .. Packets
  BY <1>1
<1>3. new \in Seq(TcpPackets) /\ Len(new) = w
  <2>1. \A p \in 1 .. w : Tcp!PacketOf(q + p) \in TcpPackets
    BY <1>2 DEF TcpPackets
  <2>2. new \in [1 .. w -> TcpPackets]
    BY <1>0, <2>1
  <2> QED
    BY <2>2
<1> DEFINE n == Len(all)
           both == all \o new
<1>4. all \in Seq(TcpPackets) /\ n \in Nat
  BY LenProperties DEF InStream
<1>5. /\ both \in Seq(TcpPackets) /\ Len(both) = n + w
      /\ \A i \in 1 .. n + w : both[i] = IF i <= n THEN all[i] ELSE new[i - n]
  BY <1>3, <1>4, ConcatProperties
<1>6. \A i \in 1 .. n : \E m \in 1 .. Packets : all[i] = Tcp!PacketOf(m) /\ m * PacketLen <= q * PacketLen
  BY DEF InStream
<1>7. \A i, j \in 1 .. n : i < j => all[i][1].m < all[j][1].m
  BY DEF InStream
<1> HIDE DEF n, both
<1>8. \A m \in Nat : Tcp!PacketOf(m)[1].m = m
  BY <1>1 DEF Tcp!PacketOf
<1>9. \A i \in 1 .. n : both[i] = all[i]
  <2> SUFFICES ASSUME NEW i \in 1 .. n PROVE both[i] = all[i]
    OBVIOUS
  <2>1. i \in 1 .. n + w /\ i <= n
    BY <1>4
  <2> QED
    BY <1>5, <2>1
<1>10. \A p \in 1 .. w : n + p \in 1 .. n + w /\ both[n + p] = Tcp!PacketOf(q + p)
  <2> SUFFICES ASSUME NEW p \in 1 .. w PROVE n + p \in 1 .. n + w /\ both[n + p] = Tcp!PacketOf(q + p)
    OBVIOUS
  <2>1. n + p \in 1 .. n + w /\ ~(n + p <= n) /\ (n + p) - n = p
    BY <1>4
  <2>2. both[n + p] = new[(n + p) - n]
    BY <1>5, <2>1
  <2> QED
    BY <1>0, <2>1, <2>2
<1>11. \A i \in 1 .. n + w : i \in 1 .. n \/ \E p \in 1 .. w : i = n + p
  <2> SUFFICES ASSUME NEW i \in 1 .. n + w, i \notin 1 .. n PROVE \E p \in 1 .. w : i = n + p
    OBVIOUS
  <2>1. i - n \in 1 .. w /\ i = n + (i - n)
    BY <1>4
  <2> QED
    BY <2>1
<1>12. \A i \in 1 .. n : \E m \in 1 .. Packets : all[i] = Tcp!PacketOf(m) /\ m <= q
  <2> SUFFICES ASSUME NEW i \in 1 .. n PROVE \E m \in 1 .. Packets : all[i] = Tcp!PacketOf(m) /\ m <= q
    OBVIOUS
  <2>1. PICK m \in 1 .. Packets : all[i] = Tcp!PacketOf(m) /\ m * PacketLen <= q * PacketLen
    BY <1>6
  <2>2. m <= q
    <3>1. m > q => (m - q) * PacketLen > 0 /\ (m - q) * PacketLen = m * PacketLen - q * PacketLen
      BY <1>1
    <3>2. m * PacketLen \in Int /\ q * PacketLen \in Int
      BY <1>1
    <3> QED
      BY <1>1, <2>1, <3>1, <3>2
  <2> QED
    BY <2>1, <2>2
<1>13. \A v \in 0 .. q + w : v * PacketLen <= (q + w) * PacketLen
  <2> SUFFICES ASSUME NEW v \in 0 .. q + w PROVE v * PacketLen <= (q + w) * PacketLen
    OBVIOUS
  <2>1. (q + w - v) * PacketLen >= 0 /\ (q + w - v) * PacketLen = (q + w) * PacketLen - v * PacketLen
    BY <1>1
  <2>2. (q + w) * PacketLen \in Int /\ v * PacketLen \in Int
    BY <1>1
  <2> QED
    BY <2>1, <2>2
<1>14. \A i \in 1 .. n + w : \E m \in 1 .. Packets :
         both[i] = Tcp!PacketOf(m) /\ m * PacketLen <= (q + w) * PacketLen
  <2> SUFFICES ASSUME NEW i \in 1 .. n + w
               PROVE  \E m \in 1 .. Packets : both[i] = Tcp!PacketOf(m) /\ m \in 0 .. q + w
    BY <1>13
  <2>1. CASE i \in 1 .. n
    BY <1>9, <1>12, <2>1
  <2>2. ASSUME NEW p \in 1 .. w, i = n + p
       PROVE  \E m \in 1 .. Packets : both[i] = Tcp!PacketOf(m) /\ m \in 0 .. q + w
    BY <1>2, <1>10, <2>2
  <2> QED
    BY <1>11, <2>1, <2>2
<1>15. \A i, j \in 1 .. n + w : i < j => both[i][1].m < both[j][1].m
  <2> SUFFICES ASSUME NEW i \in 1 .. n + w, NEW j \in 1 .. n + w, i < j
               PROVE  both[i][1].m < both[j][1].m
    OBVIOUS
  <2>1. CASE i \in 1 .. n /\ j \in 1 .. n
    BY <1>7, <1>9, <2>1
  <2>2. CASE i \in 1 .. n /\ j \notin 1 .. n
    <3>1. PICK m \in 1 .. Packets : both[i] = Tcp!PacketOf(m) /\ m <= q
      BY <1>9, <1>12, <2>2
    <3>2. PICK p \in 1 .. w : j = n + p
      BY <1>11, <2>2
    <3>3. both[i][1].m = m /\ both[j][1].m = q + p
      BY <1>2, <1>8, <1>10, <3>1, <3>2
    <3> QED
      BY <3>1, <3>2, <3>3
  <2>3. CASE i \notin 1 .. n
    <3>1. j \notin 1 .. n
      BY <1>4, <2>3
    <3>2. PICK o \in 1 .. w : i = n + o
      BY <1>11, <2>3
    <3>3. PICK p \in 1 .. w : j = n + p
      BY <1>11, <3>1
    <3>5. \A v \in 1 .. w : both[n + v][1].m = q + v
      BY <1>2, <1>8, <1>10
    <3>6. both[n + o][1].m = q + o /\ both[n + p][1].m = q + p
      BY <3>5
    <3>7. n + o < n + p
      BY <3>2, <3>3
    <3>8. o < p
      BY <1>4, <3>7
    <3>9. both[i][1].m = q + o /\ both[j][1].m = q + p
      BY <3>2, <3>3, <3>6
    <3> QED
      BY <3>8, <3>9
  <2> QED
    BY <2>1, <2>2, <2>3
<1>16. ASSUME Consecutive(all), n * PacketLen = q * PacketLen
       PROVE  Consecutive(both) /\ (n + w) * PacketLen = (q + w) * PacketLen
  <2>1. n = q
    <3>1. (n - q) * PacketLen = n * PacketLen - q * PacketLen
      BY <1>1, <1>4
    <3>2. (n - q) * PacketLen = 0
      BY <1>1, <1>4, <1>16, <3>1
    <3> QED
      BY <1>1, <1>4, <3>2
  <2>2. DOMAIN all = 1 .. n
    BY <1>4 DEF n
  <2>3. \A i \in 1 .. n : all[i] = Tcp!PacketOf(i)
    BY <1>16, <2>2 DEF Consecutive
  <2>4. \A i \in 1 .. n + w : both[i] = Tcp!PacketOf(i)
    <3> SUFFICES ASSUME NEW i \in 1 .. n + w PROVE both[i] = Tcp!PacketOf(i)
      OBVIOUS
    <3>1. CASE i \in 1 .. n
      BY <1>9, <2>3, <3>1
    <3>2. ASSUME NEW p \in 1 .. w, i = n + p PROVE both[i] = Tcp!PacketOf(i)
      BY <1>10, <2>1, <3>2
    <3> QED
      BY <1>11, <3>1, <3>2
  <2>5. both = [i \in 1 .. n + w |-> both[i]] /\ DOMAIN both = 1 .. n + w
    BY <1>5
  <2> QED
    BY <2>1, <2>4, <2>5 DEF Consecutive
<1>17. InStream(both, (q + w) * PacketLen)
  BY <1>5, <1>14, <1>15 DEF InStream
<1>18. GoesOn(all, q, w, new)
  BY <1>3, <1>5, <1>16, <1>17 DEF n, both, GoesOn
<1> QED
  BY <1>18 DEF new

(* A unit is one. *)
LEMMA UnitTyped ==
  ASSUME NEW i \in Nat \ {0} PROVE Tcp!UnitAt(i) \in [m : Nat, k : Nat]
<1>1. PacketLen \in Nat \ {0} /\ i - 1 \in Nat
  BY TcpParameters DEF Tcp!TcpAssumption
<1>2. (i - 1) \div PacketLen \in Nat /\ (i - 1) % PacketLen \in Nat
  BY <1>1
<1> QED
  BY <1>2 DEF Tcp!UnitAt

(* What ends before a unit ends before a later one. *)
LEMMA StreamFurther ==
  ASSUME NEW all, NEW base \in Nat, NEW later \in Nat, base <= later, InStream(all, base)
  PROVE  InStream(all, later)
<1>1. PacketLen \in Nat
  BY TcpParameters DEF Tcp!TcpAssumption
<1>2. \A m \in 1 .. Packets : m * PacketLen \in Nat
  BY <1>1
<1>3. \A m \in 1 .. Packets : m * PacketLen <= base => m * PacketLen <= later
  BY <1>2
<1>4. \A i \in 1 .. Len(all) : \E m \in 1 .. Packets : all[i] = Tcp!PacketOf(m) /\ m * PacketLen <= later
  BY <1>3 DEF InStream
<1> QED
  BY <1>4 DEF InStream

(* The kernel's end of the connection.                                     *)
LEMMA SocketKept ==
  ASSUME SocketInv, Tcp!Next, ~Tcp!Recv
  PROVE  SocketInv' /\ TcpBase \in Nat /\ TcpBase' \in Nat /\ TcpBase <= TcpBase'
<1>1. /\ sent \in Nat /\ socket \in Seq([m : Nat, k : Nat]) /\ Len(socket) <= sent
      /\ socket # <<>> => sent <= Packets * PacketLen
      /\ \A i \in 1 .. Len(socket) : socket[i] = Tcp!UnitAt(TcpBase + i)
      /\ conn \in {"none", "open", "finished", "broken"}
      /\ Len(socket) \in Nat
  BY LenProperties DEF SocketInv
<1>2. PacketLen \in Nat \ {0} /\ Packets \in Nat /\ Packets * PacketLen \in Nat
  BY TcpParameters DEF Tcp!TcpAssumption
<1>3. TcpBase \in Nat
  BY <1>1 DEF TcpBase
<1>4. ASSUME socket' = <<>>, sent' \in Nat, sent <= sent', conn' \in {"none", "open", "finished", "broken"}
      PROVE  SocketInv' /\ TcpBase' \in Nat /\ TcpBase <= TcpBase'
  <2>1. Len(socket') = 0 /\ socket' \in Seq([m : Nat, k : Nat])
    BY <1>4
  <2>2. TcpBase' = sent'
    <3> DEFINE a == sent'
               b == Len(socket')
               c == TcpBase'
    <3>1. a \in Nat /\ b = 0
      BY <1>4, <2>1
    <3>2. c = a - b
      BY DEF TcpBase
    <3> HIDE DEF a, b, c
    <3>3. c = a
      BY <3>1, <3>2
    <3> QED
      BY <3>3 DEF a, c
  <2>3. TcpBase <= sent
    BY <1>1 DEF TcpBase
  <2>4. SocketInv'
    BY <1>4, <2>1 DEF SocketInv
  <2> QED
    BY <1>1, <1>3, <1>4, <2>2, <2>3, <2>4
<1>5. ASSUME UNCHANGED <<sent, socket>>, conn' \in {"none", "open", "finished", "broken"}
      PROVE  SocketInv' /\ TcpBase' \in Nat /\ TcpBase <= TcpBase'
  BY <1>1, <1>3, <1>5 DEF SocketInv, TcpBase
<1>6. CASE Tcp!Transmit
  <2>1. /\ conn' = conn /\ sent < Len(Tcp!Sent) /\ sent' = sent + 1
        /\ socket' = Append(socket, Tcp!Sent[sent + 1])
    BY <1>6 DEF Tcp!Transmit
  <2>2. Tcp!Sent \in Seq([m : Nat, k : Nat]) /\ Len(Tcp!Sent) = Packets * PacketLen
    <3>1. \A i \in 1 .. Packets * PacketLen : Tcp!UnitAt(i) \in [m : Nat, k : Nat]
      BY <1>2, UnitTyped
    <3> QED
      BY <1>2, <3>1 DEF Tcp!Sent
  <2>3. sent + 1 \in 1 .. Packets * PacketLen
    BY <1>1, <1>2, <2>1, <2>2
  <2>4. Tcp!Sent[sent + 1] = Tcp!UnitAt(sent + 1) /\ Tcp!UnitAt(sent + 1) \in [m : Nat, k : Nat]
    BY <1>1, <2>3, UnitTyped DEF Tcp!Sent
  <2> DEFINE n == Len(socket)
             u == Tcp!UnitAt(sent + 1)
  <2>5. socket' = Append(socket, u) /\ u \in [m : Nat, k : Nat]
    BY <2>1, <2>4
  <2> HIDE DEF u
  <2>6. /\ socket' \in Seq([m : Nat, k : Nat]) /\ Len(socket') = n + 1
        /\ \A i \in 1 .. n : socket'[i] = socket[i]
        /\ socket'[n + 1] = u
    BY <1>1, <2>5, AppendProperties
  <2>7. TcpBase' = TcpBase
    BY <1>1, <2>1, <2>6 DEF TcpBase
  <2>8. TcpBase + (n + 1) = sent + 1
    BY <1>1 DEF TcpBase
  <2>9. \A i \in 1 .. n + 1 : socket'[i] = Tcp!UnitAt(TcpBase' + i)
    <3> SUFFICES ASSUME NEW i \in 1 .. n + 1 PROVE socket'[i] = Tcp!UnitAt(TcpBase + i)
      BY <2>7
    <3>1. CASE i \in 1 .. n
      BY <1>1, <2>6, <3>1
    <3>2. CASE i = n + 1
      BY <2>6, <2>8, <3>2 DEF u
    <3> QED
      BY <1>1, <3>1, <3>2
  <2>10. sent' \in Nat /\ Len(socket') <= sent' /\ sent' <= Packets * PacketLen
    BY <1>1, <2>1, <2>3, <2>6
  <2>11. SocketInv'
    BY <1>1, <2>1, <2>6, <2>9, <2>10 DEF SocketInv
  <2> QED
    BY <1>3, <2>7, <2>11
<1>7. ASSUME NEW how \in {"finished", "broken"}, Tcp!Disconnect(how) PROVE SocketInv' /\ TcpBase' \in Nat /\ TcpBase <= TcpBase'
  <2>1. /\ sent' = sent /\ conn' = how
        /\ socket' = <<>> \/ socket' = socket
    BY <1>7 DEF Tcp!Disconnect
  <2> QED
    BY <1>1, <1>4, <1>5, <2>1
<1>8. CASE Tcp!Open
  <2>1. sent' = Tcp!NextPacket /\ socket' = <<>> /\ conn' = "open"
    BY <1>8 DEF Tcp!Open
  <2>2. Tcp!NextPacket \in Nat /\ sent <= Tcp!NextPacket
    <3> DEFINE r == (sent + PacketLen - 1) \div PacketLen
               t == (sent + PacketLen - 1) % PacketLen
    <3>1. r \in Nat /\ t \in 0 .. PacketLen - 1 /\ sent + PacketLen - 1 = PacketLen * r + t
      BY <1>1, <1>2
    <3>2. Tcp!NextPacket = r * PacketLen
      BY DEF Tcp!NextPacket
    <3> HIDE DEF r, t
    <3>3. PacketLen * r = r * PacketLen /\ r * PacketLen \in Nat
      BY <1>2, <3>1
    <3> QED
      BY <1>1, <1>2, <3>1, <3>2, <3>3
  <2> QED
    BY <1>3, <1>4, <2>1, <2>2
<1>9. CASE Tcp!Destroy \/ Tcp!Receive \/ Tcp!Exit \/ Tcp!RecvFails \/ Tcp!Push
  <2>1. UNCHANGED <<sent, socket>> /\ conn' \in {conn, "none"}
    BY <1>9 DEF Tcp!Destroy, Tcp!Receive, Tcp!Exit, Tcp!RecvFails, Tcp!Push
  <2> QED
    BY <1>1, <1>3, <1>5, <2>1
<1> QED
  BY <1>3, <1>6, <1>7, <1>8, <1>9 DEF Tcp!Next


(* What the first of a queue is when it goes to the end of another.        *)
Passed(a, b) == Append(a, Head(b)) \o Tail(b) = a \o b

LEMMA QueuePassed ==
  ASSUME NEW S, NEW a \in Seq(S), NEW b \in Seq(S), b # <<>>
  PROVE  /\ Passed(a, b)
         /\ Append(a, Head(b)) \in Seq(S) /\ Tail(b) \in Seq(S)
         /\ Len(Tail(b)) = Len(b) - 1
<1>1. Head(b) \in S /\ Tail(b) \in Seq(S) /\ Len(Tail(b)) = Len(b) - 1 /\ b[1] = Head(b)
      /\ \A i \in 1 .. Len(Tail(b)) : Tail(b)[i] = b[i+1]
  BY HeadTailProperties
<1>2. Len(a) \in Nat /\ Len(b) \in Nat \ {0}
  BY LenProperties, EmptySeq
<1> DEFINE c == Append(a, Head(b))
           t == Tail(b)
           u == c \o t
           v == a \o b
<1>3. c \in Seq(S) /\ Len(c) = Len(a) + 1 /\ c[Len(a) + 1] = b[1]
      /\ \A i \in 1 .. Len(a) : c[i] = a[i]
  BY <1>1, AppendProperties
<1>4. t \in Seq(S) /\ Len(t) = Len(b) - 1 /\ \A i \in 1 .. Len(b) - 1 : t[i] = b[i+1]
  BY <1>1
<1> HIDE DEF c, t
<1>5. u \in Seq(S) /\ Len(u) = Len(c) + Len(t)
      /\ \A i \in 1 .. Len(c) + Len(t) : u[i] = IF i <= Len(c) THEN c[i] ELSE t[i - Len(c)]
  BY <1>3, <1>4, ConcatProperties
<1>6. v \in Seq(S) /\ Len(v) = Len(a) + Len(b)
      /\ \A i \in 1 .. Len(a) + Len(b) : v[i] = IF i <= Len(a) THEN a[i] ELSE b[i - Len(a)]
  BY ConcatProperties
<1> HIDE DEF u, v
<1>7. Len(u) = Len(v)
  BY <1>2, <1>3, <1>4, <1>5, <1>6
<1>8. \A i \in 1 .. Len(u) : u[i] = v[i]
  <2> SUFFICES ASSUME NEW i \in 1 .. Len(u) PROVE u[i] = v[i]
    OBVIOUS
  <2>1. Len(u) = Len(a) + Len(b) /\ Len(c) + Len(t) = Len(a) + Len(b)
    BY <1>2, <1>3, <1>4, <1>5
  <2>2. CASE i <= Len(a)
    <3>1. i \in 1 .. Len(a) /\ i <= Len(c)
      BY <1>2, <1>3, <2>1, <2>2
    <3>2. u[i] = c[i] /\ v[i] = a[i]
      BY <1>2, <1>5, <1>6, <2>1, <3>1
    <3> QED
      BY <1>3, <3>1, <3>2
  <2>3. CASE i = Len(a) + 1
    BY <1>2, <1>3, <1>5, <1>6, <2>1, <2>3
  <2>4. CASE i > Len(a) + 1
    <3>1. i - Len(c) \in 1 .. Len(b) - 1 /\ i - Len(c) + 1 = i - Len(a)
      BY <1>2, <1>3, <2>1, <2>4
    <3>2. u[i] = t[i - Len(c)] /\ v[i] = b[i - Len(a)]
      BY <1>2, <1>3, <1>5, <1>6, <2>1, <2>4
    <3> QED
      BY <1>4, <3>1, <3>2
  <2> QED
    BY <1>2, <2>1, <2>2, <2>3, <2>4
<1>9. u = v
  BY <1>5, <1>6, <1>7, <1>8, SeqEqual
<1> QED
  BY <1>3, <1>4, <1>9 DEF Passed, u, v, c, t


LEMMA SameEnd ==
  ASSUME NEW S, NEW a \in Seq(S) PROVE a \o <<>> = a
  BY ConcatEmptySeq

(* A sequence without its first n.                                         *)
BehindFirst(S, s, n, t) ==
  t \in Seq(S) /\ Len(t) = Len(s) - n /\ \A i \in 1 .. Len(s) - n : t[i] = s[n + i]

LEMMA WithoutFirst ==
  ASSUME NEW S, NEW s \in Seq(S), NEW n \in 0 .. Len(s)
  PROVE  BehindFirst(S, s, n, SubSeq(s, n + 1, Len(s)))
<1>1. Len(s) \in Nat /\ \A i \in 1 .. Len(s) : s[i] \in S
  BY LenProperties, ElementOfSeq
<1> DEFINE l == Len(s)
           m == n + 1
<1>2. m \in Int /\ l \in Int /\ l - m + 1 = l - n /\ (IF m <= l THEN l - m + 1 ELSE 0) = l - n
  BY <1>1
<1>3. \A i \in m .. l : s[i] \in S
  BY <1>1
<1>4. \A i \in 1 .. l - n : m + i - 1 = n + i
  BY <1>1
<1> DEFINE t == SubSeq(s, m, l)
<1>5. t = SubSeq(s, n + 1, Len(s))
  OBVIOUS
<1> HIDE DEF l, m
<1>6. /\ t \in Seq(S) /\ Len(t) = IF m <= l THEN l - m + 1 ELSE 0
      /\ \A i \in 1 .. l - m + 1 : t[i] = s[m + i - 1]
  BY <1>2, <1>3, SubSeqProperties
<1> HIDE DEF t
<1>7. /\ t \in Seq(S) /\ Len(t) = l - n
      /\ \A i \in 1 .. l - n : t[i] = s[m + i - 1]
  BY <1>2, <1>6
<1>8. BehindFirst(S, s, n, t)
  BY <1>4, <1>7 DEF l, BehindFirst
<1> QED
  BY <1>5, <1>8

(* Reading from the connection: what is read is cut off where a packet is  *)
(* whole, and the rest of the invariant does not depend on where.          *)
LEMMA RecvTyped ==
  ASSUME TcpInv, Tcp!Recv
  PROVE  /\ SocketInv' /\ TcpBase' \in Nat
         /\ data' \in Seq([m : Nat, k : Nat]) /\ held' \in Seq(Seq([m : Nat, k : Nat]))
         /\ cut' \in BOOLEAN
         /\ recvThread' \in {"recv", "push"} /\ (recvThread' = "push" <=> held' # <<>>)
<1> DEFINE Unit == [m : Nat, k : Nat]
<1>1. PICK n \in 1 .. Len(socket) :
        LET d == Tcp!Received(n)
            taken == Tcp!Whole(d) * PacketLen
        IN /\ held' = [p \in 1 .. Tcp!Whole(d) |->
                         SubSeq(d, (p - 1) * PacketLen + 1, p * PacketLen)]
           /\ data' = SubSeq(d, taken + 1, Len(d))
           /\ recvThread' = IF Tcp!Whole(d) > 0 THEN "push" ELSE "recv"
           /\ cut' = (cut \/ socket[n].k # PacketLen)
           /\ socket' = SubSeq(socket, n + 1, Len(socket))
  BY DEF Tcp!Recv
<1>2. UNCHANGED <<sent, conn>>
  BY DEF Tcp!Recv
<1>3. /\ sent \in Nat /\ socket \in Seq(Unit) /\ Len(socket) <= sent
      /\ socket # <<>> => sent <= Packets * PacketLen
      /\ \A i \in 1 .. Len(socket) : socket[i] = Tcp!UnitAt(TcpBase + i)
      /\ conn \in {"none", "open", "finished", "broken"}
      /\ Len(socket) \in Nat /\ cut \in BOOLEAN
      /\ data \in Seq(Unit) /\ Len(data) \in Nat
  BY LenProperties DEF TcpInv, SocketInv
<1>4. PacketLen \in Nat \ {0} /\ Packets \in Nat
  BY TcpParameters DEF Tcp!TcpAssumption
<1>5. n \in Nat \ {0} /\ n <= Len(socket) /\ socket # <<>>
  <2>1. n \in Nat \ {0} /\ n <= Len(socket)
    BY <1>3
  <2> QED
    BY <2>1, <1>3, EmptySeq
<1> DEFINE s == socket'
           rest == Len(socket) - n
<1>6. rest \in Nat /\ s \in Seq(Unit) /\ Len(s) = rest
      /\ \A i \in 1 .. rest : s[i] = socket[n + i]
  <2>1. s = SubSeq(socket, n + 1, Len(socket)) /\ n \in 0 .. Len(socket)
    BY <1>1, <1>3
  <2> HIDE DEF s
  <2>2. s \in Seq(Unit) /\ Len(s) = Len(socket) - n /\ \A i \in 1 .. Len(socket) - n : s[i] = socket[n + i]
    <3>1. BehindFirst(Unit, socket, n, SubSeq(socket, n + 1, Len(socket)))
      BY <1>3, <2>1, WithoutFirst
    <3> QED
      BY <2>1, <3>1 DEF BehindFirst
  <2> QED
    BY <1>3, <1>5, <2>2
<1>7. TcpBase \in Nat /\ TcpBase' = TcpBase + n
  <2>1. TcpBase' = sent' - Len(s)
    BY DEF TcpBase
  <2> HIDE DEF s
  <2>2. TcpBase' = sent - (Len(socket) - n)
    BY <1>2, <1>6, <2>1
  <2>3. TcpBase = sent - Len(socket)
    BY DEF TcpBase
  <2> DEFINE x == TcpBase
             y == TcpBase'
             l == Len(socket)
  <2> HIDE DEF x, y
  <2>4. y = sent - (l - n) /\ x = sent - l
    BY <2>2, <2>3 DEF x, y
  <2> HIDE DEF l
  <2>5. l \in Nat /\ l <= sent
    BY <1>3 DEF l
  <2>6. x \in Nat /\ y = x + n
    BY <1>3, <1>5, <2>4, <2>5
  <2> QED
    BY <2>6 DEF x, y
<1>8. SocketInv'
  <2>1. \A i \in 1 .. Len(s) : s[i] = Tcp!UnitAt(TcpBase' + i)
    <3> SUFFICES ASSUME NEW i \in 1 .. rest PROVE s[i] = Tcp!UnitAt(TcpBase' + i)
      BY <1>6
    <3>1. n + i \in 1 .. Len(socket)
      BY <1>3, <1>5, <1>6
    <3>2. TcpBase + (n + i) = TcpBase' + i
      BY <1>5, <1>6, <1>7
    <3>3. socket[n + i] = Tcp!UnitAt(TcpBase + (n + i))
      BY <1>3, <3>1
    <3> QED
      BY <1>6, <3>2, <3>3
  <2>2. Len(s) <= sent
    BY <1>3, <1>5, <1>6
  <2> QED
    BY <1>2, <1>3, <1>5, <1>6, <2>1, <2>2 DEF SocketInv
<1> DEFINE d == Tcp!Received(n)
           w == Tcp!Whole(d)
           len == Len(d)
<1>9. d \in Seq(Unit) /\ len \in Nat
  <2>1. d = [i \in 1 .. Len(data) + n |->
               IF i <= n THEN socket[i] ELSE IF i <= Len(data) THEN data[i] ELSE Tcp!Stale]
    BY DEF Tcp!Received
  <2>2. Tcp!Stale \in Unit
    BY DEF Tcp!Stale
  <2>3. \A i \in 1 .. Len(data) + n :
          (IF i <= n THEN socket[i] ELSE IF i <= Len(data) THEN data[i] ELSE Tcp!Stale) \in Unit
    <3> SUFFICES ASSUME NEW i \in 1 .. Len(data) + n
                 PROVE  /\ i <= n => socket[i] \in Unit
                        /\ i <= Len(data) => data[i] \in Unit
      BY <2>2
    <3>1. i <= n => i \in 1 .. Len(socket)
      BY <1>3, <1>5
    <3>2. i <= Len(data) => i \in 1 .. Len(data)
      BY <1>3, <1>5
    <3>3. \A j \in 1 .. Len(socket) : socket[j] \in Unit
      BY <1>3, ElementOfSeq
    <3>4. \A j \in 1 .. Len(data) : data[j] \in Unit
      BY <1>3, ElementOfSeq
    <3> QED
      BY <3>1, <3>2, <3>3, <3>4
  <2> HIDE DEF d, Unit
  <2>4. d \in [1 .. Len(data) + n -> Unit] /\ Len(data) + n \in Nat
    BY <1>3, <1>5, <2>1, <2>3
  <2> QED
    BY <2>4
<1> HIDE DEF d
<1>10. w \in Nat /\ w * PacketLen \in Nat /\ w * PacketLen <= len
  <2>1. w = len \div PacketLen
    BY DEF Tcp!Whole
  <2> DEFINE t == len % PacketLen
  <2>2. w \in Nat /\ t \in 0 .. PacketLen - 1 /\ len = PacketLen * w + t
    <3>1. len \in Nat /\ PacketLen \in Nat \ {0}
      BY <1>4, <1>9
    <3> QED
      BY <2>1, <3>1, Divided
  <2> HIDE DEF w, t
  <2>3. PacketLen * w = w * PacketLen /\ w * PacketLen \in Nat
    BY <1>4, <2>2
  <2> QED
    BY <1>4, <1>9, <2>2, <2>3
<1> HIDE DEF w, Unit
<1>11. data' \in Seq(Unit)
  <2>1. data' = SubSeq(d, w * PacketLen + 1, len)
    BY <1>1 DEF d, w
  <2> DEFINE t == w * PacketLen
  <2> HIDE DEF t
  <2>2. t \in Nat /\ t <= len /\ data' = SubSeq(d, t + 1, len)
    BY <1>10, <2>1 DEF t
  <2> QED
    BY <1>9, <2>2
<1>12. held' \in Seq(Seq(Unit)) /\ (held' # <<>> <=> w > 0)
  <2>1. held' = [p \in 1 .. w |-> SubSeq(d, (p - 1) * PacketLen + 1, p * PacketLen)]
    BY <1>1 DEF d, w
  <2>2. \A p \in 1 .. w : SubSeq(d, (p - 1) * PacketLen + 1, p * PacketLen) \in Seq(Unit)
    <3> SUFFICES ASSUME NEW p \in 1 .. w
                 PROVE  SubSeq(d, (p - 1) * PacketLen + 1, p * PacketLen) \in Seq(Unit)
      OBVIOUS
    <3> DEFINE x == (p - 1) * PacketLen
               y == p * PacketLen
    <3>1. x \in Nat /\ y \in Nat /\ x <= y /\ y <= w * PacketLen
      BY <1>4, <1>10
    <3> HIDE DEF x, y
    <3>2. y <= len
      BY <1>9, <1>10, <3>1
    <3>3. SubSeq(d, x + 1, y) \in Seq(Unit)
      BY <1>9, <3>1, <3>2
    <3> QED
      BY <3>3 DEF x, y
  <2>3. held' \in [1 .. w -> Seq(Unit)]
    BY <2>1, <2>2
  <2>4. held' \in Seq(Seq(Unit)) /\ Len(held') = w
    BY <1>10, <2>3
  <2> QED
    BY <1>10, <2>4, EmptySeq
<1>13. recvThread' = IF w > 0 THEN "push" ELSE "recv"
  BY <1>1 DEF d, w
<1>14. cut' \in BOOLEAN
  BY <1>1, <1>3
<1> QED
  BY <1>7, <1>5, <1>8, <1>11, <1>12, <1>13, <1>14 DEF Unit


(* The k-th unit of the p-th packet of a read that begins with one.        *)
Reads(d, q, n) == \A i \in 1 .. n : d[i] = Tcp!UnitAt(q * PacketLen + i)
Piece(d, p) == SubSeq(d, (p - 1) * PacketLen + 1, p * PacketLen)

LEMMA PacketInRead ==
  ASSUME NEW q \in Nat, NEW w \in Nat, NEW d, Reads(d, q, w * PacketLen), NEW p \in 1 .. w
  PROVE  Piece(d, p) = Tcp!PacketOf(q + p)
<1>1. PacketLen \in Nat \ {0}
  BY TcpParameters DEF Tcp!TcpAssumption
<1> DEFINE x == (p - 1) * PacketLen
           y == p * PacketLen
           e == w * PacketLen
<1>2. x \in Nat /\ y = x + PacketLen /\ y <= e /\ e \in Nat
  BY <1>1
<1>3. q * PacketLen + x = (q + p - 1) * PacketLen /\ q + p - 1 \in Nat
  BY <1>1
<1>4. \A i \in 1 .. e : d[i] = Tcp!UnitAt(q * PacketLen + i)
  BY DEF Reads
<1> DEFINE b == q * PacketLen
<1>5. b \in Nat
  BY <1>1
<1>6. \A k \in 1 .. PacketLen : d[x + k] = [m |-> q + p, k |-> k]
  <2> SUFFICES ASSUME NEW k \in 1 .. PacketLen PROVE d[x + k] = [m |-> q + p, k |-> k]
    OBVIOUS
  <2>1. Tcp!UnitAt((q + p - 1) * PacketLen + k) = [m |-> (q + p - 1) + 1, k |-> k]
    BY <1>3, UnitOfPacket
  <2>2. b + x = (q + p - 1) * PacketLen
    BY <1>3
  <2> HIDE DEF x, y, e, b
  <2>3. x + k \in 1 .. e
    BY <1>1, <1>2
  <2>4. d[x + k] = Tcp!UnitAt(b + (x + k))
    BY <1>4, <2>3 DEF b
  <2>5. b + (x + k) = (b + x) + k
    BY <1>1, <1>2, <1>5
  <2>6. (q + p - 1) + 1 = q + p
    OBVIOUS
  <2> QED
    BY <2>1, <2>2, <2>4, <2>5, <2>6
<1> HIDE DEF x, y, e, b
<1> DEFINE S == {d[i] : i \in x + 1 .. y}
           t == SubSeq(d, x + 1, y)
<1>7. t \in Seq(S) /\ Len(t) = PacketLen /\ \A k \in 1 .. PacketLen : t[k] = d[x + k]
  <2>1. x + 1 \in Int /\ y \in Int /\ \A i \in x + 1 .. y : d[i] \in S
    <3>1. x + 1 \in Int /\ y \in Int
      BY <1>1, <1>2
    <3>2. \A i \in x + 1 .. y : d[i] \in S
      BY Zenon
    <3> QED
      BY <3>1, <3>2
  <2>2. /\ y - (x + 1) + 1 = PacketLen /\ x + 1 <= y
        /\ \A k \in 1 .. PacketLen : (x + 1) + k - 1 = x + k
    BY <1>1, <1>2
  <2> DEFINE f == x + 1
  <2> HIDE DEF f, S
  <2>3. f \in Int /\ y \in Int /\ (\A i \in f .. y : d[i] \in S)
    BY <2>1 DEF f
  <2>4. y - f + 1 = PacketLen /\ f <= y /\ \A k \in 1 .. PacketLen : f + k - 1 = x + k
    BY <2>2 DEF f
  <2>5. t = SubSeq(d, f, y)
    BY DEF f
  <2> HIDE DEF t
  <2>6. /\ t \in Seq(S) /\ Len(t) = IF f <= y THEN y - f + 1 ELSE 0
        /\ \A i \in 1 .. y - f + 1 : t[i] = d[f + i - 1]
    BY <2>3, <2>5, SubSeqProperties
  <2> QED
    BY <2>4, <2>6
<1> HIDE DEF S, t
<1>8. t = [k \in 1 .. PacketLen |-> t[k]]
  BY <1>7
<1>9. \A k \in 1 .. PacketLen : t[k] = [m |-> q + p, k |-> k]
  BY <1>6, <1>7
<1>10. t = [k \in 1 .. PacketLen |-> [m |-> q + p, k |-> k]]
  BY <1>8, <1>9
<1> QED
  BY <1>10 DEF t, x, y, Piece, Tcp!PacketOf


(* A recv that ends with a packet hands on packets, and leaves nothing.    *)
LEMMA RecvUncut ==
  ASSUME TcpInv, Tcp!Recv, ~cut'
  PROVE  CutInv'
<1> DEFINE Unit == [m : Nat, k : Nat]
<1>1. PICK n \in 1 .. Len(socket) :
        LET d == Tcp!Received(n)
            taken == Tcp!Whole(d) * PacketLen
        IN /\ held' = [p \in 1 .. Tcp!Whole(d) |->
                         SubSeq(d, (p - 1) * PacketLen + 1, p * PacketLen)]
           /\ data' = SubSeq(d, taken + 1, Len(d))
           /\ cut' = (cut \/ socket[n].k # PacketLen)
           /\ socket' = SubSeq(socket, n + 1, Len(socket))
  BY DEF Tcp!Recv
<1>2. UNCHANGED <<sent, conn, resets, got, ring>> /\ conn \in {"open", "finished"} /\ recvThread = "recv"
  BY DEF Tcp!Recv
<1>3. ~cut /\ socket[n].k = PacketLen
  BY <1>1 DEF TcpInv
<1>4. /\ sent \in Nat /\ socket \in Seq(Unit) /\ Len(socket) <= sent
      /\ socket # <<>> => sent <= Packets * PacketLen
      /\ \A i \in 1 .. Len(socket) : socket[i] = Tcp!UnitAt(TcpBase + i)
      /\ Len(socket) \in Nat
  BY LenProperties DEF TcpInv, SocketInv
<1>5. PacketLen \in Nat \ {0} /\ Packets \in Nat
  BY TcpParameters DEF Tcp!TcpAssumption
<1>6. n \in Nat \ {0} /\ n <= Len(socket) /\ sent <= Packets * PacketLen
  <2>1. n \in Nat \ {0} /\ n <= Len(socket)
    BY <1>4
  <2> QED
    BY <2>1, <1>4, EmptySeq
<1>7. CutInv /\ held = <<>> /\ data = <<>>
  BY <1>2, <1>3 DEF TcpInv, CutInv
<1>8. PICK q \in Nat : TcpBase = q * PacketLen
  BY <1>2, <1>7 DEF CutInv
<1> DEFINE w == n \div PacketLen
<1>9. n = w * PacketLen /\ w \in Nat \ {0}
  <2>1. socket[n] = Tcp!UnitAt(q * PacketLen + n)
    BY <1>4, <1>8
  <2>2. Tcp!UnitAt(q * PacketLen + n).k = PacketLen
    BY <1>3, <2>1
  <2> QED
    BY <1>6, <2>2, EndOfPacket
<1> DEFINE d == Tcp!Received(n)
<1>10. Len(d) = n /\ \A i \in 1 .. n : d[i] = Tcp!UnitAt(q * PacketLen + i)
  <2>1. Len(data) = 0
    BY <1>7
  <2>2. d = [i \in 1 .. 0 + n |->
               IF i <= n THEN socket[i] ELSE IF i <= 0 THEN data[i] ELSE Tcp!Stale]
    BY <2>1 DEF Tcp!Received
  <2> HIDE DEF d
  <2>3. d = [i \in 1 .. n |-> socket[i]]
    BY <1>6, <2>2
  <2>4. Len(d) = n
    BY <1>6, <2>3
  <2>5. \A i \in 1 .. n : d[i] = socket[i] /\ i \in 1 .. Len(socket)
    BY <1>4, <1>6, <2>3
  <2> QED
    BY <1>4, <1>8, <2>4, <2>5
<1>11. Tcp!Whole(d) = w
  BY <1>10 DEF Tcp!Whole
<1> DEFINE new == [p \in 1 .. w |-> Tcp!PacketOf(q + p)]
<1>12. held' = new
  <2>1. held' = [p \in 1 .. w |-> SubSeq(d, (p - 1) * PacketLen + 1, p * PacketLen)]
    BY <1>1, <1>11
  <2> HIDE DEF d, w
  <2>2. \A p \in 1 .. w : SubSeq(d, (p - 1) * PacketLen + 1, p * PacketLen) = Tcp!PacketOf(q + p)
    <3>1. w \in Nat /\ Reads(d, q, w * PacketLen)
      BY <1>9, <1>10 DEF Reads
    <3>2. \A p \in 1 .. w : Piece(d, p) = Tcp!PacketOf(q + p)
      BY <3>1, PacketInRead
    <3> QED
      BY <3>2 DEF Piece
  <2> QED
    BY <2>1, <2>2
<1>13. data' = <<>>
  <2>1. data' = SubSeq(d, n + 1, n)
    BY <1>1, <1>9, <1>10, <1>11
  <2>2. n + 1 \in Int /\ n \in Int /\ n < n + 1
    BY <1>6
  <2> HIDE DEF d
  <2> QED
    BY <2>1, <2>2, SubSeqEmpty
<1> HIDE DEF d, w
<1>14. TcpBase' = (q + w) * PacketLen /\ (q + w) * PacketLen <= Packets * PacketLen
  <2>1. BehindFirst(Unit, socket, n, SubSeq(socket, n + 1, Len(socket)))
    BY <1>4, <1>6, WithoutFirst
  <2>2. Len(socket') = Len(socket) - n
    BY <1>1, <2>1 DEF BehindFirst
  <2>3. TcpBase' = sent' - Len(socket') /\ TcpBase = sent - Len(socket)
    BY DEF TcpBase
  <2> DEFINE x == TcpBase
             y == TcpBase'
             l == Len(socket)
             z == q * PacketLen
             v == w * PacketLen
             u == (q + w) * PacketLen
             e == Packets * PacketLen
  <2>4. u = z + v /\ z \in Nat /\ v \in Nat
    BY <1>5, <1>9
  <2>5. y = sent - (l - n) /\ x = sent - l /\ x = z /\ n = v /\ sent <= e
    BY <1>2, <1>6, <1>8, <1>9, <2>2, <2>3
  <2>6. l \in Nat /\ n <= l /\ e \in Nat
    BY <1>4, <1>5, <1>6
  <2> HIDE DEF x, y, l, z, v, u, e
  <2>7. y = u /\ u <= e
    BY <1>4, <1>6, <2>4, <2>5, <2>6
  <2> QED
    BY <2>7 DEF y, u, e
<1>15. q + w <= Packets
  <2>1. ASSUME q + w > Packets PROVE FALSE
    <3>1. q + w = Packets + (q + w - Packets) /\ q + w - Packets \in Nat \ {0}
      BY <1>5, <1>9, <2>1
    <3> DEFINE c == q + w - Packets
    <3> HIDE DEF c
    <3>2. q + w = Packets + c /\ c \in Nat \ {0}
      BY <3>1 DEF c
    <3>3. (Packets + c) * PacketLen = Packets * PacketLen + c * PacketLen /\ c * PacketLen > 0
          /\ Packets * PacketLen \in Nat /\ c * PacketLen \in Nat
      BY <1>5, <3>2
    <3>4. (q + w) * PacketLen = Packets * PacketLen + c * PacketLen
      BY <3>2, <3>3
    <3> QED
      BY <1>14, <3>3, <3>4
  <2> QED
    BY <1>5, <1>9, <2>1
<1> DEFINE all == got \o ring
<1>16. got \in Seq(TcpPackets) /\ ring \in Seq(TcpPackets) /\ all \in Seq(TcpPackets)
  BY <1>7, ConcatProperties DEF CutInv
<1>17. TcpAll = all /\ TcpAll' = all \o new
  BY <1>2, <1>7, <1>12, <1>16, SameEnd DEF TcpAll
<1> HIDE DEF all, new
<1>18. InStream(all, q * PacketLen)
  BY <1>7, <1>8, <1>17 DEF CutInv
<1>19. /\ new \in Seq(TcpPackets) /\ Len(new) = w
       /\ InStream(all \o new, (q + w) * PacketLen)
       /\ Consecutive(all) /\ Len(all) * PacketLen = q * PacketLen
          => Consecutive(all \o new) /\ Len(all \o new) * PacketLen = (q + w) * PacketLen
  <2>1. GoesOn(all, q, w, Following(q, w))
    BY <1>9, <1>15, <1>18, StreamGoesOn
  <2>2. new = Following(q, w)
    BY DEF new, Following
  <2>3. GoesOn(all, q, w, new)
    BY <2>1, <2>2
  <2> QED
    BY <2>3 DEF GoesOn
<1>20. InStream(TcpAll', TcpBase')
  BY <1>14, <1>17, <1>19
<1>21. resets = 0 => /\ conn \in {"none", "open"} /\ conn # "none"
                     /\ Consecutive(TcpAll') /\ Len(TcpAll') * PacketLen = TcpBase'
  <2>1. resets = 0 => conn \in {"none", "open"} /\ Consecutive(all) /\ Len(all) * PacketLen = q * PacketLen
    BY <1>7, <1>8, <1>17 DEF CutInv
  <2> QED
    BY <1>2, <1>14, <1>17, <1>19, <2>1
<1>22. \E b \in Nat : TcpBase' = b * PacketLen
  <2>1. q + w \in Nat
    BY <1>9
  <2> QED
    BY <1>14, <2>1
<1>23. InStream(TcpAll, TcpBase)'
  BY <1>20 DEF InStream, TcpPackets
<1>24. Consecutive(TcpAll') => Consecutive(TcpAll)'
  BY DEF Consecutive
<1>25. resets \in Nat
  BY <1>7 DEF CutInv
<1>26. got' \in Seq(TcpPackets) /\ ring' \in Seq(TcpPackets) /\ held' \in Seq(TcpPackets)
  BY <1>2, <1>12, <1>16, <1>19
<1> QED
  BY <1>2, <1>13, <1>21, <1>22, <1>23, <1>24, <1>25, <1>26 DEF CutInv, TcpPackets


(* The rest of the steps leave the packets where they are, or one ring on. *)
LEMMA PacketsStay ==
  ASSUME TcpInv, CutInv, Tcp!Next, ~Tcp!Recv
  PROVE  /\ TcpAll' = TcpAll /\ data' = <<>> /\ cut' = cut
         /\ got' \in Seq(TcpPackets) /\ ring' \in Seq(TcpPackets) /\ held' \in Seq(TcpPackets)
<1>1. data = <<>> /\ got \in Seq(TcpPackets) /\ ring \in Seq(TcpPackets) /\ held \in Seq(TcpPackets)
  BY DEF CutInv
<1>2. CASE Tcp!Receive
  <2>1. /\ ring # <<>> /\ got' = Append(got, Head(ring)) /\ ring' = Tail(ring)
        /\ UNCHANGED <<held, data, cut>>
    BY <1>2 DEF Tcp!Receive
  <2>2. /\ Passed(got, ring)
        /\ Append(got, Head(ring)) \in Seq(TcpPackets) /\ Tail(ring) \in Seq(TcpPackets)
    BY <1>1, <2>1, QueuePassed
  <2>3. got' \o ring' = got \o ring
    BY <2>1, <2>2 DEF Passed
  <2>4. TcpAll' = TcpAll
    BY <2>1, <2>3 DEF TcpAll
  <2> QED
    BY <1>1, <2>1, <2>2, <2>4
<1>3. CASE Tcp!Push
  <2>1. /\ held # <<>> /\ ring' = Append(ring, Head(held)) /\ held' = Tail(held)
        /\ UNCHANGED <<got, data, cut>>
    BY <1>3 DEF Tcp!Push, TcpInv
  <2>2. /\ Passed(ring, held)
        /\ Append(ring, Head(held)) \in Seq(TcpPackets) /\ Tail(held) \in Seq(TcpPackets)
    BY <1>1, <2>1, QueuePassed
  <2>3. ring' \o held' = ring \o held
    BY <2>1, <2>2 DEF Passed
  <2>4. ring' \in Seq(TcpPackets) /\ held' \in Seq(TcpPackets)
    BY <2>1, <2>2
  <2>5. TcpAll = got \o (ring \o held)
    BY <1>1, ConcatAssociative DEF TcpAll
  <2>6. TcpAll' = got \o (ring' \o held')
    <3> DEFINE a == got'
               b == ring'
               c == held'
    <3>1. a \in Seq(TcpPackets) /\ b \in Seq(TcpPackets) /\ c \in Seq(TcpPackets) /\ a = got
      BY <1>1, <2>1, <2>4
    <3>2. TcpAll' = (a \o b) \o c
      BY DEF TcpAll
    <3> HIDE DEF a, b, c
    <3>4. (a \o b) \o c = a \o (b \o c)
      BY <3>1, ConcatAssociative
    <3>3. TcpAll' = a \o (b \o c)
      BY <3>2, <3>4
    <3> QED
      BY <3>1, <3>3 DEF b, c
  <2> QED
    BY <1>1, <2>1, <2>3, <2>4, <2>5, <2>6
<1>4. ASSUME UNCHANGED <<got, ring, held, cut>>, data' \in {data, <<>>}
      PROVE  /\ TcpAll' = TcpAll /\ data' = <<>> /\ cut' = cut
             /\ got' \in Seq(TcpPackets) /\ ring' \in Seq(TcpPackets) /\ held' \in Seq(TcpPackets)
  BY <1>1, <1>4 DEF TcpAll
<1>5. CASE Tcp!Transmit \/ Tcp!Destroy \/ Tcp!Exit \/ Tcp!RecvFails
  BY <1>4, <1>5 DEF Tcp!Transmit, Tcp!Destroy, Tcp!Exit, Tcp!RecvFails
<1>6. ASSUME NEW how \in {"finished", "broken"}, Tcp!Disconnect(how)
      PROVE  UNCHANGED <<got, ring, held, cut>> /\ data' \in {data, <<>>}
  BY <1>6 DEF Tcp!Disconnect
<1>7. CASE Tcp!Open
  BY <1>4, <1>7 DEF Tcp!Open
<1> QED
  BY <1>2, <1>3, <1>4, <1>5, <1>6, <1>7 DEF Tcp!Next

LEMMA CutKept ==
  ASSUME TcpInv, Tcp!Next, ~Tcp!Recv, ~cut'
  PROVE  CutInv'
<1>1. cut' = cut
  BY DEF Tcp!Next, Tcp!Transmit, Tcp!Disconnect, Tcp!Open, Tcp!Destroy, Tcp!Receive, Tcp!Exit,
         Tcp!RecvFails, Tcp!Push
<1>2. CutInv /\ SocketInv
  BY <1>1 DEF TcpInv
<1>3. /\ TcpAll' = TcpAll /\ data' = <<>>
      /\ got' \in Seq(TcpPackets) /\ ring' \in Seq(TcpPackets) /\ held' \in Seq(TcpPackets)
  BY <1>2, PacketsStay
<1>4. TcpBase \in Nat /\ TcpBase' \in Nat /\ TcpBase <= TcpBase'
  BY <1>2, SocketKept
<1>5. InStream(TcpAll, TcpBase)'
  <2>1. InStream(TcpAll, TcpBase)
    BY <1>2 DEF CutInv
  <2>2. InStream(TcpAll, TcpBase')
    BY <1>4, <2>1, StreamFurther
  <2> DEFINE a == TcpAll
             b == TcpAll'
             c == TcpBase'
  <2>3. InStream(b, c)
    BY <1>3, <2>2
  <2> QED
    BY <2>3 DEF InStream, TcpPackets
<1>6. /\ conn \in {"open", "finished"} => \E q \in Nat : TcpBase = q * PacketLen
      /\ resets \in Nat
      /\ resets = 0 => /\ conn \in {"none", "open"}
                       /\ conn = "none" => sent = 0
                       /\ Consecutive(TcpAll) /\ Len(TcpAll) * PacketLen = TcpBase
  BY <1>2 DEF CutInv
<1> SUFFICES
      /\ conn' \in {"open", "finished"} => \E q \in Nat : TcpBase' = q * PacketLen
      /\ resets' \in Nat
      /\ resets' = 0 => /\ conn' \in {"none", "open"}
                        /\ conn' = "none" => sent' = 0
                        /\ Consecutive(TcpAll') /\ Len(TcpAll') * PacketLen = TcpBase'
  <2>1. Consecutive(TcpAll') => Consecutive(TcpAll)'
    BY DEF Consecutive
  <2> QED
    BY <1>3, <1>5, <2>1 DEF CutInv, TcpPackets
<1>7. PacketLen \in Nat \ {0} /\ sent \in Nat /\ Len(socket) \in Nat /\ Len(socket) <= sent
  BY <1>2, TcpParameters, LenProperties DEF SocketInv, Tcp!TcpAssumption
<1>8. CASE UNCHANGED <<conn, resets, sent, socket>>
  <2>1. TcpBase' = TcpBase
    BY <1>8 DEF TcpBase
  <2> QED
    BY <1>3, <1>6, <1>8, <2>1
<1>9. CASE Tcp!Transmit
  <2>1. conn = "open" /\ UNCHANGED <<conn, resets>> /\ sent' = sent + 1
        /\ socket' = Append(socket, Tcp!Sent[sent + 1])
    BY <1>9 DEF Tcp!Transmit
  <2>2. Len(socket') = Len(socket) + 1
    <3> DEFINE u == Tcp!Sent[sent + 1]
    <3>1. socket' = Append(socket, u) /\ socket \in Seq([m : Nat, k : Nat])
      BY <1>2, <2>1 DEF SocketInv
    <3> HIDE DEF u
    <3> QED
      BY <3>1
  <2>3. TcpBase' = TcpBase
    BY <1>7, <2>1, <2>2 DEF TcpBase
  <2> QED
    BY <1>3, <1>6, <2>1, <2>3
<1>10. ASSUME NEW how \in {"finished", "broken"}, Tcp!Disconnect(how)
       PROVE  /\ conn' \in {"open", "finished"} => \E q \in Nat : TcpBase' = q * PacketLen
              /\ resets' \in Nat /\ resets' # 0
  <2>1. conn = "open" /\ conn' = how /\ resets' = resets + 1 /\ sent' = sent
        /\ (how = "finished" => socket' = socket)
    BY <1>10 DEF Tcp!Disconnect
  <2>2. how = "finished" => TcpBase' = TcpBase
    BY <2>1 DEF TcpBase
  <2> QED
    BY <1>6, <2>1, <2>2
<1>11. CASE Tcp!Open
  <2>1. conn = "none" /\ conn' = "open" /\ socket' = <<>> /\ sent' = Tcp!NextPacket /\ resets' = resets
    BY <1>11 DEF Tcp!Open
  <2> DEFINE r == (sent + PacketLen - 1) \div PacketLen
  <2>2. r \in Nat
    BY <1>7
  <2>3. TcpBase' = r * PacketLen
    <3> DEFINE a == sent'
               b == Len(socket')
               c == TcpBase'
    <3>1. a = r * PacketLen /\ b = 0
      BY <2>1 DEF Tcp!NextPacket
    <3>2. c = a - b
      BY DEF TcpBase
    <3>3. r * PacketLen \in Nat
      BY <1>7, <2>2
    <3> HIDE DEF a, b, c, r
    <3>4. c = r * PacketLen
      BY <3>1, <3>2, <3>3
    <3> QED
      BY <3>4 DEF c
  <2>4. ASSUME resets = 0 PROVE TcpBase' = TcpBase
    <3>1. sent = 0
      BY <1>6, <2>1, <2>4
    <3>2. r = 0
      <4>1. PacketLen - 1 \in Nat /\ PacketLen - 1 < PacketLen
        BY <1>7
      <4>2. r = (PacketLen - 1) \div PacketLen
        BY <1>7, <3>1
      <4>3. (PacketLen - 1) \div PacketLen = 0
        BY <1>7
      <4> QED
        BY <4>2, <4>3
    <3>3. TcpBase' = 0
      BY <1>7, <2>3, <3>2
    <3>4. TcpBase = 0
      BY <1>7, <3>1 DEF TcpBase
    <3> QED
      BY <3>3, <3>4
  <2> QED
    BY <1>3, <1>6, <2>1, <2>2, <2>3, <2>4
<1>12. CASE Tcp!RecvFails
  <2>1. conn = "broken" /\ conn' = "none" /\ resets' = resets
    BY <1>12 DEF Tcp!RecvFails
  <2> QED
    BY <1>6, <2>1
<1>13. CASE Tcp!Destroy \/ Tcp!Receive \/ Tcp!Exit \/ Tcp!Push
  BY <1>8, <1>13 DEF Tcp!Destroy, Tcp!Receive, Tcp!Exit, Tcp!Push
<1> QED
  BY <1>9, <1>10, <1>11, <1>12, <1>13 DEF Tcp!Next


LEMMA TcpStarts ==
  ASSUME Tcp!Init PROVE TcpInv
<1>1. /\ sent = 0 /\ conn = "none" /\ socket = <<>> /\ resets = 0 /\ running = FALSE
      /\ recvThread = "none" /\ data = <<>> /\ held = <<>> /\ ring = <<>> /\ got = <<>> /\ cut = FALSE
  BY DEF Tcp!Init
<1>2. TcpAll = <<>>
  BY <1>1, ConcatEmptySeq, EmptySeq DEF TcpAll
<1>3. TcpBase = 0 /\ Len(socket) = 0
  <2>1. Len(socket) = 0
    BY <1>1
  <2> DEFINE l == Len(socket)
  <2>2. TcpBase = 0 - l /\ l = 0
    BY <1>1, <2>1 DEF TcpBase
  <2> HIDE DEF l
  <2>3. TcpBase = 0
    BY <2>2
  <2> QED
    BY <2>1, <2>3
<1>4. SocketInv
  BY <1>1, <1>3 DEF SocketInv
<1>5. Len(TcpAll) = 0 /\ TcpAll \in Seq(TcpPackets) /\ DOMAIN TcpAll = {} /\ PacketLen \in Nat
  BY <1>2, TcpParameters DEF Tcp!TcpAssumption
<1>6. InStream(TcpAll, TcpBase)
  BY <1>5 DEF InStream
<1>7. Consecutive(TcpAll)
  <2>1. TcpAll = [m \in 1 .. 0 |-> Tcp!PacketOf(m)]
    BY <1>2
  <2> QED
    BY <1>5, <2>1 DEF Consecutive
<1>8. Len(TcpAll) * PacketLen = TcpBase
  BY <1>3, <1>5
<1>9. CutInv
  BY <1>1, <1>6, <1>7, <1>8 DEF CutInv
<1>10. data \in Seq([m : Nat, k : Nat]) /\ held \in Seq(Seq([m : Nat, k : Nat]))
  BY <1>1, EmptySeq
<1>11. held = <<>>
  BY <1>1
<1> QED
  BY <1>1, <1>4, <1>9, <1>10, <1>11 DEF TcpInv

LEMMA TcpKept ==
  ASSUME TcpInv, Tcp!Next
  PROVE  TcpInv'
<1> DEFINE Unit == [m : Nat, k : Nat]
<1>1. /\ SocketInv /\ cut \in BOOLEAN
      /\ recvThread \in {"none", "recv", "push", "exited"}
      /\ recvThread = "none" => ~running /\ conn = "none"
      /\ recvThread = "push" <=> held # <<>>
      /\ data \in Seq(Unit) /\ held \in Seq(Seq(Unit))
  BY DEF TcpInv
<1> HIDE DEF Unit
<1> SUFFICES /\ SocketInv' /\ cut' \in BOOLEAN
             /\ recvThread' \in {"none", "recv", "push", "exited"}
             /\ recvThread' = "none" => ~running' /\ conn' = "none"
             /\ recvThread' = "push" <=> held' # <<>>
             /\ data' \in Seq(Unit) /\ held' \in Seq(Seq(Unit))
  <2>1. ~cut' => CutInv'
    BY RecvUncut, CutKept
  <2> QED
    BY <2>1 DEF TcpInv, Unit
<1>2. CASE Tcp!Recv
  BY <1>2, RecvTyped DEF Unit
<1>3. ASSUME ~Tcp!Recv PROVE SocketInv'
  BY <1>1, <1>3, SocketKept
<1>4. ASSUME UNCHANGED <<cut, recvThread, data, held, running>>, conn = "none" => conn' = "none"
      PROVE  /\ cut' \in BOOLEAN
             /\ recvThread' \in {"none", "recv", "push", "exited"}
             /\ recvThread' = "none" => ~running' /\ conn' = "none"
             /\ recvThread' = "push" <=> held' # <<>>
             /\ data' \in Seq(Unit) /\ held' \in Seq(Seq(Unit))
  BY <1>1, <1>4
<1>5. ASSUME ~Tcp!Recv PROVE UNCHANGED cut
  BY <1>5 DEF Tcp!Next, Tcp!Transmit, Tcp!Disconnect, Tcp!Open, Tcp!Destroy, Tcp!Receive,
              Tcp!Exit, Tcp!RecvFails, Tcp!Push
<1>6. CASE ~Tcp!Recv
  <2> SUFFICES
        /\ recvThread' \in {"none", "recv", "push", "exited"}
        /\ recvThread' = "none" => ~running' /\ conn' = "none"
        /\ recvThread' = "push" <=> held' # <<>>
        /\ data' \in Seq(Unit) /\ held' \in Seq(Seq(Unit))
    BY <1>1, <1>3, <1>5, <1>6
  <2>1. CASE Tcp!Transmit \/ Tcp!Receive \/ Tcp!RecvFails
    BY <1>1, <2>1 DEF Tcp!Transmit, Tcp!Receive, Tcp!RecvFails
  <2>2. ASSUME NEW how \in {"finished", "broken"}, Tcp!Disconnect(how)
        PROVE  UNCHANGED <<recvThread, data, held, running>> /\ conn # "none"
    BY <2>2 DEF Tcp!Disconnect
  <2>3. CASE Tcp!Open
    <3>1. UNCHANGED held /\ recvThread \in {"none", "recv"}
      BY <2>3 DEF Tcp!Open
    <3>2. CASE running
      <4>1. UNCHANGED <<recvThread, data>> /\ recvThread # "none"
        BY <1>1, <2>3, <3>2 DEF Tcp!Open
      <4> QED
        BY <1>1, <3>1, <4>1
    <3>3. CASE ~running
      <4>1. recvThread' = "recv" /\ data' = <<>>
        BY <2>3, <3>3 DEF Tcp!Open
      <4>2. data' \in Seq(Unit)
        BY <4>1
      <4> QED
        BY <1>1, <3>1, <4>1, <4>2
    <3> QED
      BY <3>2, <3>3
  <2>4. CASE Tcp!Destroy
    BY <1>1, <2>4 DEF Tcp!Destroy
  <2>5. CASE Tcp!Exit
    BY <1>1, <2>5 DEF Tcp!Exit
  <2>6. CASE Tcp!Push
    <3>1. recvThread = "push" /\ held # <<>> /\ held' = Tail(held) /\ UNCHANGED data
          /\ recvThread' = IF Len(held) = 1 THEN "recv" ELSE "push"
      BY <1>1, <2>6 DEF Tcp!Push
    <3>2. Tail(held) \in Seq(Seq(Unit)) /\ Len(Tail(held)) = Len(held) - 1
      BY <1>1, <3>1, HeadTailProperties
    <3>3. held' = <<>> <=> Len(held) = 1
      <4> DEFINE a == Len(held)
                 b == Tail(held)
      <4>1. b = <<>> <=> Len(b) = 0
        BY <3>2, EmptySeq
      <4>2. a \in Nat
        BY <1>1, LenProperties
      <4>3. held' = b /\ Len(b) = a - 1
        BY <3>1, <3>2
      <4> HIDE DEF a, b
      <4>4. held' = <<>> <=> a = 1
        BY <4>1, <4>2, <4>3
      <4> QED
        BY <4>4 DEF a
    <3> QED
      BY <1>1, <3>1, <3>2, <3>3
  <2> QED
    BY <1>1, <1>6, <2>1, <2>2, <2>3, <2>4, <2>5, <2>6 DEF Tcp!Next
<1> QED
  BY <1>2, <1>6

(* It says what TcpFaithful says.                                          *)
LEMMA TcpFollows ==
  ASSUME TcpInv PROVE Tcp!TcpFaithful
<1> SUFFICES ASSUME ~cut
             PROVE  /\ \A i \in DOMAIN TcpAll : \E m \in 1 .. Packets : TcpAll[i] = Tcp!PacketOf(m)
                    /\ \A i, j \in DOMAIN TcpAll : i < j => TcpAll[i][1].m < TcpAll[j][1].m
                    /\ resets = 0 => TcpAll = [m \in DOMAIN TcpAll |-> Tcp!PacketOf(m)]
  BY DEF Tcp!TcpFaithful, TcpAll
<1>1. CutInv
  BY DEF TcpInv
<1>2. InStream(TcpAll, TcpBase) /\ (resets = 0 => Consecutive(TcpAll))
  BY <1>1 DEF CutInv
<1>3. DOMAIN TcpAll = 1 .. Len(TcpAll)
  BY <1>2, LenProperties DEF InStream
<1> HIDE DEF TcpAll
<1> QED
  BY <1>2, <1>3 DEF InStream, Consecutive


(* Until a recv ends inside a packet, what the TCP source gives is packets  *)
(* of the lidar, whole, each once and in order, for any ring, buffer and   *)
(* packet length, however the connection breaks: the part of               *)
(* StreamsFaithful about TCP.                                              *)
THEOREM TcpInOrder == Spec => [](part = "tcp" => Tcp!TcpFaithful)
<1> DEFINE Inv == part = "tcp" => TcpInv
<1>1. Init => Inv
  BY TcpStarts DEF Init
<1>2. Inv /\ [Next]_vars => Inv'
  <2> SUFFICES ASSUME Inv, [Next]_vars, (part = "tcp")' PROVE TcpInv'
    OBVIOUS
  <2>1. part = "tcp" /\ TcpInv
    BY DEF Next, OfSerial, OfTcp, OfPcap, OfDecoder, OfClouds, vars
  <2>2. CASE OfTcp(Tcp!Next)
    <3>1. Tcp!Next
      BY <2>2 DEF OfTcp
    <3> QED
      BY <2>1, <3>1, TcpKept
  <2>3. CASE UNCHANGED vars
    <3>1. UNCHANGED <<sent, running, held, data, got, conn, socket, resets, recvThread, ring, cut>>
      BY <2>3 DEF vars, varsSent, varsStreams, varsGot, varsTcp
    <3>2. TcpBase' = TcpBase /\ TcpAll' = TcpAll
      BY <3>1 DEF TcpBase, TcpAll
    <3>3. SocketInv'
      BY <2>1, <3>1, <3>2 DEF TcpInv, SocketInv
    <3>4. ~cut => CutInv'
      <4> SUFFICES ASSUME CutInv PROVE CutInv'
        BY <2>1 DEF TcpInv
      <4>1. InStream(TcpAll, TcpBase)'
        BY <3>2 DEF CutInv, InStream, TcpPackets
      <4>2. Consecutive(TcpAll) => Consecutive(TcpAll)'
        BY <3>2 DEF Consecutive
      <4> QED
        BY <3>1, <3>2, <4>1, <4>2 DEF CutInv, TcpPackets
    <3> QED
      BY <2>1, <3>1, <3>3, <3>4 DEF TcpInv
  <2> QED
    BY <2>1, <2>2, <2>3 DEF Next, OfSerial, OfPcap, OfDecoder, OfClouds
<1>3. Inv => (part = "tcp" => Tcp!TcpFaithful)
  BY TcpFollows
<1> QED
  BY <1>1, <1>2, <1>3, PTL DEF Spec

-----------------------------------------------------------------------------
(* PcapReader.  Where the position is mapped.                              *)
LEMMA ChunkSizes ==
  /\ ChunkSize \in Nat /\ ChunkSize > 2 /\ BufMax \in Nat /\ TcpMax \in Nat /\ TcpSlack \in Nat
  /\ Pcap!HeaderLen = 2
BY PcapParameters DEF Pcap!PcapAssumption, Pcap!HeaderLen

LEMMA MappedAt ==
  ASSUME fileSize \in Int, NEW c \in Int, NEW p \in Nat
  PROVE  /\ Pcap!CheckAndMap(c, p) \in Int
         /\ Pcap!EndOf(c) \in Int
         /\ p < fileSize => LET now == Pcap!CheckAndMap(c, p) IN
                              /\ Pcap!Inside(now, p)
                              /\ p < Pcap!EndOf(now)
<1> DEFINE k == Pcap!ChunkOf(p)
<1>1. ChunkSize \in Nat \ {0}
  BY ChunkSizes
<1>2. k \in Nat /\ k <= p /\ p < k + ChunkSize
  <2> DEFINE q == p \div ChunkSize
             r == p % ChunkSize
  <2>1. q \in Nat /\ r \in 0 .. ChunkSize - 1 /\ p = ChunkSize * q + r
    BY <1>1, Divided
  <2> HIDE DEF q, r
  <2>2. ChunkSize * q = q * ChunkSize /\ q * ChunkSize \in Nat
    BY <1>1, <2>1
  <2>3. k = q * ChunkSize
    BY DEF Pcap!ChunkOf, q
  <2> HIDE DEF k
  <2> QED
    BY <1>1, <2>1, <2>2, <2>3
<1> HIDE DEF k
<1>3. \A x \in Int : /\ Pcap!EndOf(x) \in Int
                     /\ Pcap!EndOf(x) = IF ChunkSize < fileSize - x THEN x + ChunkSize ELSE fileSize
  BY <1>1 DEF Pcap!EndOf, Pcap!Least
<1>4. p < fileSize => p < Pcap!EndOf(k)
  BY <1>1, <1>2, <1>3
<1>5. Pcap!CheckAndMap(c, p) = IF Pcap!Inside(c, p) \/ p >= fileSize THEN c ELSE k
  BY DEF Pcap!CheckAndMap, k
<1>6. CASE Pcap!Inside(c, p) \/ p >= fileSize
  BY <1>3, <1>5, <1>6 DEF Pcap!Inside
<1>7. CASE ~(Pcap!Inside(c, p) \/ p >= fileSize)
  BY <1>1, <1>2, <1>3, <1>4, <1>5, <1>7 DEF Pcap!Inside
<1> QED
  BY <1>6, <1>7

(* Two runs of positions, one after the other. *)
LEMMA RunsJoined ==
  ASSUME NEW a \in Nat, NEW n \in Nat, NEW m \in 1 .. n
  PROVE  [i \in 1 .. m |-> a + i - 1] \o [i \in 1 .. n - m |-> a + m + i - 1]
           = [i \in 1 .. n |-> a + i - 1]
<1> DEFINE s == [i \in 1 .. m |-> a + i - 1]
           t == [i \in 1 .. n - m |-> a + m + i - 1]
           u == [i \in 1 .. n |-> a + i - 1]
           v == s \o t
<1>1. m \in Nat /\ n - m \in Nat /\ m + (n - m) = n
  OBVIOUS
<1>2. s \in Seq(Int) /\ t \in Seq(Int) /\ u \in Seq(Int) /\ Len(s) = m /\ Len(t) = n - m /\ Len(u) = n
  BY <1>1
<1>3. /\ \A i \in 1 .. m : s[i] = u[i]
      /\ \A i \in m + 1 .. n : t[i - m] = u[i]
  OBVIOUS
<1> HIDE DEF s, t, u
<1>4. v \in Seq(Int) /\ Len(v) = n
  <2>1. v \in Seq(Int) /\ Len(v) = Len(s) + Len(t)
    BY <1>2, ConcatProperties
  <2> HIDE DEF v
  <2> QED
    BY <1>1, <1>2, <2>1
<1>5. /\ \A i \in 1 .. m : v[i] = s[i]
      /\ \A i \in m + 1 .. n : v[i] = t[i - m]
  <2>1. \A i \in 1 .. Len(s) + Len(t) : v[i] = IF i <= Len(s) THEN s[i] ELSE t[i - Len(s)]
    BY <1>2, ConcatProperties
  <2> HIDE DEF v
  <2>2. Len(s) = m /\ Len(s) + Len(t) = n
    BY <1>1, <1>2
  <2>3. /\ \A i \in 1 .. m : i \in 1 .. n /\ i <= m
        /\ \A i \in m + 1 .. n : i \in 1 .. n /\ ~(i <= m)
    OBVIOUS
  <2>4. \A i \in 1 .. n : v[i] = IF i <= m THEN s[i] ELSE t[i - m]
    BY <2>1, <2>2
  <2> QED
    BY <2>3, <2>4
<1> HIDE DEF v
<1>6. ASSUME NEW i \in 1 .. n PROVE v[i] = u[i]
  <2>1. CASE i \in 1 .. m
    BY <1>3, <1>5, <2>1
  <2>2. CASE i \in m + 1 .. n
    BY <1>3, <1>5, <2>2
  <2> QED
    BY <2>1, <2>2
<1>7. v = u
  BY <1>2, <1>4, <1>6
<1> QED
  BY <1>7 DEF s, t, u, v

(* What is copied when the n bytes before the end are left.                 *)
CopiedFrom(end, n, copy) ==
  [c \in Int |-> IF n = 0 THEN [chunk |-> c, bytes |-> <<>>, mapped |-> TRUE]
                 ELSE Pcap!Round(end - n, n, c, copy)]
CopiesUpTo(f, k, end) == f = [n \in 0 .. k |-> CopiedFrom(end, n, f)]

(* What that is from a chunk on. *)
LEMMA CopiedFromIs ==
  ASSUME NEW end, NEW n, NEW copy, NEW d \in Int
  PROVE  CopiedFrom(end, n, copy)[d]
           = IF n = 0 THEN [chunk |-> d, bytes |-> <<>>, mapped |-> TRUE]
             ELSE Pcap!Round(end - n, n, d, copy)
BY DEF CopiedFrom

(* It only looks at what is copied of fewer. *)
LEMMA RoundLooksBack ==
  ASSUME fileSize \in Int, NEW k \in Nat, NEW end \in Nat, end <= fileSize, k <= end,
         NEW f, NEW g, \A j \in 0 .. k - 1 : f[j] = g[j]
  PROVE  CopiedFrom(end, k, f) = CopiedFrom(end, k, g)
<1>1. CASE k = 0
  BY <1>1 DEF CopiedFrom
<1>2. CASE k # 0
  <2> SUFFICES ASSUME NEW c \in Int PROVE Pcap!Round(end - k, k, c, f) = Pcap!Round(end - k, k, c, g)
    BY <1>2 DEF CopiedFrom
  <2> DEFINE now == Pcap!CheckAndMap(c, end - k)
             some == Pcap!Least(k, Pcap!EndOf(now) - (end - k))
  <2>1. now \in Int /\ Pcap!EndOf(now) \in Int /\ end - k < Pcap!EndOf(now)
    <3>1. end - k \in Nat /\ end - k < fileSize
      BY <1>2
    <3> QED
      BY <3>1, MappedAt
  <2> HIDE DEF now
  <2>2. k - some \in 0 .. k - 1
    BY <1>2, <2>1 DEF Pcap!Least
  <2>3. f[k - some] = g[k - some]
    BY <2>2
  <2> QED
    BY <2>3 DEF Pcap!Round, now
<1> QED
  BY <1>1, <1>2

(* The recursion of read has a value. *)
LEMMA CopyExists ==
  ASSUME fileSize \in Int, NEW len \in Nat, NEW end \in Nat, end <= fileSize, len <= end
  PROVE  \E f : CopiesUpTo(f, len, end)
<1> DEFINE T == {k \in 0 .. len : \E f : CopiesUpTo(f, k, end)}
<1>1. 0 \in T
  <2> DEFINE g == [n \in 0 .. 0 |-> CopiedFrom(end, 0, <<>>)]
  <2>1. CopiedFrom(end, 0, g) = CopiedFrom(end, 0, <<>>)
    BY RoundLooksBack
  <2>2. g = [n \in 0 .. 0 |-> CopiedFrom(end, n, g)]
    BY <2>1
  <2>3. CopiesUpTo(g, 0, end)
    BY <2>2 DEF CopiesUpTo
  <2> QED
    BY <2>3
<1>2. ASSUME NEW k \in 1 .. len, k - 1 \in T PROVE k \in T
  <2>1. PICK f : CopiesUpTo(f, k - 1, end)
    BY <1>2
  <2> DEFINE g == [n \in 0 .. k |-> IF n = k THEN CopiedFrom(end, k, f) ELSE f[n]]
  <2>2. \A n \in 0 .. k - 1 : g[n] = f[n] /\ f[n] = CopiedFrom(end, n, f)
    BY <2>1 DEF CopiesUpTo
  <2>3. g[k] = CopiedFrom(end, k, f)
    OBVIOUS
  <2>6. g = [n \in 0 .. k |-> g[n]]
    OBVIOUS
  <2> HIDE DEF g
  <2>4. ASSUME NEW n \in 0 .. k PROVE g[n] = CopiedFrom(end, n, g)
    <3>1. \A j \in 0 .. n - 1 : f[j] = g[j]
      BY <2>2
    <3>2. CopiedFrom(end, n, f) = CopiedFrom(end, n, g)
      BY <3>1, RoundLooksBack
    <3>3. g[n] = CopiedFrom(end, n, f)
      <4>1. CASE n = k
        BY <2>3, <4>1
      <4>2. CASE n # k
        <5>1. n \in 0 .. k - 1
          BY <4>2
        <5> QED
          BY <2>2, <5>1
      <4> QED
        BY <4>1, <4>2
    <3> QED
      BY <3>2, <3>3
  <2>5. CopiesUpTo(g, k, end)
    BY <2>4, <2>6 DEF CopiesUpTo
  <2> QED
    BY <2>5
<1> HIDE DEF T
<1>3. len \in T
  <2>1. 0 .. len \subseteq T
    BY <1>1, <1>2, UpTo
  <2> QED
    BY <2>1
<1> QED
  BY <1>3 DEF T

(* Were the n bytes before the end read, each at its place and mapped?      *)
CopyType == [chunk : Int, bytes : Seq(Int), mapped : BOOLEAN]
ReadWhole(v, n, end) ==
  /\ v \in CopyType /\ v.mapped = TRUE
  /\ v.bytes = [i \in 1 .. n |-> end - n + i - 1]

(* What the file has is read whole, however it lies across chunks.          *)
LEMMA CopiedWhole ==
  ASSUME fileSize \in Int, NEW c \in Int, NEW p \in Nat, NEW len \in Nat, p + len <= fileSize
  PROVE  /\ Pcap!Copied(c, p, len) \in CopyType
         /\ Pcap!Copied(c, p, len).mapped = TRUE
         /\ Pcap!Copied(c, p, len).bytes = [i \in 1 .. len |-> p + i - 1]
<1> DEFINE end == p + len
           Is(f) == f = [n \in 0 .. len |->
                           [d \in Int |-> IF n = 0 THEN [chunk |-> d, bytes |-> <<>>, mapped |-> TRUE]
                                          ELSE Pcap!Round(p + len - n, n, d, f)]]
           copy == CHOOSE f : Is(f)
<1>1. end \in Nat /\ end <= fileSize /\ len <= end /\ end - len = p
  OBVIOUS
<1>2. Pcap!Copied(c, p, len) = copy[len][c]
  BY DEF Pcap!Copied
<1>3. \A f : Is(f) <=> CopiesUpTo(f, len, end)
  <2>1. ASSUME NEW f, NEW n \in 0 .. len
        PROVE  CopiedFrom(end, n, f)
                 = [d \in Int |-> IF n = 0 THEN [chunk |-> d, bytes |-> <<>>, mapped |-> TRUE]
                                  ELSE Pcap!Round(p + len - n, n, d, f)]
    <3>1. end - n = p + len - n
      OBVIOUS
    <3> HIDE DEF end
    <3> QED
      BY <3>1 DEF CopiedFrom
  <2> HIDE DEF end
  <2> QED
    BY <2>1 DEF CopiesUpTo
<1> HIDE DEF end, Is
<1>9. CopiesUpTo(copy, len, end)
  <2>1. \E f : Is(f)
    BY <1>1, <1>3, CopyExists
  <2> QED
    BY <1>3, <2>1
<1> HIDE DEF copy
<1>4. \A n \in 0 .. len : copy[n] = CopiedFrom(end, n, copy)
  BY <1>9 DEF CopiesUpTo
<1> DEFINE T == {k \in 0 .. len : \A j \in 0 .. k : \A d \in Int : ReadWhole(copy[j][d], j, end)}
<1>5. 0 \in T
  <2> SUFFICES ASSUME NEW d \in Int PROVE ReadWhole(copy[0][d], 0, end)
    OBVIOUS
  <2>1. copy[0][d] = [chunk |-> d, bytes |-> <<>>, mapped |-> TRUE]
    <3>1. copy[0] = CopiedFrom(end, 0, copy)
      BY <1>4
    <3>2. CopiedFrom(end, 0, copy)[d] = [chunk |-> d, bytes |-> <<>>, mapped |-> TRUE]
      BY CopiedFromIs
    <3> QED
      BY <3>1, <3>2
  <2>2. [i \in 1 .. 0 |-> end - 0 + i - 1] = <<>>
    OBVIOUS
  <2>3. <<>> \in Seq(Int)
    OBVIOUS
  <2>4. copy[0][d] \in CopyType
    BY <2>1, <2>3 DEF CopyType
  <2> QED
    BY <2>1, <2>2, <2>4 DEF ReadWhole
<1>6. ASSUME NEW k \in 1 .. len, k - 1 \in T PROVE k \in T
  <2> SUFFICES ASSUME NEW d \in Int PROVE ReadWhole(copy[k][d], k, end)
    BY <1>6
  <2> DEFINE at == end - k
             now == Pcap!CheckAndMap(d, at)
             some == Pcap!Least(k, Pcap!EndOf(now) - at)
             rest == copy[k - some][now]
  <2>1. at \in Nat /\ at < fileSize /\ at + k = end
    BY <1>1
  <2> HIDE DEF at
  <2>2. now \in Int /\ Pcap!EndOf(now) \in Int /\ at < Pcap!EndOf(now) /\ Pcap!Inside(now, at)
    BY <2>1, MappedAt
  <2>3. copy[k][d] = [chunk |-> rest.chunk, bytes |-> [i \in 1 .. some |-> at + i - 1] \o rest.bytes,
                      mapped |-> Pcap!Inside(now, at) /\ rest.mapped]
    <3>1. copy[k][d] = Pcap!Round(at, k, d, copy)
      <4>1. copy[k] = CopiedFrom(end, k, copy)
        BY <1>4
      <4>2. CopiedFrom(end, k, copy)[d] = Pcap!Round(end - k, k, d, copy)
        <5>1. k # 0
          OBVIOUS
        <5> QED
          BY <5>1, CopiedFromIs
      <4> QED
        BY <4>1, <4>2 DEF at
    <3> QED
      BY <3>1 DEF Pcap!Round
  <2> HIDE DEF now
  <2>4. some \in 1 .. k /\ k - some \in 0 .. k - 1
    BY <2>1, <2>2 DEF Pcap!Least
  <2> HIDE DEF some, T
  <2>5. ReadWhole(rest, k - some, end)
    BY <1>6, <2>2, <2>4 DEF T
  <2> HIDE DEF rest
  <2>6. rest.bytes = [i \in 1 .. k - some |-> at + some + i - 1]
    <3>1. end - (k - some) = at + some
      BY <1>1, <2>1, <2>4
    <3> QED
      BY <2>5, <3>1 DEF ReadWhole
  <2>7. [i \in 1 .. some |-> at + i - 1] \o rest.bytes = [i \in 1 .. k |-> at + i - 1]
    <3> DEFINE t == [i \in 1 .. k - some |-> at + some + i - 1]
               s == [i \in 1 .. some |-> at + i - 1]
    <3>0. k \in Nat
      OBVIOUS
    <3>1. s \o t = [i \in 1 .. k |-> at + i - 1]
      BY <2>1, <2>4, <3>0, RunsJoined, Zenon
    <3> QED
      BY <2>6, <3>1
  <2> DEFINE v == copy[k][d]
  <2>8. v.chunk = rest.chunk /\ v.mapped = (Pcap!Inside(now, at) /\ rest.mapped)
        /\ v.bytes = [i \in 1 .. some |-> at + i - 1] \o rest.bytes
        /\ v = [chunk |-> v.chunk, bytes |-> v.bytes, mapped |-> v.mapped]
    <3> DEFINE b == [i \in 1 .. some |-> at + i - 1] \o rest.bytes
               w == Pcap!Inside(now, at) /\ rest.mapped
    <3>1. v = [chunk |-> rest.chunk, bytes |-> b, mapped |-> w]
      BY <2>3
    <3> HIDE DEF b, w, v
    <3>2. v.chunk = rest.chunk /\ v.bytes = b /\ v.mapped = w
          /\ v = [chunk |-> v.chunk, bytes |-> v.bytes, mapped |-> v.mapped]
      BY <3>1
    <3> QED
      BY <3>2 DEF b, w
  <2> HIDE DEF v
  <2>9. v.chunk \in Int /\ v.mapped = TRUE
    BY <2>2, <2>5, <2>8 DEF ReadWhole, CopyType
  <2>10. v.bytes = [i \in 1 .. k |-> at + i - 1]
    BY <2>7, <2>8
  <2>11. v.bytes \in Seq(Int)
    <3>1. [i \in 1 .. k |-> at + i - 1] \in Seq(Int)
      BY <2>1
    <3> QED
      BY <2>10, <3>1
  <2>12. v \in CopyType
    <3> DEFINE a == v.chunk
               b == v.bytes
               w == v.mapped
    <3>1. a \in Int /\ b \in Seq(Int) /\ w \in BOOLEAN
      BY <2>9, <2>11
    <3> HIDE DEF a, b, w
    <3>2. [chunk |-> a, bytes |-> b, mapped |-> w] \in CopyType
      BY <3>1 DEF CopyType
    <3> QED
      BY <2>8, <3>2 DEF a, b, w
  <2> QED
    BY <2>9, <2>10, <2>12 DEF ReadWhole, at, v
<1>7. len \in T
  <2> HIDE DEF T
  <2>1. 0 .. len \subseteq T
    BY <1>5, <1>6, UpTo
  <2> QED
    BY <2>1
<1>8. ReadWhole(copy[len][c], len, end)
  BY <1>7
<1> QED
  BY <1>1, <1>2, <1>8 DEF ReadWhole

(* The recording at hand.                                                  *)
RecordType == [kind : Pcap!Kinds, len : Nat \ {0}, packets : Nat]
PacketType == [record : Nat, packet : Nat]

LEMMA RecordingTyped ==
  ASSUME records \in Recordings
  PROVE  /\ records \in Seq(RecordType) /\ Len(records) \in Nat
         /\ DOMAIN records = 1 .. Len(records)
         /\ \A i \in 1 .. Len(records) :
              /\ records[i].len \in Nat \ {0} /\ records[i].packets \in Nat
              /\ records[i].packets > 0 <=> records[i].kind \in {"udp", "tcp"}
<1>1. Recordings \subseteq Seq(RecordType)
  BY PcapParameters DEF Pcap!PcapAssumption, RecordType
<1>2. \A rs \in Recordings : \A i \in DOMAIN rs :
        rs[i].packets > 0 <=> rs[i].kind \in {"udp", "tcp"}
  BY PcapParameters DEF Pcap!PcapAssumption
<1>3. records \in Seq(RecordType) /\ Len(records) \in Nat /\ DOMAIN records = 1 .. Len(records)
      /\ \A i \in 1 .. Len(records) : records[i] \in RecordType
  BY <1>1
<1>4. \A i \in 1 .. Len(records) : records[i].len \in Nat \ {0} /\ records[i].packets \in Nat
  BY <1>3 DEF RecordType
<1>5. \A i \in DOMAIN records : records[i].packets > 0 <=> records[i].kind \in {"udp", "tcp"}
  BY <1>2
<1> QED
  BY <1>3, <1>4, <1>5

(* Each record starts where the one before ends. *)
LEMMA StartsFollow ==
  ASSUME records \in Recordings
  PROVE  /\ Pcap!RecordStart \in [1 .. Len(records) + 1 -> Nat]
         /\ Pcap!RecordStart[1] = 1
         /\ \A i \in 1 .. Len(records) :
              Pcap!RecordStart[i + 1] = Pcap!RecordStart[i] + 2 + records[i].len
<1> DEFINE n == Len(records)
           Is(f) == f = [i \in 1 .. n + 1 |-> IF i = 1 THEN 1
                                             ELSE f[i - 1] + Pcap!HeaderLen + records[i - 1].len]
           start == CHOOSE f : Is(f)
           step == [i \in 1 .. n |-> [v \in Nat |-> v + 2 + records[i].len]]
<1>1. Pcap!RecordStart = start
  BY DEF Pcap!RecordStart
<1>2. n \in Nat /\ \A i \in 1 .. n : records[i].len \in Nat
  BY RecordingTyped
<1>3. step \in [1 .. n -> [Nat -> Nat]]
  BY <1>2
<1> HIDE DEF n
<1>4. PICK h : Recurs(h, Nat, n, 1, step)
  <2> HIDE DEF step
  <2> QED
    BY <1>2, <1>3, RecursionExists
<1>5. h \in [0 .. n -> Nat] /\ h[0] = 1 /\ \A i \in 1 .. n : h[i] = h[i - 1] + 2 + records[i].len
  <2> USE <1>4 DEF Recurs
  <2>1. h \in [0 .. n -> Nat] /\ h[0] = 1
    OBVIOUS
  <2>2. ASSUME NEW i \in 1 .. n PROVE h[i] = h[i - 1] + 2 + records[i].len
    <3>1. h[i] = step[i][h[i - 1]]
      OBVIOUS
    <3>2. h[i - 1] \in Nat
      BY <1>2, <2>1
    <3>3. step[i] = [v \in Nat |-> v + 2 + records[i].len]
      OBVIOUS
    <3> HIDE DEF step
    <3> QED
      BY <3>1, <3>2, <3>3
  <2> QED
    BY <2>1, <2>2
<1> HIDE DEF step
<1>6. \E f : Is(f)
  <2> DEFINE g == [i \in 1 .. n + 1 |-> h[i - 1]]
  <2>1. \A i \in 1 .. n + 1 : g[i] = IF i = 1 THEN 1 ELSE g[i - 1] + Pcap!HeaderLen + records[i - 1].len
    <3> SUFFICES ASSUME NEW i \in 1 .. n + 1
                 PROVE  g[i] = IF i = 1 THEN 1 ELSE g[i - 1] + Pcap!HeaderLen + records[i - 1].len
      OBVIOUS
    <3>1. CASE i = 1
      BY <1>2, <1>5, <3>1
    <3>2. CASE i # 1
      <4>1. i - 1 \in 1 .. n /\ i - 1 \in 1 .. n + 1
        BY <1>2, <3>2
      <4>2. h[i - 1] = h[i - 1 - 1] + 2 + records[i - 1].len
        BY <1>5, <4>1
      <4>3. g[i] = h[i - 1] /\ g[i - 1] = h[i - 1 - 1]
        BY <4>1
      <4> QED
        BY <3>2, <4>2, <4>3 DEF Pcap!HeaderLen
    <3> QED
      BY <3>1, <3>2
  <2>2. g = [i \in 1 .. n + 1 |-> g[i]]
    OBVIOUS
  <2> HIDE DEF g
  <2>3. Is(g)
    BY <2>1, <2>2
  <2> HIDE DEF Is
  <2> QED
    BY <2>3
<1>7. Is(start)
  <2> HIDE DEF Is
  <2> QED
    BY <1>6
<1> HIDE DEF start
<1>8. /\ DOMAIN start = 1 .. n + 1 /\ start = [i \in 1 .. n + 1 |-> start[i]] /\ start[1] = 1
      /\ \A i \in 2 .. n + 1 : start[i] = start[i - 1] + 2 + records[i - 1].len
  BY <1>2, <1>7, SMTT(30) DEF Pcap!HeaderLen
<1> HIDE DEF Is
<1>9. ASSUME NEW i \in 1 .. n PROVE start[i + 1] = start[i] + 2 + records[i].len
  <2>1. i + 1 \in 2 .. n + 1 /\ (i + 1) - 1 = i
    BY <1>2
  <2> QED
    BY <1>8, <2>1
<1>10. \A i \in 1 .. n + 1 : start[i] \in Nat
  <2> DEFINE T == {k \in 0 .. n : start[k + 1] \in Nat}
  <2>1. 0 \in T
    BY <1>2, <1>8
  <2>2. ASSUME NEW k \in 1 .. n, k - 1 \in T PROVE k \in T
    BY <1>2, <1>9, <2>2
  <2>3. 0 .. n \subseteq T
    <3> HIDE DEF T
    <3> QED
      BY <1>2, <2>1, <2>2, UpTo
  <2> QED
    BY <1>2, <2>3
<1> QED
  BY <1>1, <1>8, <1>9, <1>10 DEF n

(* A later record starts later. *)
LEMMA StartsGrow ==
  ASSUME records \in Recordings, NEW i \in 1 .. Len(records) + 1, NEW j \in i + 1 .. Len(records) + 1
  PROVE  Pcap!RecordStart[i] + 2 < Pcap!RecordStart[j]
<1> DEFINE n == Len(records)
           start == Pcap!RecordStart
           T == {k \in 0 .. n - i : start[i] + 2 < start[i + 1 + k]}
<1>1. /\ n \in Nat /\ start \in [1 .. n + 1 -> Nat]
      /\ \A k \in 1 .. n : start[k + 1] = start[k] + 2 + records[k].len /\ records[k].len \in Nat \ {0}
  BY StartsFollow, RecordingTyped
<1>2. i \in 1 .. n /\ n - i \in Nat
  BY <1>1
<1> HIDE DEF start, n
<1>3. 0 \in T
  <2>1. start[i + 1] = start[i] + 2 + records[i].len /\ records[i].len \in Nat \ {0} /\ start[i] \in Nat
    BY <1>1, <1>2
  <2>2. start[i] + 2 < start[i + 1] /\ i + 1 + 0 = i + 1
    BY <1>1, <2>1
  <2> QED
    BY <1>2, <2>2
<1>4. ASSUME NEW k \in 1 .. n - i, k - 1 \in T PROVE k \in T
  <2>1. i + k \in 1 .. n /\ i + 1 + (k - 1) = i + k /\ i + 1 + k = (i + k) + 1
    BY <1>1, <1>2
  <2>2. start[i + 1 + k] = start[i + k] + 2 + records[i + k].len /\ records[i + k].len \in Nat
    BY <1>1, <2>1
  <2>3. start[i] \in Nat /\ start[i + k] \in Nat /\ start[i] + 2 < start[i + k]
    BY <1>1, <1>2, <1>4, <2>1
  <2>4. start[i] + 2 < start[i + 1 + k]
    <3> HIDE DEF T
    <3>1. start[i + k] < start[i + k] + 2 + records[i + k].len
      BY <2>2, <2>3
    <3>2. start[i + k] < start[i + 1 + k] /\ start[i + 1 + k] \in Nat
      BY <2>2, <2>3, <3>1, SMTT(30)
    <3> QED
      BY <2>3, <3>2
  <2>5. k \in 0 .. n - i
    OBVIOUS
  <2> QED
    BY <2>4, <2>5
<1>5. j - i - 1 \in 0 .. n - i /\ i + 1 + (j - i - 1) = j
  BY <1>1, <1>2 DEF n
<1> HIDE DEF T
<1>6. 0 .. n - i \subseteq T
  BY <1>2, <1>3, <1>4, UpTo
<1>7. j - i - 1 \in T
  BY <1>5, <1>6
<1> QED
  BY <1>5, <1>7 DEF T, start

(* The record that starts there is found there. *)
LEMMA RecordFound ==
  ASSUME records \in Recordings, NEW i \in 1 .. Len(records)
  PROVE  /\ Pcap!RecordAt(Pcap!RecordStart[i]) = i
         /\ Pcap!HeadersAt(Pcap!RecordStart[i]) = {records[i]}
<1> DEFINE start == Pcap!RecordStart
<1>1. DOMAIN records = 1 .. Len(records) /\ Len(records) \in Nat /\ i # 0
      /\ start \in [1 .. Len(records) + 1 -> Nat]
  BY RecordingTyped, StartsFollow
<1>2. ASSUME NEW j \in 1 .. Len(records), start[j] = start[i] PROVE j = i
  <2>1. start[i] \in Nat /\ start[j] \in Nat
    BY <1>1
  <2>2. i \in 1 .. Len(records) + 1 /\ j \in 1 .. Len(records) + 1
    BY <1>1
  <2>3. ~(i < j)
    <3> SUFFICES ASSUME i < j PROVE FALSE
      OBVIOUS
    <3>1. j \in i + 1 .. Len(records) + 1
      BY <1>1
    <3>2. start[i] + 2 < start[j]
      BY <2>2, <3>1, StartsGrow
    <3> QED
      BY <1>2, <2>1, <3>2
  <2>4. ~(j < i)
    <3> SUFFICES ASSUME j < i PROVE FALSE
      OBVIOUS
    <3>1. i \in j + 1 .. Len(records) + 1
      BY <1>1
    <3>2. start[j] + 2 < start[i]
      BY <2>2, <3>1, StartsGrow
    <3> QED
      BY <1>2, <2>1, <3>2
  <2> QED
    BY <1>1, <2>3, <2>4
<1> HIDE DEF start
<1>3. (CHOOSE j \in DOMAIN records : start[j] = start[i]) = i
  <2> DEFINE P(j) == j \in DOMAIN records /\ start[j] = start[i]
  <2>1. P(i) /\ \A j : P(j) => j = i
    BY <1>1, <1>2
  <2>2. (CHOOSE j : P(j)) = i
    <3> HIDE DEF P
    <3> QED
      BY <2>1
  <2> QED
    BY <2>2
<1>4. Pcap!RecordAt(Pcap!RecordStart[i]) = i
  <2>1. \E j \in DOMAIN records : start[j] = start[i]
    BY <1>1
  <2> QED
    BY <1>3, <2>1 DEF Pcap!RecordAt, start
<1> QED
  BY <1>1, <1>4 DEF Pcap!HeadersAt

(* The packets of a record that is short enough to be read.                *)
PacketsOf(i) ==
  IF records[i].len > BufMax THEN <<>>
  ELSE [k \in 1 .. records[i].packets |-> Pcap!PacketOf(i, k)]

LEMMA PacketsTyped ==
  ASSUME records \in Recordings, NEW i \in 1 .. Len(records)
  PROVE  PacketsOf(i) \in Seq(PacketType)
<1>1. records[i].packets \in Nat /\ i \in Nat
  BY RecordingTyped
<1>2. ASSUME NEW k \in 1 .. records[i].packets PROVE Pcap!PacketOf(i, k) \in PacketType
  BY <1>1 DEF Pcap!PacketOf, PacketType
<1>3. [k \in 1 .. records[i].packets |-> Pcap!PacketOf(i, k)] \in Seq(PacketType)
  BY <1>1, <1>2
<1> QED
  BY <1>3 DEF PacketsOf

(* Behind them the records before a position are all there is.             *)
PiecesUpTo(j) == [i \in 1 .. Len(records) |-> IF i < j THEN PacketsOf(i) ELSE <<>>]

LEMMA RecordedIs ==
  ASSUME records \in Recordings, NEW j \in 1 .. Len(records) + 1
  PROVE  /\ Pcap!Recorded(Pcap!RecordStart[j]) = Clouds!FlattenSeq(PiecesUpTo(j))
         /\ PiecesUpTo(j) \in Seq(Seq(PacketType)) /\ Len(PiecesUpTo(j)) = Len(records)
<1> DEFINE n == Len(records)
           start == Pcap!RecordStart
           W == [i \in DOMAIN records |->
                  IF start[i] + Pcap!HeaderLen + records[i].len > start[j] \/ records[i].len > BufMax
                  THEN <<>> ELSE [k \in 1 .. records[i].packets |-> Pcap!PacketOf(i, k)]]
<1>1. n \in Nat /\ DOMAIN records = 1 .. n /\ BufMax \in Nat /\ start \in [1 .. n + 1 -> Nat]
      /\ \A i \in 1 .. n : start[i + 1] = start[i] + 2 + records[i].len
  BY RecordingTyped, StartsFollow, ChunkSizes
<1>2. Pcap!Recorded(start[j]) = Pcap!FlattenSeq(W)
  BY DEF Pcap!Recorded
<1>3. ASSUME NEW i \in 1 .. n
      PROVE  start[i] + Pcap!HeaderLen + records[i].len > start[j] <=> ~(i < j)
  <2>1. start[i + 1] = start[i] + Pcap!HeaderLen + records[i].len
    BY <1>1 DEF Pcap!HeaderLen
  <2>2. start[i + 1] \in Nat /\ start[j] \in Nat /\ i + 1 \in 1 .. n + 1
    BY <1>1
  <2>3. CASE i < j
    <3>1. i + 1 = j \/ j \in (i + 1) + 1 .. n + 1
      BY <1>1, <2>3
    <3>2. start[i + 1] <= start[j]
      BY <2>2, <3>1, StartsGrow
    <3> QED
      BY <2>1, <2>2, <2>3, <3>2
  <2>4. CASE ~(i < j)
    <3>1. i + 1 \in j + 1 .. n + 1
      BY <1>1, <2>4
    <3>2. start[j] + 2 < start[i + 1]
      BY <3>1, StartsGrow
    <3> QED
      BY <2>1, <2>2, <2>4, <3>2
  <2> QED
    BY <2>3, <2>4
<1>4. W = PiecesUpTo(j)
  <2>1. ASSUME NEW i \in 1 .. n
        PROVE  (IF start[i] + Pcap!HeaderLen + records[i].len > start[j] \/ records[i].len > BufMax
                THEN <<>> ELSE [k \in 1 .. records[i].packets |-> Pcap!PacketOf(i, k)])
                 = IF i < j THEN PacketsOf(i) ELSE <<>>
    <3> HIDE DEF start
    <3> QED
      BY <1>3 DEF PacketsOf
  <2> HIDE DEF start
  <2> QED
    BY <1>1, <2>1 DEF PiecesUpTo
<1> HIDE DEF W, start
<1>5. Pcap!FlattenSeq(W) = Clouds!FlattenSeq(W)
  BY DEF Pcap!FlattenSeq, Clouds!FlattenSeq
<1>6. \A i \in 1 .. n : PacketsOf(i) \in Seq(PacketType)
  BY PacketsTyped
<1>7. PiecesUpTo(j) \in Seq(Seq(PacketType)) /\ Len(PiecesUpTo(j)) = n
  BY <1>1, <1>6 DEF PiecesUpTo
<1> QED
  BY <1>2, <1>4, <1>5, <1>7 DEF start

(* A record further, its packets are there too.                            *)
LEMMA RecordedGrows ==
  ASSUME records \in Recordings
  PROVE  /\ Pcap!Recorded(Pcap!RecordStart[1]) = <<>>
         /\ \A j \in 1 .. Len(records) + 1 : Pcap!Recorded(Pcap!RecordStart[j]) \in Seq(PacketType)
         /\ \A j \in 1 .. Len(records) :
              Pcap!Recorded(Pcap!RecordStart[j + 1])
                = Pcap!Recorded(Pcap!RecordStart[j]) \o PacketsOf(j)
<1> DEFINE n == Len(records)
           R(j) == Pcap!Recorded(Pcap!RecordStart[j])
<1>1. n \in Nat /\ \A i \in 1 .. n : PacketsOf(i) \in Seq(PacketType)
  BY RecordingTyped, PacketsTyped
<1>2. PICK f : FlatsBy(f, PiecesUpTo(n + 1), PacketType)
  <2>1. n + 1 \in 1 .. n + 1
    BY <1>1
  <2>2. PiecesUpTo(n + 1) \in Seq(Seq(PacketType))
    BY <2>1, RecordedIs
  <2> QED
    BY <2>2, FlattensBy
<1>3. /\ f \in [0 .. n -> Seq(PacketType)] /\ f[0] = <<>>
      /\ \A i \in 1 .. n : f[i] = f[i - 1] \o PacketsOf(i)
  <2>1. n + 1 \in 1 .. n + 1
    BY <1>1
  <2>2. Len(PiecesUpTo(n + 1)) = n
    BY <2>1, RecordedIs
  <2>3. \A i \in 1 .. n : PiecesUpTo(n + 1)[i] = PacketsOf(i)
    BY <1>1 DEF PiecesUpTo
  <2> QED
    BY <1>2, <2>2, <2>3 DEF FlatsBy
<1>4. ASSUME NEW j \in 1 .. n + 1 PROVE R(j) = f[j - 1]
  <2>1. PICK g : FlatsBy(g, PiecesUpTo(j), PacketType)
    BY RecordedIs, FlattensBy
  <2>2. /\ Clouds!FlattenSeq(PiecesUpTo(j)) = g[n] /\ g[0] = <<>>
        /\ \A i \in 1 .. n : g[i] = g[i - 1] \o IF i < j THEN PacketsOf(i) ELSE <<>>
    <3>1. Len(PiecesUpTo(j)) = n
      BY RecordedIs
    <3>2. \A i \in 1 .. n : PiecesUpTo(j)[i] = IF i < j THEN PacketsOf(i) ELSE <<>>
      BY DEF PiecesUpTo
    <3> QED
      BY <2>1, <3>1, <3>2 DEF FlatsBy
  <2> DEFINE T == {k \in 0 .. n : g[k] = IF k < j THEN f[k] ELSE f[j - 1]}
  <2>3. 0 \in T
    BY <1>1, <1>3, <2>2
  <2>4. ASSUME NEW k \in 1 .. n, k - 1 \in T PROVE k \in T
    <3>1. CASE k < j
      <4>1. g[k - 1] = f[k - 1]
        BY <1>1, <2>4, <3>1
      <4>2. g[k] = g[k - 1] \o PacketsOf(k)
        BY <2>2, <3>1
      <4>3. f[k] = f[k - 1] \o PacketsOf(k)
        BY <1>3
      <4>4. g[k] = f[k] /\ k \in 0 .. n
        BY <4>1, <4>2, <4>3
      <4> QED
        BY <3>1, <4>4
    <3>2. CASE ~(k < j)
      <4>1. g[k - 1] = f[j - 1]
        BY <1>1, <2>4, <3>2
      <4>2. g[k] = g[k - 1] \o <<>>
        BY <2>2, <3>2
      <4>3. f[j - 1] \in Seq(PacketType)
        <5>1. j - 1 \in 0 .. n
          BY <1>1
        <5> QED
          BY <1>3, <5>1
      <4>4. f[j - 1] \o <<>> = f[j - 1]
        BY <4>3, ConcatEmptySeq
      <4> QED
        BY <3>2, <4>1, <4>2, <4>4
    <3> QED
      BY <3>1, <3>2
  <2> HIDE DEF T
  <2>5. 0 .. n \subseteq T
    BY <1>1, <2>3, <2>4, UpTo
  <2>6. n \in T
    BY <1>1, <2>5
  <2>7. g[n] = f[j - 1]
    BY <1>1, <2>6 DEF T
  <2>8. R(j) = Clouds!FlattenSeq(PiecesUpTo(j))
    BY RecordedIs
  <2> QED
    BY <2>2, <2>7, <2>8
<1> HIDE DEF R
<1>5. R(1) = <<>>
  BY <1>1, <1>3, <1>4
<1>6. ASSUME NEW j \in 1 .. n + 1 PROVE R(j) \in Seq(PacketType)
  <2>1. j - 1 \in 0 .. n
    BY <1>1
  <2> QED
    BY <1>3, <1>4, <2>1
<1>7. ASSUME NEW j \in 1 .. n PROVE R(j + 1) = R(j) \o PacketsOf(j)
  <2>1. j \in 1 .. n + 1 /\ j + 1 \in 1 .. n + 1 /\ (j + 1) - 1 = j
    BY <1>1
  <2> QED
    BY <1>3, <1>4, <2>1
<1> QED
  BY <1>5, <1>6, <1>7 DEF R

(* What is recorded up to each record.                                     *)
RecordedTo == [j \in 1 .. Len(records) + 1 |-> Pcap!Recorded(Pcap!RecordStart[j])]

(* A recording that is whole, of single packets.                           *)
Simple ==
  /\ \A i \in DOMAIN records : records[i].packets <= 1
  /\ fileSize = Pcap!RecordStart[Len(records) + 1]

(* The reader stands at the start of a record, or at the end, and has       *)
(* handed on what lies before; nothing is left in the TCP buffer.           *)
AtRecord ==
  /\ tcp \in Seq(PacketType) /\ dataIndex = Len(tcp)
  /\ ~opened => fpos = 0 /\ got = <<>>
  /\ opened => \E j \in 1 .. Len(records) + 1 : fpos = Pcap!RecordStart[j] /\ got = RecordedTo[j]

PcapInv ==
  /\ records \in Recordings /\ fileSize \in Int /\ mapped \in Int /\ fpos \in Nat
  /\ ~stray
  /\ Simple => AtRecord

LEMMA PcapStarts ==
  ASSUME Pcap!Init PROVE PcapInv
<1>1. /\ records \in Recordings /\ opened = FALSE /\ mapped = -1 /\ fpos = 0 /\ stray = FALSE
      /\ tcp = <<>> /\ dataIndex = 0 /\ got = <<>>
      /\ \E c \in Cuts : fileSize = Pcap!RecordStart[Len(records) + 1] - c
  BY DEF Pcap!Init
<1>2. Cuts \subseteq Nat
  BY PcapParameters DEF Pcap!PcapAssumption
<1>3. Pcap!RecordStart[Len(records) + 1] \in Nat
  <2>1. Len(records) + 1 \in 1 .. Len(records) + 1
    BY <1>1, RecordingTyped
  <2> QED
    BY <1>1, <2>1, StartsFollow
<1>4. fileSize \in Int
  BY <1>1, <1>2, <1>3
<1>5. tcp \in Seq(PacketType) /\ dataIndex = Len(tcp)
  BY <1>1
<1> QED
  BY <1>1, <1>4, <1>5 DEF PcapInv, AtRecord

(* Where next reads from.                                                  *)
LEMMA ReadsFrom ==
  ASSUME PcapInv
  PROVE  /\ Pcap!From \in Nat /\ Pcap!FromChunk \in Int /\ Pcap!BeginPos = 1
         /\ \A h \in Pcap!HeadersAt(Pcap!From) : h.len \in Nat
<1>1. records \in Recordings /\ fileSize \in Int /\ mapped \in Int /\ fpos \in Nat
  BY DEF PcapInv
<1>2. Pcap!BeginPos = 1
  BY <1>1, StartsFollow DEF Pcap!BeginPos
<1>3. Pcap!From \in Nat
  BY <1>1, <1>2 DEF Pcap!From
<1>4. Pcap!CheckAndMap(mapped, 1) \in Int
  BY <1>1, MappedAt
<1>5. Pcap!FromChunk \in Int
  BY <1>1, <1>2, <1>4 DEF Pcap!FromChunk
<1>6. ASSUME NEW pos, NEW h \in Pcap!HeadersAt(pos) PROVE h.len \in Nat
  <2>1. CASE Pcap!RecordAt(pos) # 0
    <3>1. \E i \in DOMAIN records : Pcap!RecordStart[i] = pos
      BY <2>1 DEF Pcap!RecordAt
    <3>2. Pcap!RecordAt(pos) \in DOMAIN records
      BY <3>1 DEF Pcap!RecordAt
    <3>3. h = records[Pcap!RecordAt(pos)]
      BY <1>6, <2>1 DEF Pcap!HeadersAt
    <3> QED
      BY <1>1, <3>2, <3>3, RecordingTyped
  <2>2. CASE Pcap!RecordAt(pos) = 0
    <3>1. h \in [kind : {"udp", "other"}, len : {1, BufMax, BufMax + 1}, packets : {1}]
      BY <1>6, <2>2 DEF Pcap!HeadersAt
    <3> QED
      BY <3>1, ChunkSizes
  <2> QED
    BY <2>1, <2>2
<1> QED
  BY <1>2, <1>3, <1>5, <1>6

(* Whatever next reads, it reads from the chunk it is in.                  *)
LEMMA ReadIsMapped ==
  ASSUME PcapInv, Pcap!ReadRecord
  PROVE  mapped' \in Int /\ fpos' \in Nat /\ ~stray'
<1> DEFINE from == Pcap!From
           chunk == Pcap!FromChunk
           header == Pcap!Copied(chunk, from, Pcap!HeaderLen)
           start == from + Pcap!HeaderLen
<1>1. fileSize \in Int /\ mapped \in Int /\ fpos \in Nat /\ ~stray /\ Pcap!HeaderLen = 2
      /\ BufMax \in Nat
  BY ChunkSizes DEF PcapInv
<1>2. from \in Nat /\ chunk \in Int /\ start \in Nat /\ \A h \in Pcap!HeadersAt(from) : h.len \in Nat
  BY <1>1, ReadsFrom
<1>3. CASE start > fileSize
  <2>1. fpos' = from /\ mapped' = chunk /\ stray' = stray
    BY <1>3 DEF Pcap!ReadRecord
  <2> QED
    BY <1>1, <1>2, <2>1
<1>4. CASE ~(start > fileSize)
  <2> DEFINE payloadOf(h) == IF h.len <= BufMax /\ start + h.len <= fileSize
                             THEN Pcap!Copied(header.chunk, start, h.len)
                             ELSE [header EXCEPT !.bytes = <<>>]
  <2>1. PICK h \in Pcap!HeadersAt(from) :
          /\ fpos' = IF start + h.len <= fileSize THEN start + h.len ELSE start
          /\ mapped' = IF start + h.len <= fileSize /\ h.len > BufMax
                       THEN Pcap!CheckAndMap(header.chunk, start + h.len)
                       ELSE payloadOf(h).chunk
          /\ stray' = (stray \/ ~header.mapped \/ ~payloadOf(h).mapped
                        \/ header.bytes # [i \in 1 .. Pcap!HeaderLen |-> from + i - 1]
                        \/ \E i \in DOMAIN payloadOf(h).bytes :
                             payloadOf(h).bytes[i] # start + i - 1)
    BY <1>4 DEF Pcap!ReadRecord
  <2> DEFINE payload == payloadOf(h)
  <2>2. h.len \in Nat
    BY <1>2, <2>1
  <2>3. header \in CopyType /\ header.chunk \in Int /\ header.mapped = TRUE
        /\ header.bytes = [i \in 1 .. Pcap!HeaderLen |-> from + i - 1]
    <3>1. Pcap!HeaderLen \in Nat /\ from + Pcap!HeaderLen <= fileSize
      BY <1>1, <1>2, <1>4
    <3> HIDE DEF from, chunk
    <3>2. header \in CopyType /\ header.mapped = TRUE
          /\ header.bytes = [i \in 1 .. Pcap!HeaderLen |-> from + i - 1]
      BY <1>1, <1>2, <3>1, CopiedWhole, ZenonT(30)
    <3> HIDE DEF header
    <3> QED
      BY <3>2 DEF CopyType
  <2>4. payload.chunk \in Int /\ payload.mapped = TRUE
        /\ \A i \in DOMAIN payload.bytes : payload.bytes[i] = start + i - 1
    <3>1. CASE h.len <= BufMax /\ start + h.len <= fileSize
      <4> DEFINE v == Pcap!Copied(header.chunk, start, h.len)
      <4> HIDE DEF header, start
      <4>1. v \in CopyType /\ v.mapped = TRUE /\ v.bytes = [i \in 1 .. h.len |-> start + i - 1]
        BY <1>1, <1>2, <2>2, <2>3, <3>1, CopiedWhole
      <4>2. payload = v
        BY <3>1
      <4> HIDE DEF v, payloadOf
      <4>3. v.chunk \in Int
        BY <4>1 DEF CopyType
      <4>4. \A i \in DOMAIN v.bytes : v.bytes[i] = start + i - 1
        BY <4>1
      <4> QED
        BY <4>1, <4>2, <4>3, <4>4
    <3>2. CASE ~(h.len <= BufMax /\ start + h.len <= fileSize)
      <4>1. payload = [header EXCEPT !.bytes = <<>>]
        BY <3>2
      <4> HIDE DEF header, payloadOf
      <4>3. payload.chunk = header.chunk /\ payload.bytes = <<>> /\ payload.mapped = header.mapped
        BY <2>3, <4>1 DEF CopyType
      <4> QED
        BY <2>3, <4>3
    <3> QED
      BY <3>1, <3>2
  <2>5. Pcap!CheckAndMap(header.chunk, start + h.len) \in Int
    <3> HIDE DEF header, start
    <3>1. start + h.len \in Nat
      BY <1>2, <2>2
    <3> QED
      BY <1>1, <2>3, <3>1, MappedAt
  <2>6. fpos' \in Nat
    <3> HIDE DEF start
    <3> QED
      BY <1>2, <2>1, <2>2
  <2> HIDE DEF header, payloadOf, start
  <2>7. mapped' \in Int
    BY <2>1, <2>4, <2>5
  <2>8. ~stray'
    <3> HIDE DEF from, payload
    <3>1. ~(\E i \in DOMAIN payload.bytes : payload.bytes[i] # start + i - 1)
      BY <2>4
    <3>2. stray' = (stray \/ ~header.mapped \/ ~payload.mapped
                      \/ header.bytes # [i \in 1 .. Pcap!HeaderLen |-> from + i - 1]
                      \/ \E i \in DOMAIN payload.bytes : payload.bytes[i] # start + i - 1)
      BY <2>1 DEF from, payload
    <3> QED
      BY <1>1, <2>3, <2>4, <3>1, <3>2
  <2> QED
    BY <2>6, <2>7, <2>8
<1> QED
  BY <1>3, <1>4

(* When little room is left, nothing of the TCP buffer is kept: all of it   *)
(* was handed on.                                                          *)
LEMMA BufferKept ==
  ASSUME tcp \in Seq(PacketType), dataIndex = Len(tcp)
  PROVE  Pcap!TcpKept \in Seq(PacketType) /\ Pcap!IndexKept = Len(Pcap!TcpKept)
<1>1. CASE Pcap!Crowded
  <2>1. SubSeq(tcp, Len(tcp) + 1, Len(tcp)) = <<>>
    OBVIOUS
  <2>2. Pcap!TcpKept = <<>> /\ Pcap!IndexKept = 0
    BY <1>1, <2>1 DEF Pcap!TcpKept, Pcap!IndexKept
  <2> QED
    BY <2>2
<1>2. CASE ~Pcap!Crowded
  BY <1>2 DEF Pcap!TcpKept, Pcap!IndexKept
<1> QED
  BY <1>1, <1>2

(* One packet, when there is one.                                          *)
LEMMA PacketsOfOne ==
  ASSUME records \in Recordings, NEW i \in 1 .. Len(records), records[i].packets <= 1
  PROVE  /\ records[i].kind \notin {"udp", "tcp"} => PacketsOf(i) = <<>>
         /\ records[i].kind \in {"udp", "tcp"} /\ records[i].len <= BufMax
              => PacketsOf(i) = <<Pcap!PacketOf(i, 1)>>
<1>1. /\ records[i].packets \in Nat /\ records[i].len \in Nat /\ BufMax \in Nat
      /\ records[i].packets > 0 <=> records[i].kind \in {"udp", "tcp"}
  BY RecordingTyped, ChunkSizes
<1>2. ASSUME records[i].kind \notin {"udp", "tcp"} PROVE PacketsOf(i) = <<>>
  <2>1. records[i].packets = 0
    BY <1>1, <1>2
  <2>2. [k \in 1 .. 0 |-> Pcap!PacketOf(i, k)] = <<>>
    OBVIOUS
  <2> QED
    BY <2>1, <2>2 DEF PacketsOf
<1>3. ASSUME records[i].kind \in {"udp", "tcp"}, records[i].len <= BufMax
      PROVE  PacketsOf(i) = <<Pcap!PacketOf(i, 1)>>
  <2>1. records[i].packets = 1
    BY <1>1, <1>3
  <2>2. [k \in 1 .. 1 |-> Pcap!PacketOf(i, k)] = <<Pcap!PacketOf(i, 1)>>
    OBVIOUS
  <2>3. ~(records[i].len > BufMax)
    BY <1>1, <1>3
  <2> QED
    BY <2>1, <2>2, <2>3 DEF PacketsOf
<1> QED
  BY <1>2, <1>3

(* The record that is read, when one is.                                   *)
LEMMA ReadsRecord ==
  ASSUME PcapInv, Simple, opened, ~Pcap!Ends
  PROVE  \E j \in 1 .. Len(records) + 1 :
           /\ Pcap!From = Pcap!RecordStart[j]
           /\ (IF Pcap!Restarts THEN <<>> ELSE got) = RecordedTo[j]
           /\ j = Len(records) + 1 => fileSize = 1 /\ Len(records) = 0
<1>1. records \in Recordings /\ fpos \in Nat /\ AtRecord /\ fileSize = Pcap!RecordStart[Len(records) + 1]
  BY DEF PcapInv, Simple
<1>2. /\ Len(records) \in Nat /\ Pcap!RecordStart \in [1 .. Len(records) + 1 -> Nat]
      /\ Pcap!RecordStart[1] = 1
  BY <1>1, RecordingTyped, StartsFollow
<1>3. PICK j \in 1 .. Len(records) + 1 : fpos = Pcap!RecordStart[j] /\ got = RecordedTo[j]
  BY <1>1 DEF AtRecord
<1>4. CASE Pcap!Restarts
  <2>1. Pcap!From = Pcap!RecordStart[1] /\ 1 \in 1 .. Len(records) + 1
    BY <1>2, <1>4 DEF Pcap!From, Pcap!BeginPos
  <2>2. RecordedTo[1] = <<>>
    BY <1>1, <2>1, RecordedGrows DEF RecordedTo
  <2>3. 1 = Len(records) + 1 => fileSize = 1 /\ Len(records) = 0
    BY <1>1, <1>2
  <2> QED
    BY <1>4, <2>1, <2>2, <2>3
<1>5. CASE ~Pcap!Restarts
  <2>1. ~(fpos >= fileSize)
    BY <1>5 DEF Pcap!Ends, Pcap!Restarts
  <2>2. j # Len(records) + 1
    <3>1. fileSize \in Nat
      BY <1>1, <1>2
    <3> QED
      BY <1>1, <1>3, <2>1, <3>1
  <2>3. Pcap!From = fpos
    BY <1>5 DEF Pcap!From
  <2> QED
    BY <1>3, <1>5, <2>2, <2>3
<1> QED
  BY <1>4, <1>5

(* Reading a record hands on what it holds.                                *)
LEMMA ReadIsExact ==
  ASSUME PcapInv, Simple, Pcap!ReadRecord
  PROVE  /\ tcp' \in Seq(PacketType) /\ dataIndex' = Len(tcp')
         /\ \E j \in 1 .. Len(records) + 1 : fpos' = Pcap!RecordStart[j] /\ got' = RecordedTo[j]
<1> DEFINE from == Pcap!From
           start == from + Pcap!HeaderLen
           before == IF Pcap!Restarts THEN <<>> ELSE got
           header == Pcap!Copied(Pcap!FromChunk, from, Pcap!HeaderLen)
           payloadOf(h) == IF h.len <= BufMax /\ start + h.len <= fileSize
                           THEN Pcap!Copied(header.chunk, start, h.len)
                           ELSE [header EXCEPT !.bytes = <<>>]
           foundIn(h) == IF payloadOf(h).bytes = <<>> THEN <<>>
                         ELSE [k \in 1 .. h.packets |-> Pcap!PacketOf(Pcap!RecordAt(from), k)]
<1>1. opened /\ ~Pcap!Ends
  BY DEF Pcap!ReadRecord
<1>2. PICK j \in 1 .. Len(records) + 1 :
        /\ from = Pcap!RecordStart[j] /\ before = RecordedTo[j]
        /\ j = Len(records) + 1 => fileSize = 1 /\ Len(records) = 0
  BY <1>1, ReadsRecord
<1>3. /\ records \in Recordings /\ fileSize \in Int /\ Pcap!HeaderLen = 2 /\ BufMax \in Nat
      /\ tcp \in Seq(PacketType) /\ dataIndex = Len(tcp)
      /\ fileSize = Pcap!RecordStart[Len(records) + 1]
      /\ \A i \in DOMAIN records : records[i].packets <= 1
  BY ChunkSizes DEF PcapInv, Simple, AtRecord
<1>4. /\ Len(records) \in Nat /\ DOMAIN records = 1 .. Len(records)
      /\ Pcap!RecordStart \in [1 .. Len(records) + 1 -> Nat] /\ Pcap!RecordStart[1] = 1
      /\ \A i \in 1 .. Len(records) :
           /\ Pcap!RecordStart[i + 1] = Pcap!RecordStart[i] + 2 + records[i].len
           /\ records[i].len \in Nat \ {0}
  BY <1>3, RecordingTyped, StartsFollow
<1>5. from \in Nat /\ Pcap!FromChunk \in Int
  BY ReadsFrom
<1>6. Pcap!TcpKept \in Seq(PacketType) /\ Pcap!IndexKept = Len(Pcap!TcpKept)
  BY <1>3, BufferKept
<1>7. CASE j = Len(records) + 1
  <2>1. from = 1 /\ start > fileSize /\ j = 1
    BY <1>2, <1>3, <1>4, <1>7
  <2>2. fpos' = from /\ tcp' = Pcap!TcpKept /\ dataIndex' = Pcap!IndexKept /\ got' = before
    BY <2>1 DEF Pcap!ReadRecord
  <2> QED
    BY <1>2, <1>6, <2>2
<1>8. CASE j \in 1 .. Len(records)
  <2>1. Pcap!RecordStart[j + 1] <= fileSize
    <3>1. j + 1 \in 1 .. Len(records) + 1 /\ (j + 1 = Len(records) + 1 \/ Len(records) + 1 \in (j + 1) + 1 .. Len(records) + 1)
      BY <1>4, <1>8
    <3>2. j + 1 = Len(records) + 1 \/ Pcap!RecordStart[j + 1] + 2 < Pcap!RecordStart[Len(records) + 1]
      BY <1>3, <3>1, StartsGrow
    <3>3. Pcap!RecordStart[j + 1] \in Nat
      BY <1>4, <3>1
    <3> QED
      BY <1>3, <3>2, <3>3
  <2>2. Pcap!HeadersAt(from) = {records[j]} /\ Pcap!RecordAt(from) = j
    BY <1>2, <1>3, <1>8, RecordFound
  <2>3. start + records[j].len = Pcap!RecordStart[j + 1] /\ start \in Nat /\ records[j].len \in Nat \ {0}
    BY <1>2, <1>3, <1>4, <1>5, <1>8
  <2>4. ~(start > fileSize) /\ start + records[j].len <= fileSize
    <3> HIDE DEF start
    <3> QED
      BY <1>3, <2>1, <2>3
  <2> DEFINE h == records[j]
             found == foundIn(h)
  <2>5. /\ fpos' = start + h.len
        /\ IF h.kind = "tcp" /\ found # <<>>
           THEN /\ tcp' = Pcap!TcpKept \o found /\ dataIndex' = Pcap!IndexKept + 1
                /\ got' = Append(before, found[1])
           ELSE /\ tcp' = Pcap!TcpKept /\ dataIndex' = Pcap!IndexKept
                /\ got' = IF h.kind = "udp" THEN before \o found ELSE before
    <3>1. \E g \in Pcap!HeadersAt(from) :
            /\ fpos' = IF start + g.len <= fileSize THEN start + g.len ELSE start
            /\ IF g.kind = "tcp" /\ foundIn(g) # <<>>
               THEN /\ tcp' = Pcap!TcpKept \o foundIn(g) /\ dataIndex' = Pcap!IndexKept + 1
                    /\ got' = Append(before, foundIn(g)[1])
               ELSE /\ tcp' = Pcap!TcpKept /\ dataIndex' = Pcap!IndexKept
                    /\ got' = IF g.kind = "udp" THEN before \o foundIn(g) ELSE before
      BY <2>4 DEF Pcap!ReadRecord
    <3> HIDE DEF foundIn, before, start
    <3> QED
      BY <2>2, <2>4, <3>1
  <2>6. found = PacketsOf(j)
    <3>1. CASE h.len <= BufMax
      <4>1. payloadOf(h).bytes = [i \in 1 .. h.len |-> start + i - 1]
        <5>1. header.chunk \in Int
          <6>1. Pcap!HeaderLen \in Nat /\ from + Pcap!HeaderLen <= fileSize
            BY <1>3, <1>5, <2>4
          <6> HIDE DEF from
          <6>2. header \in CopyType
            BY <1>3, <1>5, <6>1, CopiedWhole
          <6> HIDE DEF header
          <6> QED
            BY <6>2 DEF CopyType
        <5> HIDE DEF header, start
        <5>2. Pcap!Copied(header.chunk, start, h.len).bytes = [i \in 1 .. h.len |-> start + i - 1]
          <6>1. h.len \in Nat
            BY <2>3
          <6> QED
            BY <1>3, <2>3, <2>4, <5>1, <6>1, CopiedWhole, ZenonT(30)
        <5> QED
          BY <2>4, <3>1, <5>2
      <4> DEFINE b == payloadOf(h).bytes
      <4>2. b # <<>>
        <5> HIDE DEF payloadOf, start
        <5>1. DOMAIN b = 1 .. h.len /\ 1 \in 1 .. h.len
          BY <2>3, <4>1
        <5>2. DOMAIN <<>> = {}
          OBVIOUS
        <5> QED
          BY <5>1, <5>2
      <4>3. found = [k \in 1 .. h.packets |-> Pcap!PacketOf(j, k)]
        <5> HIDE DEF payloadOf, from
        <5> QED
          BY <2>2, <4>2
      <4> QED
        BY <1>3, <2>3, <3>1, <4>3 DEF PacketsOf
    <3>2. CASE ~(h.len <= BufMax)
      <4>1. payloadOf(h) = [header EXCEPT !.bytes = <<>>]
        BY <3>2
      <4>2. header \in CopyType
        <5>1. Pcap!HeaderLen \in Nat /\ from + Pcap!HeaderLen <= fileSize
          BY <1>3, <1>5, <2>4
        <5> HIDE DEF from
        <5> QED
          BY <1>3, <1>5, <5>1, CopiedWhole
      <4> HIDE DEF header, payloadOf
      <4>3. payloadOf(h).bytes = <<>>
        BY <4>1, <4>2 DEF CopyType
      <4>4. h.len > BufMax
        BY <1>3, <2>3, <3>2
      <4> QED
        BY <4>3, <4>4 DEF PacketsOf
    <3> QED
      BY <3>1, <3>2
  <2> HIDE DEF foundIn, found, before, start, from
  <2>7. RecordedTo[j + 1] = before \o PacketsOf(j) /\ before \in Seq(PacketType)
        /\ PacketsOf(j) \in Seq(PacketType) /\ j + 1 \in 1 .. Len(records) + 1
    <3>1. j \in 1 .. Len(records) + 1 /\ j + 1 \in 1 .. Len(records) + 1
      BY <1>4, <1>8
    <3> QED
      BY <1>2, <1>3, <1>8, <3>1, RecordedGrows, PacketsTyped DEF RecordedTo
  <2>8. fpos' = Pcap!RecordStart[j + 1]
    BY <2>3, <2>5
  <2>9. CASE h.kind = "tcp" /\ found # <<>>
    <3> DEFINE p == Pcap!PacketOf(j, 1)
    <3>1. h.len <= BufMax
      BY <1>3, <2>3, <2>6, <2>9 DEF PacketsOf
    <3>2. PacketsOf(j) = <<p>>
      BY <1>3, <1>4, <1>8, <2>9, <3>1, PacketsOfOne
    <3>3. p \in PacketType
      <4>1. <<p>>[1] = p /\ 1 \in 1 .. Len(<<p>>)
        OBVIOUS
      <4> QED
        BY <2>7, <3>2, <4>1, ElementOfSeq
    <3> HIDE DEF p
    <3>4. tcp' = Append(Pcap!TcpKept, p) /\ dataIndex' = Pcap!IndexKept + 1 /\ got' = Append(before, p)
      <4>1. Pcap!TcpKept \o <<p>> = Append(Pcap!TcpKept, p)
        BY <1>6, <3>3
      <4> QED
        BY <2>5, <2>6, <2>9, <3>2, <4>1
    <3>5. Append(before, p) = before \o <<p>>
      BY <2>7, <3>3
    <3>6. tcp' \in Seq(PacketType) /\ dataIndex' = Len(tcp')
      BY <1>6, <3>3, <3>4
    <3> QED
      BY <2>7, <2>8, <3>2, <3>4, <3>5, <3>6
  <2>10. CASE ~(h.kind = "tcp" /\ found # <<>>)
    <3>1. tcp' = Pcap!TcpKept /\ dataIndex' = Pcap!IndexKept
          /\ got' = IF h.kind = "udp" THEN before \o found ELSE before
      BY <2>5, <2>10
    <3>2. got' = before \o PacketsOf(j)
      <4>1. CASE h.kind = "udp"
        BY <2>6, <3>1, <4>1
      <4>2. CASE h.kind # "udp"
        <5>1. PacketsOf(j) = <<>>
          BY <1>3, <1>4, <1>8, <2>6, <2>10, <4>2, PacketsOfOne
        <5> QED
          BY <2>7, <3>1, <4>2, <5>1
      <4> QED
        BY <4>1, <4>2
    <3> QED
      BY <1>6, <2>7, <2>8, <3>1, <3>2
  <2> QED
    BY <2>9, <2>10
<1> QED
  BY <1>4, <1>7, <1>8

(* Every step of the reader keeps it so.                                   *)
LEMMA PcapKept ==
  ASSUME PcapInv, Pcap!Next PROVE PcapInv'
<1>1. /\ records \in Recordings /\ fileSize \in Int /\ mapped \in Int /\ fpos \in Nat /\ ~stray
      /\ Simple => AtRecord
  BY DEF PcapInv
<1>2. records' = records /\ fileSize' = fileSize
  BY DEF Pcap!Next, Pcap!Open, Pcap!Receive, Pcap!ReceiveBuffered, Pcap!ReachEnd, Pcap!ReadRecord
<1>3. Pcap!RecordStart' = Pcap!RecordStart /\ RecordedTo' = RecordedTo /\ Simple' = Simple
  <2>1. Pcap!RecordStart' = Pcap!RecordStart
    BY <1>2 DEF Pcap!RecordStart
  <2>2. RecordedTo' = RecordedTo
    BY <1>2, <2>1 DEF RecordedTo, Pcap!Recorded
  <2> QED
    BY <1>2, <2>1, <2>2 DEF Simple
<1>4. CASE Pcap!Open
  <2>1. /\ ~opened /\ opened' = TRUE /\ mapped' = 0 /\ fpos' = Pcap!BeginPos
        /\ UNCHANGED <<stray, tcp, dataIndex, got>>
    BY <1>4 DEF Pcap!Open
  <2>2. Pcap!BeginPos = 1 /\ 1 \in 1 .. Len(records) + 1 /\ Pcap!RecordStart[1] = 1
    BY <1>1, RecordingTyped, StartsFollow DEF Pcap!BeginPos
  <2>3. RecordedTo[1] = <<>>
    BY <1>1, <2>2, RecordedGrows DEF RecordedTo
  <2>4. Simple => AtRecord'
    BY <1>1, <1>2, <1>3, <2>1, <2>2, <2>3 DEF AtRecord
  <2> QED
    BY <1>1, <1>2, <1>3, <2>1, <2>2, <2>4 DEF PcapInv
<1>5. CASE Pcap!ReceiveBuffered
  <2>1. /\ dataIndex < Len(tcp)
        /\ UNCHANGED <<mapped, fpos, stray>>
    BY <1>5 DEF Pcap!ReceiveBuffered
  <2>2. ~Simple
    <3> SUFFICES ASSUME Simple PROVE FALSE
      OBVIOUS
    <3>1. tcp \in Seq(PacketType) /\ dataIndex = Len(tcp)
      BY <1>1 DEF AtRecord
    <3>2. Len(tcp) \in Nat
      BY <3>1
    <3> QED
      BY <2>1, <3>1, <3>2
  <2> QED
    BY <1>1, <1>2, <1>3, <2>1, <2>2 DEF PcapInv
<1>6. CASE Pcap!ReachEnd
  <2>1. UNCHANGED <<opened, mapped, fpos, stray, tcp, dataIndex, got>>
    BY <1>6 DEF Pcap!ReachEnd
  <2>2. Simple => AtRecord'
    BY <1>1, <1>2, <1>3, <2>1 DEF AtRecord
  <2> QED
    BY <1>1, <1>2, <1>3, <2>1, <2>2 DEF PcapInv
<1>7. CASE Pcap!ReadRecord
  <2>1. opened /\ opened' = opened
    BY <1>7 DEF Pcap!ReadRecord
  <2>2. mapped' \in Int /\ fpos' \in Nat /\ ~stray'
    BY <1>7, ReadIsMapped
  <2>3. Simple => AtRecord'
    BY <1>2, <1>3, <1>7, <2>1, ReadIsExact DEF AtRecord
  <2> QED
    BY <1>1, <1>2, <1>3, <2>2, <2>3 DEF PcapInv
<1> QED
  BY <1>4, <1>5, <1>6, <1>7 DEF Pcap!Next, Pcap!Receive

LEMMA PlaybackFollows ==
  ASSUME PcapInv PROVE Pcap!PlaybackExact
<1>1. records \in Recordings /\ ~stray /\ (Simple => AtRecord)
  BY DEF PcapInv
<1> SUFFICES ASSUME Simple, fpos >= Pcap!BeginPos PROVE got = Pcap!Recorded(fpos)
  BY <1>1 DEF Pcap!PlaybackExact, Simple
<1>2. Pcap!BeginPos = 1
  BY <1>1, StartsFollow DEF Pcap!BeginPos
<1>3. opened
  BY <1>1, <1>2 DEF AtRecord
<1>4. PICK j \in 1 .. Len(records) + 1 : fpos = Pcap!RecordStart[j] /\ got = RecordedTo[j]
  BY <1>1, <1>3 DEF AtRecord
<1> QED
  BY <1>4 DEF RecordedTo

(* Every byte is read through the chunk that holds it, and a whole          *)
(* recording of single packets is played back exactly, each packet once and *)
(* in order, in every loop (PlaybackExact of PcapSource's read and next):   *)
(* for any recordings, chunk sizes and payload bounds.                      *)
THEOREM PlaybackIsExact == Spec => []PlaybackExact
<1> DEFINE Inv == part = "pcap" => PcapInv
<1>1. Init => Inv
  BY PcapStarts DEF Init
<1>2. Inv /\ [Next]_vars => Inv'
  <2> SUFFICES ASSUME Inv, [Next]_vars, (part = "pcap")' PROVE PcapInv'
    OBVIOUS
  <2>1. part = "pcap" /\ PcapInv
    BY DEF Next, OfSerial, OfTcp, OfPcap, OfDecoder, OfClouds, vars
  <2>2. CASE OfPcap(Pcap!Next)
    <3>1. Pcap!Next
      BY <2>2 DEF OfPcap
    <3> QED
      BY <2>1, <3>1, PcapKept
  <2>3. CASE UNCHANGED vars
    <3>1. UNCHANGED <<records, fileSize, opened, mapped, fpos, stray, tcp, dataIndex, got>>
      BY <2>3 DEF vars, varsPcap, varsIndex, varsGot
    <3>2. Pcap!RecordStart' = Pcap!RecordStart
      BY <3>1 DEF Pcap!RecordStart
    <3>3. RecordedTo' = RecordedTo
      BY <3>1, <3>2 DEF RecordedTo, Pcap!Recorded
    <3>4. Simple' = Simple /\ (AtRecord => AtRecord')
      BY <3>1, <3>2, <3>3 DEF Simple, AtRecord
    <3> QED
      BY <2>1, <3>1, <3>4 DEF PcapInv
  <2> QED
    BY <2>1, <2>2, <2>3 DEF Next, OfSerial, OfTcp, OfDecoder, OfClouds
<1>3. Inv => PlaybackExact
  BY PlaybackFollows DEF PlaybackExact
<1> QED
  BY <1>1, <1>2, <1>3, PTL DEF Spec

-----------------------------------------------------------------------------
(* SerialStream.  What the parts up to the n-th make, one after the other.  *)
Parts(P, n) == Clouds!FlattenSeq([m \in 1 .. n |-> P[m]])

LEMMA PartsFollow ==
  ASSUME NEW S, NEW M \in Nat, NEW P \in [1 .. M -> Seq(S)]
  PROVE  /\ Parts(P, 0) = <<>>
         /\ \A n \in 0 .. M : Parts(P, n) \in Seq(S)
         /\ \A n \in 1 .. M : Parts(P, n) = Parts(P, n - 1) \o P[n]
<1> DEFINE Q(n) == [m \in 1 .. n |-> P[m]]
<1>1. \A n \in 0 .. M : Q(n) \in Seq(Seq(S))
  OBVIOUS
<1>2. Parts(P, 0) = <<>>
  <2>1. Q(0) = <<>>
    OBVIOUS
  <2>2. Clouds!FlattenSeq(<<>>) = <<>>
    BY DEF Clouds!FlattenSeq
  <2> QED
    BY <2>1, <2>2 DEF Parts
<1>3. ASSUME NEW n \in 0 .. M PROVE Parts(P, n) \in Seq(S)
  <2> HIDE DEF Q
  <2>1. Clouds!FlattenSeq(Q(n)) \in Seq(S)
    <3>1. <<>> \in Seq(S)
      OBVIOUS
    <3> QED
      BY <1>1, <3>1, FlatGrows
  <2> QED
    BY <2>1 DEF Parts, Q
<1>4. ASSUME NEW n \in 1 .. M PROVE Parts(P, n) = Parts(P, n - 1) \o P[n]
  <2>1. Q(n) = Append(Q(n - 1), P[n])
    <3> DEFINE a == Q(n)
               b == Append(Q(n - 1), P[n])
    <3>1. a \in Seq(Seq(S)) /\ b \in Seq(Seq(S)) /\ Len(a) = n /\ Len(b) = n
      OBVIOUS
    <3>2. ASSUME NEW i \in 1 .. n PROVE a[i] = b[i]
      <4>1. CASE i = n
        BY <4>1
      <4>2. CASE i # n
        BY <4>2
      <4> QED
        BY <4>1, <4>2
    <3> HIDE DEF a, b
    <3>3. a = b
      BY <3>1, <3>2
    <3> QED
      BY <3>3 DEF a, b
  <2>2. n - 1 \in 0 .. M /\ P[n] \in Seq(S)
    OBVIOUS
  <2>3. Q(n - 1) \in Seq(Seq(S))
    BY <1>1, <2>2
  <2> HIDE DEF Q
  <2>4. Clouds!FlattenSeq(Append(Q(n - 1), P[n])) = Clouds!FlattenSeq(Q(n - 1)) \o P[n]
    BY <2>2, <2>3, FlatGrows
  <2> QED
    BY <2>1, <2>4 DEF Parts, Q
<1> QED
  BY <1>2, <1>3, <1>4

(* What is there stays in front of what follows.                           *)
StartsAs(t, s) == Len(s) <= Len(t) /\ \A i \in 1 .. Len(s) : t[i] = s[i]

LEMMA PartsStay ==
  ASSUME NEW S, NEW M \in Nat, NEW P \in [1 .. M -> Seq(S)], NEW n \in 0 .. M, NEW k \in n .. M
  PROVE  StartsAs(Parts(P, k), Parts(P, n))
<1> DEFINE F(j) == Parts(P, j)
           T == {j \in 0 .. M - n : StartsAs(F(n + j), F(n))}
<1>1. /\ \A j \in 0 .. M : F(j) \in Seq(S)
      /\ \A j \in 1 .. M : F(j) = F(j - 1) \o P[j]
  BY PartsFollow
<1> HIDE DEF F
<1>2. M - n \in Nat
  OBVIOUS
<1>3. 0 \in T
  <2>1. StartsAs(F(n), F(n)) /\ n + 0 = n
    BY <1>1 DEF StartsAs
  <2> QED
    BY <1>2, <2>1
<1>4. ASSUME NEW j \in 1 .. M - n, j - 1 \in T PROVE j \in T
  <2> DEFINE a == F(n)
             b == F(n + j - 1)
             c == P[n + j]
  <2>1. n + j \in 1 .. M /\ n + j - 1 \in 0 .. M /\ n + (j - 1) = n + j - 1
    BY <1>2
  <2>2. F(n + j) = b \o c /\ b \in Seq(S) /\ c \in Seq(S) /\ a \in Seq(S)
    BY <1>1, <2>1
  <2>3. StartsAs(b, a)
    BY <1>4, <2>1
  <2> HIDE DEF a, b, c
  <2>4. StartsAs(b \o c, a)
    <3>1. Len(b \o c) = Len(b) + Len(c) /\ \A i \in 1 .. Len(b) : (b \o c)[i] = b[i]
      BY <2>2
    <3>2. Len(a) \in Nat /\ Len(b) \in Nat /\ Len(c) \in Nat
      BY <2>2
    <3> QED
      BY <2>3, <3>1, <3>2 DEF StartsAs
  <2>5. StartsAs(F(n + j), F(n))
    BY <2>2, <2>4 DEF a
  <2> QED
    BY <1>2, <2>5
<1> HIDE DEF T
<1>5. 0 .. M - n \subseteq T
  BY <1>2, <1>3, <1>4, UpTo
<1>6. k - n \in T
  BY <1>2, <1>5
<1>7. n + (k - n) = k
  OBVIOUS
<1> QED
  BY <1>6, <1>7 DEF T, F

(* The lidar's messages on the serial line.                                *)
Size(m) == Len(Serial!Units[messages[m]])
Known == Len(messages)
UnitType == [m : Nat, k : Nat]

LEMMA MessageTyped ==
  ASSUME messages \in Lines
  PROVE  /\ Known \in Nat /\ DOMAIN messages = 1 .. Known
         /\ \A m \in 1 .. Known :
              /\ messages[m] \in {"point", "fault", "ack"}
              /\ Size(m) = IF messages[m] = "point" THEN 4 ELSE 3
              /\ Serial!Message(m) \in Seq(UnitType) /\ Len(Serial!Message(m)) = Size(m)
              /\ \A k \in 1 .. Size(m) : Serial!Message(m)[k] = [m |-> m, k |-> k]
<1>1. DOMAIN Serial!Units = {"point", "fault", "ack"}
  BY DEF Serial!Units
<1>2. messages \in Seq(DOMAIN Serial!Units)
  BY SerialParameters DEF Serial!SerialAssumption
<1>3. Known \in Nat /\ DOMAIN messages = 1 .. Known
      /\ \A m \in 1 .. Known : messages[m] \in {"point", "fault", "ack"}
  BY <1>1, <1>2 DEF Known
<1>4. ASSUME NEW m \in 1 .. Known
      PROVE  /\ Size(m) = IF messages[m] = "point" THEN 4 ELSE 3
             /\ DOMAIN Serial!Units[messages[m]] = 1 .. Size(m)
  <2>1. CASE messages[m] = "point"
    BY <2>1 DEF Size, Serial!Units
  <2>2. CASE messages[m] = "fault"
    BY <2>2 DEF Size, Serial!Units
  <2>3. CASE messages[m] = "ack"
    BY <2>3 DEF Size, Serial!Units
  <2> QED
    BY <1>3, <2>1, <2>2, <2>3
<1>5. ASSUME NEW m \in 1 .. Known
      PROVE  /\ Serial!Message(m) \in Seq(UnitType) /\ Len(Serial!Message(m)) = Size(m)
             /\ \A k \in 1 .. Size(m) : Serial!Message(m)[k] = [m |-> m, k |-> k]
  <2>1. Serial!Message(m) = [k \in 1 .. Size(m) |-> [m |-> m, k |-> k]]
    BY <1>4 DEF Serial!Message
  <2>2. Size(m) \in Nat /\ m \in Nat
    BY <1>3, <1>4
  <2>3. \A k \in 1 .. Size(m) : [m |-> m, k |-> k] \in UnitType
    BY <2>2 DEF UnitType
  <2> QED
    BY <2>1, <2>2, <2>3
<1> QED
  BY <1>3, <1>4, <1>5

(* The kinds of their units.                                               *)
LEMMA UnitKinds ==
  ASSUME messages \in Lines, NEW m \in 1 .. Known, NEW k \in 1 .. Size(m), NEW u,
         u = [m |-> m, k |-> k]
  PROVE  /\ Serial!What(u) = "LDACK" <=> messages[m] = "ack" /\ k = 1
         /\ Serial!What(u) = "EEFF" <=> \/ messages[m] # "ack" /\ k = 1
                                        \/ messages[m] = "ack" /\ k = 3
         /\ Serial!What(u) = "points" <=> messages[m] = "point" /\ k = 2
         /\ Serial!What(u) = "fault" <=> messages[m] = "fault" /\ k = 2
<1>1. messages[m] \in {"point", "fault", "ack"} /\ Size(m) = IF messages[m] = "point" THEN 4 ELSE 3
  BY MessageTyped
<1>2. Serial!What(u) = Serial!Units[messages[m]][k]
  BY DEF Serial!What
<1>3. CASE messages[m] = "point"
  <2>1. Serial!What(u) = <<"EEFF", "points", "rest", "rest">>[k]
    BY <1>2, <1>3 DEF Serial!Units
  <2>2. k \in 1 .. 4
    BY <1>1, <1>3
  <2> QED
    BY <1>3, <2>1, <2>2
<1>4. CASE messages[m] = "fault"
  <2>1. Serial!What(u) = <<"EEFF", "fault", "rest">>[k]
    BY <1>2, <1>4 DEF Serial!Units
  <2>2. k \in 1 .. 3
    BY <1>1, <1>4
  <2> QED
    BY <1>4, <2>1, <2>2
<1>5. CASE messages[m] = "ack"
  <2>1. Serial!What(u) = <<"LDACK", "rest", "EEFF">>[k]
    BY <1>2, <1>5 DEF Serial!Units
  <2>2. k \in 1 .. 3
    BY <1>1, <1>5
  <2> QED
    BY <1>5, <2>1, <2>2
<1> QED
  BY <1>1, <1>3, <1>4, <1>5

(* Where the n-th message ends in what the lidar sends.                    *)
MessageOf == [m \in 1 .. Known |-> Serial!Message(m)]
End(n) == Len(Parts(MessageOf, n))

LEMMA SentLaid ==
  ASSUME messages \in Lines
  PROVE  /\ Serial!Sent \in Seq(UnitType) /\ Len(Serial!Sent) = End(Known) /\ End(0) = 0
         /\ \A n \in 0 .. Known : End(n) \in Nat
         /\ \A n \in 1 .. Known :
              /\ Size(n) \in {3, 4} /\ End(n) = End(n - 1) + Size(n) /\ End(n) <= End(Known)
              /\ \A k \in 1 .. Size(n) : Serial!Sent[End(n - 1) + k] = [m |-> n, k |-> k]
<1> DEFINE P == MessageOf
<1>1. /\ Known \in Nat /\ DOMAIN messages = 1 .. Known
      /\ \A m \in 1 .. Known :
           /\ Size(m) \in {3, 4} /\ Serial!Message(m) \in Seq(UnitType)
           /\ Len(Serial!Message(m)) = Size(m)
           /\ \A k \in 1 .. Size(m) : Serial!Message(m)[k] = [m |-> m, k |-> k]
  BY MessageTyped
<1>2. P \in [1 .. Known -> Seq(UnitType)] /\ \A m \in 1 .. Known : P[m] = Serial!Message(m)
  BY <1>1 DEF MessageOf
<1>3. Serial!Sent = Parts(P, Known)
  <2>1. [m \in 1 .. Known |-> P[m]] = [m \in DOMAIN messages |-> Serial!Message(m)]
    BY <1>1, <1>2
  <2>2. Parts(P, Known) = Serial!FlattenSeq([m \in DOMAIN messages |-> Serial!Message(m)])
    <3>1. Clouds!FlattenSeq([m \in DOMAIN messages |-> Serial!Message(m)])
            = Serial!FlattenSeq([m \in DOMAIN messages |-> Serial!Message(m)])
      BY DEF Clouds!FlattenSeq, Serial!FlattenSeq
    <3> HIDE DEF P
    <3> QED
      BY <2>1, <3>1 DEF Parts
  <2> QED
    BY <2>2 DEF Serial!Sent
<1> HIDE DEF P
<1>4. /\ Parts(P, 0) = <<>>
      /\ \A n \in 0 .. Known : Parts(P, n) \in Seq(UnitType)
      /\ \A n \in 1 .. Known : Parts(P, n) = Parts(P, n - 1) \o P[n]
  <2>1. Known \in Nat
    BY <1>1
  <2> QED
    BY <1>2, <2>1, PartsFollow
<1>5. \A n \in 0 .. Known : End(n) = Len(Parts(P, n)) /\ End(n) \in Nat
  <2>1. \A n \in 0 .. Known : Len(Parts(P, n)) \in Nat
    BY <1>4
  <2> QED
    BY <2>1 DEF End, P
<1>6. Serial!Sent \in Seq(UnitType) /\ Len(Serial!Sent) = End(Known) /\ End(0) = 0
  BY <1>1, <1>3, <1>4, <1>5
<1>7. ASSUME NEW n \in 1 .. Known
      PROVE  /\ End(n) = End(n - 1) + Size(n) /\ End(n) <= End(Known)
             /\ \A k \in 1 .. Size(n) : Serial!Sent[End(n - 1) + k] = [m |-> n, k |-> k]
  <2> DEFINE a == Parts(P, n - 1)
             b == Parts(P, n)
  <2>1. n - 1 \in 0 .. Known /\ n \in 0 .. Known /\ Known \in n .. Known
    BY <1>1
  <2>2. a \in Seq(UnitType) /\ P[n] \in Seq(UnitType) /\ b = a \o P[n] /\ Len(P[n]) = Size(n)
        /\ Len(a) = End(n - 1) /\ Len(b) = End(n)
    BY <1>1, <1>2, <1>4, <1>5, <2>1
  <2>3. StartsAs(Serial!Sent, b)
    BY <1>1, <1>2, <1>3, <2>1, PartsStay
  <2> HIDE DEF a, b
  <2>4. Size(n) \in Nat /\ End(n - 1) \in Nat
    BY <1>1, <1>5, <2>1
  <2>5. Len(b) = Len(a) + Size(n) /\ \A k \in 1 .. Size(n) : b[Len(a) + k] = P[n][k]
    <3> DEFINE c == P[n]
    <3>1. c \in Seq(UnitType) /\ Len(c) = Size(n) /\ b = a \o c /\ a \in Seq(UnitType)
      BY <2>2
    <3> HIDE DEF c
    <3>2. Len(b) = Len(a) + Size(n)
      BY <3>1, ConcatProperties
    <3>3. \A k \in 1 .. Size(n) : b[Len(a) + k] = c[k]
      BY <3>1, ConcatProperties
    <3> QED
      BY <3>2, <3>3 DEF c
  <2>6. ASSUME NEW k \in 1 .. Size(n) PROVE Serial!Sent[End(n - 1) + k] = [m |-> n, k |-> k]
    <3>1. End(n - 1) + k \in 1 .. Len(b)
      BY <2>2, <2>4, <2>5
    <3>2. Serial!Sent[End(n - 1) + k] = b[End(n - 1) + k]
      BY <2>3, <3>1 DEF StartsAs
    <3>3. b[End(n - 1) + k] = P[n][k]
      BY <2>2, <2>5
    <3>4. P[n][k] = [m |-> n, k |-> k]
      BY <1>1, <1>2
    <3> QED
      BY <3>2, <3>3, <3>4
  <2>7. End(n) <= End(Known)
    BY <1>6, <2>2, <2>3 DEF StartsAs
  <2> QED
    BY <2>2, <2>5, <2>6, <2>7
<1> QED
  BY <1>1, <1>5, <1>6, <1>7

LEMMA EndsGrow ==
  ASSUME messages \in Lines, NEW n \in 0 .. Known, NEW j \in n .. Known
  PROVE  End(n) <= End(j)
<1>1. Known \in Nat /\ \A m \in 1 .. Known : Serial!Message(m) \in Seq(UnitType)
  BY MessageTyped
<1>2. MessageOf \in [1 .. Known -> Seq(UnitType)]
  BY <1>1 DEF MessageOf
<1>3. StartsAs(Parts(MessageOf, j), Parts(MessageOf, n))
  BY <1>1, <1>2, PartsStay
<1> QED
  BY <1>3 DEF End, StartsAs

(* Every unit is one of a message.                                         *)
IsUnit(i, n, k) ==
  /\ n \in 1 .. Known /\ k \in 1 .. Size(n)
  /\ i = End(n - 1) + k /\ Serial!Sent[i] = [m |-> n, k |-> k]

LEMMA UnitFound ==
  ASSUME messages \in Lines, NEW i \in 1 .. Len(Serial!Sent)
  PROVE  \E n, k : IsUnit(i, n, k)
<1> DEFINE P(x) == \E n \in 1 .. Known : \E k \in 1 .. Size(n) : x = End(n - 1) + k
           T == {j \in 0 .. Known : \A x \in 1 .. End(j) : P(x)}
<1>1. /\ Known \in Nat /\ Len(Serial!Sent) = End(Known) /\ End(0) = 0
      /\ \A n \in 0 .. Known : End(n) \in Nat
      /\ \A n \in 1 .. Known : Size(n) \in Nat /\ End(n) = End(n - 1) + Size(n)
      /\ \A n \in 1 .. Known : \A k \in 1 .. Size(n) : Serial!Sent[End(n - 1) + k] = [m |-> n, k |-> k]
  BY SentLaid, MessageTyped
<1>2. 0 \in T
  BY <1>1
<1>3. ASSUME NEW j \in 1 .. Known, j - 1 \in T PROVE j \in T
  <2>1. j - 1 \in 0 .. Known /\ End(j - 1) \in Nat /\ Size(j) \in Nat /\ End(j) = End(j - 1) + Size(j)
    BY <1>1
  <2>2. ASSUME NEW x \in 1 .. End(j) PROVE P(x)
    <3>1. CASE x <= End(j - 1)
      BY <1>3, <2>1, <3>1
    <3>2. CASE ~(x <= End(j - 1))
      <4>1. x - End(j - 1) \in 1 .. Size(j) /\ x = End(j - 1) + (x - End(j - 1))
        BY <2>1, <3>2
      <4> QED
        BY <4>1
    <3> QED
      BY <3>1, <3>2
  <2> HIDE DEF P
  <2> QED
    BY <2>2
<1> HIDE DEF T
<1>4. Known \in T
  <2>1. 0 .. Known \subseteq T
    BY <1>1, <1>2, <1>3, UpTo
  <2> QED
    BY <1>1, <2>1
<1>5. P(i)
  <2> HIDE DEF P
  <2> QED
    BY <1>1, <1>4 DEF T
<1>6. PICK n \in 1 .. Known : \E k \in 1 .. Size(n) : i = End(n - 1) + k
  BY <1>5
<1>7. PICK k \in 1 .. Size(n) : i = End(n - 1) + k
  BY <1>6
<1>8. IsUnit(i, n, k)
  BY <1>1, <1>7 DEF IsUnit
<1> QED
  BY <1>8

LEMMA UnitsPrecede ==
  ASSUME NEW e \in Nat, NEW f \in Nat, NEW s \in Nat, NEW t \in Nat, e + s <= f,
         NEW k \in 1 .. s, NEW l \in 1 .. t
  PROVE  e + k < f + l
OBVIOUS

(* Units are sent in the order of their messages.                          *)
LEMMA SentRises ==
  ASSUME messages \in Lines, NEW i \in 1 .. Len(Serial!Sent), NEW j \in 1 .. Len(Serial!Sent)
  PROVE  i < j <=> Serial!Before(Serial!Sent[i], Serial!Sent[j])
<1>1. \E n, k : IsUnit(i, n, k)
  BY UnitFound
<1>2. \E q, l : IsUnit(j, q, l)
  BY UnitFound
<1>9. PICK n, k, q, l : IsUnit(i, n, k) /\ IsUnit(j, q, l)
  BY <1>1, <1>2
<1>10. /\ n \in 1 .. Known /\ k \in 1 .. Size(n)
       /\ i = End(n - 1) + k /\ Serial!Sent[i] = [m |-> n, k |-> k]
       /\ q \in 1 .. Known /\ l \in 1 .. Size(q)
       /\ j = End(q - 1) + l /\ Serial!Sent[j] = [m |-> q, k |-> l]
  BY <1>9 DEF IsUnit
<1>3. Serial!Before(Serial!Sent[i], Serial!Sent[j]) <=> n < q \/ (n = q /\ k < l)
  BY <1>10 DEF Serial!Before
<1>11. i \in Nat /\ j \in Nat /\ n \in Nat /\ q \in Nat /\ k \in Nat /\ l \in Nat
  <2>1. Known \in Nat /\ Len(Serial!Sent) \in Nat /\ Size(n) \in Nat /\ Size(q) \in Nat
    BY <1>10, SentLaid, MessageTyped
  <2> QED
    BY <1>10, <2>1
<1>4. /\ Known \in Nat
      /\ \A x \in 1 .. Known : x - 1 \in 0 .. Known /\ End(x - 1) \in Nat /\ Size(x) \in Nat
                               /\ End(x) = End(x - 1) + Size(x) /\ End(x) \in Nat
  BY SentLaid, MessageTyped
<1>5. ASSUME NEW x \in 1 .. Known, NEW y \in 1 .. Known, x < y PROVE End(x) <= End(y - 1)
  <2>1. x \in 0 .. Known /\ y - 1 \in x .. Known
    BY <1>4, <1>5
  <2> QED
    BY <2>1, EndsGrow
<1>12. /\ End(n - 1) \in Nat /\ Size(n) \in Nat /\ End(n) = End(n - 1) + Size(n)
       /\ End(q - 1) \in Nat /\ Size(q) \in Nat /\ End(q) = End(q - 1) + Size(q)
       /\ k \in 1 .. Size(n) /\ l \in 1 .. Size(q) /\ i = End(n - 1) + k /\ j = End(q - 1) + l
  BY <1>4, <1>10
<1>6. CASE n < q
  <2>1. End(n) <= End(q - 1)
    BY <1>5, <1>6, <1>10
  <2>2. i < j
    <3> DEFINE e == End(n - 1)
               f == End(q - 1)
               s == Size(n)
               t == Size(q)
    <3>1. /\ e \in Nat /\ f \in Nat /\ s \in Nat /\ t \in Nat /\ e + s <= f
          /\ k \in 1 .. s /\ l \in 1 .. t /\ i = e + k /\ j = f + l
      BY <1>12, <2>1
    <3> HIDE DEF e, f, s, t
    <3> QED
      BY <3>1, UnitsPrecede
  <2> QED
    BY <1>3, <1>6, <2>2
<1>7. CASE q < n
  <2>1. End(q) <= End(n - 1)
    BY <1>5, <1>7, <1>10
  <2>2. j < i
    <3> DEFINE e == End(q - 1)
               f == End(n - 1)
               s == Size(q)
               t == Size(n)
    <3>1. /\ e \in Nat /\ f \in Nat /\ s \in Nat /\ t \in Nat /\ e + s <= f
          /\ l \in 1 .. s /\ k \in 1 .. t /\ j = e + l /\ i = f + k
      BY <1>12, <2>1
    <3> HIDE DEF e, f, s, t
    <3> QED
      BY <3>1, UnitsPrecede
  <2> QED
    BY <1>3, <1>7, <1>11, <2>2
<1>8. CASE n = q
  <2>1. i < j <=> k < l
    BY <1>8, <1>11, <1>12
  <2> QED
    BY <1>3, <1>8, <1>11, <2>1
<1> QED
  BY <1>6, <1>7, <1>8, <1>11

(* The place of a unit in what is sent.                                    *)
Place ==
  [u \in {Serial!Sent[i] : i \in 1 .. Len(Serial!Sent)} |->
     CHOOSE i \in 1 .. Len(Serial!Sent) : Serial!Sent[i] = u]

LEMMA PlaceIs ==
  ASSUME messages \in Lines, NEW i \in 1 .. Len(Serial!Sent)
  PROVE  Place[Serial!Sent[i]] = i
<1> DEFINE P(j) == j \in 1 .. Len(Serial!Sent) /\ Serial!Sent[j] = Serial!Sent[i]
<1>1. ASSUME NEW j, P(j) PROVE j = i
  <2>1. i < j <=> Serial!Before(Serial!Sent[i], Serial!Sent[j])
    BY <1>1, SentRises
  <2>2. j < i <=> Serial!Before(Serial!Sent[j], Serial!Sent[i])
    BY <1>1, SentRises
  <2>3. i < i <=> Serial!Before(Serial!Sent[i], Serial!Sent[i])
    BY SentRises
  <2>4. Len(Serial!Sent) \in Nat
    BY SentLaid
  <2> QED
    BY <1>1, <2>1, <2>2, <2>3, <2>4
<1>2. P(i)
  OBVIOUS
<1>3. (CHOOSE j : P(j)) = i
  <2> HIDE DEF P
  <2> QED
    BY <1>1, <1>2
<1> QED
  BY <1>3 DEF Place

(* What has come when s units were sent.                                   *)
CameBy(s) == {Serial!Sent[i] : i \in 1 .. s}

LEMMA CameIs ==
  ASSUME messages \in Lines, NEW s \in 0 .. Len(Serial!Sent), NEW u \in CameBy(s)
  PROVE  Place[u] \in 1 .. s /\ Serial!Sent[Place[u]] = u
<1>1. PICK i \in 1 .. s : u = Serial!Sent[i]
  BY DEF CameBy
<1>2. i \in 1 .. Len(Serial!Sent)
  BY SentLaid
<1> QED
  BY <1>1, <1>2, PlaceIs

(* Units in the order they were sent, and with no gap but what was lost.    *)
Rises(q) == \A i, j \in 1 .. Len(q) : i < j => Place[q[i]] < Place[q[j]]
LostBetween(a, b, lost) == \A i \in a + 1 .. b - 1 : Serial!Sent[i] \in lost
Unbroken(q, lost) == \A i \in 1 .. Len(q) - 1 : LostBetween(Place[q[i]], Place[q[i + 1]], lost)

(* What waits when s units were sent, but for those that were lost.         *)
Waits(q, s, lost) ==
  /\ q \in Seq(CameBy(s)) /\ Rises(q) /\ Unbroken(q, lost)
  /\ q # <<>> => LostBetween(Place[q[Len(q)]], s + 1, lost)

LEMMA NothingWaits ==
  ASSUME NEW s, NEW lost PROVE Waits(<<>>, s, lost)
BY DEF Waits, Rises, Unbroken

LEMMA OneMoreWaits ==
  ASSUME messages \in Lines, NEW s \in Nat, s + 1 <= Len(Serial!Sent), NEW lost, NEW q, Waits(q, s, lost)
  PROVE  Waits(Append(q, Serial!Sent[s + 1]), s + 1, lost)
<1> DEFINE u == Serial!Sent[s + 1]
           r == Append(q, u)
           n == Len(q)
<1>1. s \in 0 .. Len(Serial!Sent) /\ s + 1 \in 1 .. Len(Serial!Sent) /\ Len(Serial!Sent) \in Nat
  BY SentLaid
<1>2. Place[u] = s + 1 /\ u \in CameBy(s + 1) /\ CameBy(s) \subseteq CameBy(s + 1)
  BY <1>1, PlaceIs DEF CameBy
<1>3. q \in Seq(CameBy(s)) /\ Rises(q) /\ Unbroken(q, lost)
      /\ (q # <<>> => LostBetween(Place[q[n]], s + 1, lost))
  BY DEF Waits
<1> HIDE DEF u
<1>4. n \in Nat /\ \A i \in 1 .. n : q[i] \in CameBy(s)
  BY <1>3
<1>5. \A i \in 1 .. n : Place[q[i]] \in 1 .. s
  BY <1>1, <1>4, CameIs
<1>6. r \in Seq(CameBy(s + 1)) /\ Len(r) = n + 1 /\ r[n + 1] = u /\ \A i \in 1 .. n : r[i] = q[i]
  <2>1. q \in Seq(CameBy(s + 1))
    BY <1>2, <1>3, <1>4
  <2> QED
    BY <1>2, <2>1
<1> HIDE DEF r
<1>7. Rises(r)
  <2> SUFFICES ASSUME NEW i \in 1 .. n + 1, NEW j \in 1 .. n + 1, i < j PROVE Place[r[i]] < Place[r[j]]
    BY <1>6 DEF Rises
  <2>1. i \in 1 .. n /\ r[i] = q[i]
    BY <1>4, <1>6
  <2>2. CASE j = n + 1
    BY <1>1, <1>2, <1>5, <1>6, <2>1, <2>2
  <2>3. CASE j # n + 1
    <3>1. j \in 1 .. n /\ r[j] = q[j]
      BY <1>4, <1>6, <2>3
    <3> QED
      BY <1>3, <2>1, <3>1 DEF Rises
  <2> QED
    BY <2>2, <2>3
<1>8. Unbroken(r, lost)
  <2> SUFFICES ASSUME NEW i \in 1 .. n PROVE LostBetween(Place[r[i]], Place[r[i + 1]], lost)
    BY <1>4, <1>6 DEF Unbroken
  <2>1. CASE i = n
    <3>1. r[i] = q[n] /\ r[i + 1] = u /\ q # <<>>
      BY <1>4, <1>6, <2>1
    <3> QED
      BY <1>2, <1>3, <3>1
  <2>2. CASE i # n
    <3>1. i \in 1 .. n - 1 /\ r[i] = q[i] /\ r[i + 1] = q[i + 1]
      BY <1>4, <1>6, <2>2
    <3> QED
      BY <1>3, <3>1 DEF Unbroken
  <2> QED
    BY <2>1, <2>2
<1>9. LostBetween(Place[r[Len(r)]], (s + 1) + 1, lost)
  BY <1>1, <1>2, <1>6 DEF LostBetween
<1> QED
  BY <1>6, <1>7, <1>8, <1>9 DEF Waits, r, u

LEMMA OneIsLost ==
  ASSUME messages \in Lines, NEW s \in Nat, s + 1 <= Len(Serial!Sent), NEW lost, NEW q, Waits(q, s, lost)
  PROVE  Waits(q, s + 1, lost \cup {Serial!Sent[s + 1]})
<1> DEFINE more == lost \cup {Serial!Sent[s + 1]}
<1>1. s \in 0 .. Len(Serial!Sent) /\ Len(Serial!Sent) \in Nat
  BY SentLaid
<1>2. q \in Seq(CameBy(s)) /\ Rises(q) /\ Unbroken(q, lost)
      /\ (q # <<>> => LostBetween(Place[q[Len(q)]], s + 1, lost))
  BY DEF Waits
<1>3. CameBy(s) \subseteq CameBy(s + 1)
  BY <1>1 DEF CameBy
<1>4. q \in Seq(CameBy(s + 1)) /\ Unbroken(q, more)
  <2>1. Unbroken(q, more)
    BY <1>2 DEF Unbroken, LostBetween
  <2>2. Len(q) \in Nat /\ \A i \in 1 .. Len(q) : q[i] \in CameBy(s + 1)
    BY <1>2, <1>3
  <2> QED
    BY <1>2, <1>3, <2>1, <2>2
<1>5. ASSUME q # <<>> PROVE LostBetween(Place[q[Len(q)]], (s + 1) + 1, more)
  <2>1. q[Len(q)] \in CameBy(s)
    BY <1>2, <1>5
  <2>2. Place[q[Len(q)]] \in 1 .. s
    BY <1>1, <2>1, CameIs
  <2>3. LostBetween(Place[q[Len(q)]], s + 1, lost)
    BY <1>2, <1>5
  <2> QED
    BY <1>1, <2>2, <2>3 DEF LostBetween
<1> QED
  BY <1>2, <1>4, <1>5 DEF Waits

(* A piece of it.                                                          *)
LEMMA PieceIs ==
  ASSUME NEW S, NEW q \in Seq(S), NEW a \in 1 .. Len(q) + 1, NEW b \in a - 1 .. Len(q)
  PROVE  /\ SubSeq(q, a, b) \in Seq(S) /\ Len(SubSeq(q, a, b)) = b - a + 1
         /\ \A i \in 1 .. b - a + 1 : SubSeq(q, a, b)[i] = q[a + i - 1]
<1>1. Len(q) \in Nat
  OBVIOUS
<1>2. SubSeq(q, a, b) \in Seq(S)
  <2>1. \A i \in a .. b : q[i] \in S
    BY <1>1
  <2> QED
    BY <1>1, <2>1
<1>3. Len(SubSeq(q, a, b)) = b - a + 1
  BY <1>1
<1>4. \A i \in 1 .. b - a + 1 : SubSeq(q, a, b)[i] = q[a + i - 1]
  BY <1>1
<1> QED
  BY <1>2, <1>3, <1>4

LEMMA PieceRises ==
  ASSUME NEW s, NEW lost, NEW q \in Seq(CameBy(s)), Rises(q), Unbroken(q, lost),
         NEW a \in 1 .. Len(q) + 1, NEW b \in a - 1 .. Len(q)
  PROVE  Rises(SubSeq(q, a, b)) /\ Unbroken(SubSeq(q, a, b), lost)
<1> DEFINE p == SubSeq(q, a, b)
<1>1. Len(q) \in Nat /\ Len(p) = b - a + 1 /\ \A i \in 1 .. b - a + 1 : p[i] = q[a + i - 1]
  BY PieceIs
<1> HIDE DEF p
<1>2. Rises(p)
  <2> SUFFICES ASSUME NEW i \in 1 .. b - a + 1, NEW j \in 1 .. b - a + 1, i < j
               PROVE  Place[p[i]] < Place[p[j]]
    BY <1>1 DEF Rises
  <2>1. a + i - 1 \in 1 .. Len(q) /\ a + j - 1 \in 1 .. Len(q) /\ a + i - 1 < a + j - 1
    BY <1>1
  <2>2. Place[q[a + i - 1]] < Place[q[a + j - 1]]
    BY <2>1 DEF Rises
  <2> QED
    BY <1>1, <2>2
<1>3. Unbroken(p, lost)
  <2> SUFFICES ASSUME NEW i \in 1 .. (b - a + 1) - 1 PROVE LostBetween(Place[p[i]], Place[p[i + 1]], lost)
    BY <1>1 DEF Unbroken
  <2>1. a + i - 1 \in 1 .. Len(q) - 1 /\ (a + i - 1) + 1 = a + (i + 1) - 1
        /\ i \in 1 .. b - a + 1 /\ i + 1 \in 1 .. b - a + 1
    BY <1>1
  <2>2. LostBetween(Place[q[a + i - 1]], Place[q[(a + i - 1) + 1]], lost)
    BY <2>1 DEF Unbroken
  <2> QED
    BY <1>1, <2>1, <2>2
<1> QED
  BY <1>2, <1>3 DEF p

LEMMA RestWaits ==
  ASSUME NEW s, NEW lost, NEW q, Waits(q, s, lost), NEW k \in 0 .. Len(q)
  PROVE  Waits(SubSeq(q, k + 1, Len(q)), s, lost)
<1> DEFINE p == SubSeq(q, k + 1, Len(q))
<1>1. q \in Seq(CameBy(s)) /\ Rises(q) /\ Unbroken(q, lost) /\ Len(q) \in Nat
      /\ (q # <<>> => LostBetween(Place[q[Len(q)]], s + 1, lost))
  BY DEF Waits
<1>2. k + 1 \in 1 .. Len(q) + 1 /\ Len(q) \in (k + 1) - 1 .. Len(q)
  BY <1>1
<1>3. p \in Seq(CameBy(s)) /\ Len(p) = Len(q) - k /\ Rises(p) /\ Unbroken(p, lost)
      /\ \A i \in 1 .. Len(q) - k : p[i] = q[k + i]
  <2>1. Len(q) - (k + 1) + 1 = Len(q) - k /\ \A i \in 1 .. Len(q) - k : (k + 1) + i - 1 = k + i
    BY <1>1
  <2>2. p \in Seq(CameBy(s)) /\ Len(p) = Len(q) - (k + 1) + 1
        /\ \A i \in 1 .. Len(q) - (k + 1) + 1 : p[i] = q[(k + 1) + i - 1]
    BY <1>1, <1>2, PieceIs
  <2>3. Rises(p) /\ Unbroken(p, lost)
    BY <1>1, <1>2, PieceRises
  <2> QED
    BY <2>1, <2>2, <2>3
<1> HIDE DEF p
<1>4. ASSUME p # <<>> PROVE LostBetween(Place[p[Len(p)]], s + 1, lost)
  <2>1. Len(q) - k \in 1 .. Len(q) - k /\ k + (Len(q) - k) = Len(q) /\ q # <<>>
    BY <1>1, <1>3, <1>4
  <2>2. p[Len(p)] = q[Len(q)]
    BY <1>3, <2>1
  <2> QED
    BY <1>1, <2>1, <2>2
<1> QED
  BY <1>3, <1>4 DEF Waits, p

(* Where nothing was lost all of the last units wait.                      *)
LEMMA AllWaits ==
  ASSUME messages \in Lines, NEW s \in 0 .. Len(Serial!Sent), NEW q, Waits(q, s, {})
  PROVE  /\ q \in Seq(CameBy(s)) /\ Len(q) \in 0 .. s
         /\ \A i \in 1 .. Len(q) : q[i] = Serial!Sent[s - Len(q) + i]
<1> DEFINE n == Len(q)
           T == {j \in 0 .. n : j < n => Place[q[n - j]] = s - j}
<1>1. q \in Seq(CameBy(s)) /\ n \in Nat /\ s \in Nat
      /\ (\A i, j \in 1 .. n : i < j => Place[q[i]] < Place[q[j]])
      /\ (\A i \in 1 .. n - 1 : LostBetween(Place[q[i]], Place[q[i + 1]], {}))
      /\ (q # <<>> => LostBetween(Place[q[n]], s + 1, {}))
  BY SentLaid DEF Waits, Rises, Unbroken
<1>2. \A i \in 1 .. n : q[i] \in CameBy(s)
  BY <1>1
<1>3. \A i \in 1 .. n : Place[q[i]] \in 1 .. s /\ Serial!Sent[Place[q[i]]] = q[i]
  BY <1>2, CameIs
<1>4. ASSUME NEW a \in Nat, NEW b \in Nat, a < b, LostBetween(a, b, {}) PROVE b = a + 1
  <2>1. ~(a + 1 \in a + 1 .. b - 1)
    BY <1>4 DEF LostBetween
  <2> QED
    BY <1>4, <2>1
<1>5. 0 \in T
  <2>1. ASSUME 0 < n PROVE Place[q[n]] = s
    <3>1. n \in 1 .. n /\ q # <<>>
      BY <1>1, <2>1
    <3>2. Place[q[n]] \in 1 .. s /\ LostBetween(Place[q[n]], s + 1, {})
      BY <1>1, <1>3, <3>1
    <3>3. Place[q[n]] \in Nat /\ s + 1 \in Nat /\ Place[q[n]] < s + 1
      BY <1>1, <3>2
    <3>4. s + 1 = Place[q[n]] + 1
      BY <1>4, <3>2, <3>3
    <3> QED
      BY <1>1, <3>2, <3>4
  <2>2. n - 0 = n /\ s - 0 = s /\ 0 \in 0 .. n
    BY <1>1
  <2> QED
    BY <2>1, <2>2
<1>6. ASSUME NEW j \in 1 .. n, j - 1 \in T PROVE j \in T
  <2>1. ASSUME j < n PROVE Place[q[n - j]] = s - j
    <3>1. n - j \in 1 .. n - 1 /\ n - j \in 1 .. n /\ n - (j - 1) \in 1 .. n
          /\ (n - j) + 1 = n - (j - 1) /\ n - j < n - (j - 1)
      BY <1>1, <2>1
    <3>2. Place[q[n - (j - 1)]] = s - (j - 1)
      BY <1>6, <3>1
    <3>3. LostBetween(Place[q[n - j]], Place[q[n - (j - 1)]], {})
      BY <1>1, <3>1
    <3>4. Place[q[n - j]] < Place[q[n - (j - 1)]]
      BY <1>1, <3>1
    <3>5. Place[q[n - j]] \in Nat /\ Place[q[n - (j - 1)]] \in Nat
      BY <1>3, <3>1
    <3>6. Place[q[n - (j - 1)]] = Place[q[n - j]] + 1
      BY <1>4, <3>3, <3>4, <3>5
    <3> QED
      BY <1>1, <3>2, <3>5, <3>6
  <2> QED
    BY <2>1
<1>7. 0 .. n \subseteq T
  <2> HIDE DEF T
  <2> QED
    BY <1>1, <1>5, <1>6, UpTo
<1>8. ASSUME NEW i \in 1 .. n PROVE Place[q[i]] = s - n + i
  <2>1. n - i \in 0 .. n /\ n - i < n /\ n - (n - i) = i /\ s - (n - i) = s - n + i
    BY <1>1
  <2>2. Place[q[n - (n - i)]] = s - (n - i)
    BY <1>7, <2>1
  <2> QED
    BY <2>1, <2>2
<1>9. n \in 0 .. s
  <2>1. CASE n = 0
    BY <1>1, <2>1
  <2>2. CASE n # 0
    <3>1. 1 \in 1 .. n
      BY <1>1, <2>2
    <3>2. Place[q[1]] = s - n + 1 /\ Place[q[1]] \in 1 .. s
      BY <1>3, <1>8, <3>1
    <3> QED
      BY <1>1, <3>2
  <2> QED
    BY <2>1, <2>2
<1> QED
  BY <1>1, <1>3, <1>8, <1>9

(* A packet, when s units were sent.                                       *)
Parcel(p, s, lost) == p \in Seq(CameBy(s)) /\ p # <<>> /\ Rises(p) /\ Unbroken(p, lost)

LEMMA ParcelStays ==
  ASSUME NEW s \in Nat, NEW t \in Nat, s <= t, NEW lost, NEW more, lost \subseteq more,
         NEW p, Parcel(p, s, lost)
  PROVE  Parcel(p, t, more)
<1>1. CameBy(s) \subseteq CameBy(t)
  BY DEF CameBy
<1>2. p \in Seq(CameBy(s)) /\ p # <<>> /\ Rises(p) /\ Unbroken(p, lost)
  BY DEF Parcel
<1>3. Unbroken(p, more)
  BY <1>2 DEF Unbroken, LostBetween
<1>4. p \in Seq(CameBy(t))
  <2>1. Len(p) \in Nat /\ \A i \in 1 .. Len(p) : p[i] \in CameBy(t)
    BY <1>1, <1>2
  <2> QED
    BY <1>2, <2>1
<1> QED
  BY <1>2, <1>3, <1>4 DEF Parcel

LEMMA PieceIsParcel ==
  ASSUME NEW s, NEW lost, NEW q, Waits(q, s, lost), NEW b \in 1 .. Len(q), NEW a \in 1 .. b
  PROVE  Parcel(SubSeq(q, a, b), s, lost)
<1> DEFINE p == SubSeq(q, a, b)
<1>1. q \in Seq(CameBy(s)) /\ Rises(q) /\ Unbroken(q, lost) /\ Len(q) \in Nat
  BY DEF Waits
<1>2. a \in 1 .. Len(q) + 1 /\ b \in a - 1 .. Len(q)
  BY <1>1
<1>3. p \in Seq(CameBy(s)) /\ Len(p) = b - a + 1
  BY <1>1, <1>2, PieceIs
<1>4. Rises(p) /\ Unbroken(p, lost)
  BY <1>1, <1>2, PieceRises
<1>5. p # <<>>
  <2> HIDE DEF p
  <2> QED
    BY <1>1, <1>3
<1> QED
  BY <1>3, <1>4, <1>5 DEF Parcel

(* Packets one behind the other, before what waits.                        *)
Final(p) == Place[p[Len(p)]]
First(p) == Place[p[1]]

LaidCut(c, q, s, lost) ==
  /\ \A i \in 1 .. Len(c) : Parcel(c[i], s, lost)
  /\ \A i, j \in 1 .. Len(c) : i < j => Final(c[i]) < First(c[j])
  /\ q # <<>> => \A i \in 1 .. Len(c) : Final(c[i]) < First(q)

LEMMA ParcelEnds ==
  ASSUME messages \in Lines, NEW s \in 0 .. Len(Serial!Sent), NEW lost, NEW p, Parcel(p, s, lost)
  PROVE  First(p) \in 1 .. s /\ Final(p) \in 1 .. s /\ Len(p) \in Nat \ {0}
<1>1. p \in Seq(CameBy(s)) /\ p # <<>>
  BY DEF Parcel
<1>2. Len(p) \in Nat \ {0} /\ p[1] \in CameBy(s) /\ p[Len(p)] \in CameBy(s)
  BY <1>1
<1> QED
  BY <1>2, CameIs DEF First, Final

LEMMA CutStays ==
  ASSUME NEW s \in Nat, NEW t \in Nat, s <= t, NEW lost, NEW more, lost \subseteq more,
         NEW c, NEW q, LaidCut(c, q, s, lost)
  PROVE  LaidCut(c, q, t, more)
<1>1. \A i \in 1 .. Len(c) : Parcel(c[i], s, lost)
  BY DEF LaidCut
<1>2. \A i \in 1 .. Len(c) : Parcel(c[i], t, more)
  BY <1>1, ParcelStays
<1> QED
  BY <1>2 DEF LaidCut

LEMMA CutMeets ==
  ASSUME messages \in Lines, NEW s \in Nat, s + 1 <= Len(Serial!Sent), NEW lost,
         NEW c, NEW q \in Seq(CameBy(s)), LaidCut(c, q, s, lost)
  PROVE  LaidCut(c, Append(q, Serial!Sent[s + 1]), s + 1, lost)
<1> DEFINE u == Serial!Sent[s + 1]
           r == Append(q, u)
<1>1. s \in 0 .. Len(Serial!Sent) /\ s + 1 \in 1 .. Len(Serial!Sent) /\ Len(Serial!Sent) \in Nat
  BY SentLaid
<1>2. LaidCut(c, q, s + 1, lost)
  BY CutStays
<1>3. ASSUME NEW i \in 1 .. Len(c) PROVE Final(c[i]) < First(r)
  <2>1. CASE q = <<>>
    <3>1. r[1] = u
      BY <2>1
    <3>2. First(r) = s + 1
      BY <1>1, <3>1, PlaceIs DEF First
    <3>3. Final(c[i]) \in 1 .. s
      <4>1. Parcel(c[i], s, lost)
        BY DEF LaidCut
      <4> QED
        BY <1>1, <4>1, ParcelEnds
    <3> QED
      BY <1>1, <3>2, <3>3
  <2>2. CASE q # <<>>
    <3>1. r[1] = q[1]
      BY <2>2
    <3>2. Final(c[i]) < First(q)
      BY <2>2 DEF LaidCut
    <3> QED
      BY <3>1, <3>2 DEF First
  <2> QED
    BY <2>1, <2>2
<1> QED
  BY <1>2, <1>3 DEF LaidCut

LEMMA CutAlone ==
  ASSUME NEW s, NEW lost, NEW c, NEW q, LaidCut(c, q, s, lost)
  PROVE  LaidCut(c, <<>>, s, lost)
BY DEF LaidCut

LEMMA CutFirst ==
  ASSUME NEW s, NEW lost, NEW c, NEW q, LaidCut(c, q, s, lost), NEW b, StartsAs(c, b),
         Len(c) \in Nat, Len(b) \in Nat
  PROVE  LaidCut(b, q, s, lost)
<1>1. 1 .. Len(b) \subseteq 1 .. Len(c) /\ \A i \in 1 .. Len(b) : b[i] = c[i]
  BY DEF StartsAs
<1> QED
  BY <1>1 DEF LaidCut

LEMMA CutRests ==
  ASSUME messages \in Lines, NEW s \in 0 .. Len(Serial!Sent), NEW lost, NEW c, NEW q,
         Waits(q, s, lost), LaidCut(c, q, s, lost), NEW k \in 0 .. Len(q)
  PROVE  LaidCut(c, SubSeq(q, k + 1, Len(q)), s, lost)
<1> DEFINE r == SubSeq(q, k + 1, Len(q))
<1>1. q \in Seq(CameBy(s)) /\ Rises(q) /\ Len(q) \in Nat
  BY DEF Waits
<1>2. r \in Seq(CameBy(s)) /\ Len(r) = Len(q) - (k + 1) + 1
      /\ \A i \in 1 .. Len(q) - (k + 1) + 1 : r[i] = q[(k + 1) + i - 1]
  <2>1. k + 1 \in 1 .. Len(q) + 1 /\ Len(q) \in (k + 1) - 1 .. Len(q)
    BY <1>1
  <2> QED
    BY <1>1, <2>1, PieceIs
<1> HIDE DEF r
<1>3. ASSUME r # <<>>, NEW i \in 1 .. Len(c) PROVE Final(c[i]) < First(r)
  <2>1. k + 1 \in 1 .. Len(q) /\ 1 \in 1 .. Len(q) /\ q # <<>> /\ r[1] = q[k + 1]
    BY <1>1, <1>2, <1>3
  <2>2. Final(c[i]) < First(q)
    BY <2>1 DEF LaidCut
  <2>3. k = 0 \/ First(q) < First(r)
    BY <1>1, <2>1 DEF Rises, First
  <2>4. First(q) \in Int /\ First(r) \in Int /\ Final(c[i]) \in Int
    <3>1. Parcel(c[i], s, lost)
      BY DEF LaidCut
    <3>2. q[1] \in CameBy(s) /\ q[k + 1] \in CameBy(s)
      BY <1>1, <2>1
    <3>3. Final(c[i]) \in 1 .. s
      BY <3>1, ParcelEnds
    <3>4. Place[q[1]] \in 1 .. s /\ Place[q[k + 1]] \in 1 .. s
      BY <3>2, CameIs
    <3> QED
      BY <2>1, <3>3, <3>4 DEF First
  <2>5. k = 0 => First(r) = First(q)
    BY <2>1 DEF First
  <2> QED
    BY <2>2, <2>3, <2>4, <2>5
<1> QED
  BY <1>3 DEF LaidCut, r

LEMMA CutMore ==
  ASSUME messages \in Lines, NEW s \in 0 .. Len(Serial!Sent), NEW lost, NEW c, NEW q, Len(c) \in Nat,
         Waits(q, s, lost), LaidCut(c, q, s, lost), NEW b \in 1 .. Len(q), NEW a \in 1 .. b,
         NEW d, Len(d) = Len(c) + 1, \A i \in 1 .. Len(c) : d[i] = c[i],
         d[Len(c) + 1] = SubSeq(q, a, b)
  PROVE  LaidCut(d, SubSeq(q, b + 1, Len(q)), s, lost)
<1> DEFINE p == SubSeq(q, a, b)
           r == SubSeq(q, b + 1, Len(q))
           n == Len(c)
<1>1. q \in Seq(CameBy(s)) /\ Rises(q) /\ Len(q) \in Nat
  BY DEF Waits
<1>2. Parcel(p, s, lost)
  BY PieceIsParcel
<1>3. LaidCut(c, r, s, lost)
  <2>1. b \in 0 .. Len(q)
    BY <1>1
  <2> QED
    BY <2>1, CutRests
<1>4. \A i \in 1 .. b - a + 1 : p[i] = q[a + i - 1]
  <2>1. a \in 1 .. Len(q) + 1 /\ b \in a - 1 .. Len(q)
    BY <1>1
  <2> QED
    BY <1>1, <2>1, PieceIs
<1>5. Len(p) = b - a + 1
  <2>1. a \in 1 .. Len(q) + 1 /\ b \in a - 1 .. Len(q)
    BY <1>1
  <2> QED
    BY <1>1, <2>1, PieceIs
<1>6. /\ Len(r) = Len(q) - (b + 1) + 1
      /\ \A i \in 1 .. Len(q) - (b + 1) + 1 : r[i] = q[(b + 1) + i - 1]
  <2>1. b + 1 \in 1 .. Len(q) + 1 /\ Len(q) \in (b + 1) - 1 .. Len(q)
    BY <1>1
  <2> QED
    BY <1>1, <2>1, PieceIs
<1>7. r \in Seq(CameBy(s))
  <2>1. b + 1 \in 1 .. Len(q) + 1 /\ Len(q) \in (b + 1) - 1 .. Len(q)
    BY <1>1
  <2> QED
    BY <1>1, <2>1, PieceIs
<1> HIDE DEF p, r
<1>8. First(p) = Place[q[a]] /\ Final(p) = Place[q[b]]
  <2>1. 1 \in 1 .. b - a + 1 /\ b - a + 1 \in 1 .. b - a + 1 /\ a + 1 - 1 = a /\ a + (b - a + 1) - 1 = b
    BY <1>1
  <2>2. p[1] = q[a + 1 - 1] /\ p[b - a + 1] = q[a + (b - a + 1) - 1]
    BY <1>4, <2>1
  <2> QED
    BY <1>5, <2>1, <2>2 DEF First, Final
<1>9. /\ a \in 1 .. Len(q) /\ b \in 1 .. Len(q) /\ 1 \in 1 .. Len(q) /\ q # <<>>
      /\ Place[q[1]] \in Int /\ Place[q[a]] \in Int /\ Place[q[b]] \in Int
      /\ (a = 1 \/ Place[q[1]] < Place[q[a]])
  <2>1. a \in 1 .. Len(q) /\ b \in 1 .. Len(q) /\ 1 \in 1 .. Len(q) /\ q # <<>>
    BY <1>1
  <2>2. q[a] \in CameBy(s) /\ q[b] \in CameBy(s) /\ q[1] \in CameBy(s)
    BY <1>1, <2>1
  <2>3. Place[q[1]] \in 1 .. s /\ Place[q[a]] \in 1 .. s /\ Place[q[b]] \in 1 .. s
    BY <2>2, CameIs
  <2>4. a = 1 \/ 1 < a
    OBVIOUS
  <2>5. a = 1 \/ Place[q[1]] < Place[q[a]]
    BY <1>1, <2>1, <2>4 DEF Rises
  <2> QED
    BY <2>1, <2>3, <2>5
<1>10. ASSUME NEW i \in 1 .. n PROVE Final(c[i]) < First(p)
  <2>1. Parcel(c[i], s, lost) /\ Final(c[i]) < First(q)
    BY <1>9 DEF LaidCut
  <2>2. Final(c[i]) \in 1 .. s
    BY <2>1, ParcelEnds
  <2>3. Final(c[i]) < Place[q[1]] /\ Final(c[i]) \in Int
    BY <2>1, <2>2 DEF First
  <2> QED
    BY <1>8, <1>9, <2>3
<1>11. r # <<>> => Final(p) < First(r)
  <2>1. ASSUME r # <<>> PROVE b + 1 \in 1 .. Len(q) /\ r[1] = q[b + 1]
    BY <1>1, <1>6, <1>7, <2>1
  <2> QED
    BY <1>1, <1>8, <1>9, <2>1 DEF Rises, First
<1>12. n \in Nat /\ Len(d) = n + 1 /\ d[n + 1] = p /\ \A i \in 1 .. n : d[i] = c[i]
  BY DEF p
<1>13. ASSUME NEW i \in 1 .. n + 1 PROVE Parcel(d[i], s, lost)
  <2>1. i \in 1 .. n \/ i = n + 1
    BY <1>12
  <2> QED
    BY <1>2, <1>3, <1>12, <2>1 DEF LaidCut
<1>14. ASSUME NEW i \in 1 .. n + 1, NEW j \in 1 .. n + 1, i < j PROVE Final(d[i]) < First(d[j])
  <2>1. i \in 1 .. n /\ (j \in 1 .. n \/ j = n + 1)
    BY <1>12, <1>14
  <2> QED
    BY <1>3, <1>10, <1>12, <1>14, <2>1 DEF LaidCut
<1>15. ASSUME r # <<>>, NEW i \in 1 .. n + 1 PROVE Final(d[i]) < First(r)
  <2>1. i \in 1 .. n \/ i = n + 1
    BY <1>12
  <2> QED
    BY <1>3, <1>11, <1>12, <1>15, <2>1 DEF LaidCut
<1> QED
  BY <1>12, <1>13, <1>14, <1>15 DEF LaidCut, r

(* Where a scan stops, and what it takes off.                              *)
LEMMA LeastOne ==
  ASSUME NEW T, T \subseteq Nat, T # {}
  PROVE  Serial!Least(T) \in T /\ \A y \in T : Serial!Least(T) <= y
<1>1. \E x \in T : \A y \in T : x <= y
  BY LeastNatural
<1> QED
  BY <1>1 DEF Serial!Least

Heads(d, h) == h \in 1 .. Len(d) - 1 /\ Serial!What(d[h]) \in {"EEFF", "LDACK"}
Rest(d, h) == SubSeq(d, h, Len(d))

LEMMA LengthsTyped ==
  ASSUME NEW d, Len(d) \in Nat
  PROVE  Serial!Lengths(d) \subseteq Nat
<1>1. Len(Serial!Units.point) = 4 /\ Len(Serial!Units.fault) = 3
  BY DEF Serial!Units
<1>2. CASE Serial!What(d[1]) = "LDACK"
  <2> DEFINE ends == {i \in 2 .. Len(d) : Serial!What(d[i]) = "EEFF"}
  <2>1. Serial!Lengths(d) = {IF ends = {} THEN Len(d) + 1 ELSE Serial!Least(ends)}
    BY <1>2 DEF Serial!Lengths
  <2>2. ends \subseteq Nat
    OBVIOUS
  <2> HIDE DEF ends
  <2>3. ends # {} => Serial!Least(ends) \in Nat
    BY <2>2, LeastOne
  <2> QED
    BY <2>1, <2>3
<1>3. CASE Serial!What(d[1]) # "LDACK"
  <2> DEFINE x == Serial!What(d[2])
  <2>1. Serial!Lengths(d) = CASE x = "points" -> {Len(Serial!Units.point)}
                              [] x = "fault" -> {Len(Serial!Units.fault)}
                              [] x = "rest" -> {Len(Serial!Units.point), Len(Serial!Units.fault), 0}
                              [] OTHER -> {0}
    BY <1>3 DEF Serial!Lengths
  <2> HIDE DEF x
  <2>2. CASE x = "points"
    BY <1>1, <2>1, <2>2
  <2>3. CASE x = "fault"
    BY <1>1, <2>1, <2>3
  <2>4. CASE x = "rest"
    BY <1>1, <2>1, <2>4
  <2>5. CASE x \notin {"points", "fault", "rest"}
    <3>1. Serial!Lengths(d) = {0}
      BY <2>1, <2>5
    <3> QED
      BY <3>1
  <2> QED
    BY <2>2, <2>3, <2>4, <2>5
<1> QED
  BY <1>2, <1>3

TakenFrom(d, h, scan) ==
  \E len \in Serial!Lengths(Rest(d, h)) :
    scan = IF len = 0 THEN [over |-> h + 1, packet |-> 0]
           ELSE IF len > Len(d) - h + 1 THEN [over |-> h - 1, packet |-> 0]
           ELSE [over |-> h - 1 + len, packet |-> len]

LEMMA ScanStops ==
  ASSUME NEW S, NEW d \in Seq(S), NEW scan \in Serial!Scans(d)
  PROVE  \/ /\ \A h \in 1 .. Len(d) : ~Heads(d, h)
            /\ scan = [over |-> IF Len(d) < 2 THEN 0 ELSE Len(d) - 1, packet |-> 0]
         \/ \E h : /\ Heads(d, h) /\ (\A i \in 1 .. h - 1 : ~Heads(d, i))
                   /\ TakenFrom(d, h, scan)
<1> DEFINE H == Serial!Headers(d)
           from == Serial!StopAt(d) - 1
           rest == SubSeq(d, from + 1, Len(d))
<1>1. Len(d) \in Nat /\ Serial!Window = 2
  BY DEF Serial!Window
<1>2. \A h : h \in H <=> Heads(d, h)
  BY <1>1 DEF Serial!Headers, Heads
<1>3. CASE H = {}
  <2>1. scan = [over |-> from, packet |-> 0]
    BY <1>3 DEF Serial!Scans
  <2>2. from = IF Len(d) < 2 THEN 0 ELSE Len(d) - 1
    BY <1>1, <1>3 DEF Serial!StopAt
  <2> QED
    BY <1>2, <1>3, <2>1, <2>2
<1>4. CASE H # {}
  <2> DEFINE h == Serial!Least(H)
  <2>1. H \subseteq Nat
    BY <1>1 DEF Serial!Headers
  <2> HIDE DEF H
  <2>2. h \in H /\ \A i \in H : h <= i
    BY <1>4, <2>1, LeastOne
  <2> USE DEF H
  <2>3. Serial!StopAt(d) = h
    BY <1>4 DEF Serial!StopAt
  <2>4. scan \in {IF len = 0 THEN [over |-> from + Serial!Window, packet |-> 0]
                  ELSE IF len > Len(rest) THEN [over |-> from, packet |-> 0]
                  ELSE [over |-> from + len, packet |-> len] : len \in Serial!Lengths(rest)}
    BY <1>4 DEF Serial!Scans
  <2> HIDE DEF h, H
  <2>5. h \in 1 .. Len(d) - 1 /\ Heads(d, h) /\ from = h - 1 /\ from + 1 = h
    BY <1>2, <2>2, <2>3 DEF Heads
  <2>6. rest = Rest(d, h) /\ Len(rest) = Len(d) - h + 1 /\ from + Serial!Window = h + 1
    BY <1>1, <2>5 DEF Rest
  <2>7. \A i \in 1 .. h - 1 : ~Heads(d, i)
    BY <1>2, <2>2, <2>5
  <2> HIDE DEF from, rest
  <2>8. PICK len \in Serial!Lengths(rest) :
          scan = IF len = 0 THEN [over |-> from + Serial!Window, packet |-> 0]
                 ELSE IF len > Len(rest) THEN [over |-> from, packet |-> 0]
                 ELSE [over |-> from + len, packet |-> len]
    BY <2>4
  <2>9. TakenFrom(d, h, scan)
    BY <2>5, <2>6, <2>8 DEF TakenFrom
  <2> QED
    BY <2>5, <2>7, <2>9
<1> QED
  BY <1>3, <1>4

LEMMA ScanBounded ==
  ASSUME NEW S, NEW d \in Seq(S), NEW scan \in Serial!Scans(d)
  PROVE  /\ scan.over \in 0 .. Len(d) /\ scan.packet \in 0 .. scan.over
         /\ scan.packet > 0 =>
              \E h : /\ Heads(d, h) /\ scan.packet \in Serial!Lengths(Rest(d, h))
                     /\ h = scan.over - scan.packet + 1
<1>1. Len(d) \in Nat
  OBVIOUS
<1>2. CASE scan = [over |-> IF Len(d) < 2 THEN 0 ELSE Len(d) - 1, packet |-> 0]
  <2>1. scan.over = (IF Len(d) < 2 THEN 0 ELSE Len(d) - 1) /\ scan.packet = 0
    BY <1>2
  <2> QED
    BY <1>1, <2>1
<1>3. ASSUME NEW h, Heads(d, h), TakenFrom(d, h, scan)
      PROVE  /\ scan.over \in 0 .. Len(d) /\ scan.packet \in 0 .. scan.over
             /\ scan.packet > 0 => /\ scan.packet \in Serial!Lengths(Rest(d, h))
                                   /\ h = scan.over - scan.packet + 1
  <2>1. h \in 1 .. Len(d) - 1
    BY <1>3 DEF Heads
  <2>2. PICK len \in Serial!Lengths(Rest(d, h)) :
          scan = IF len = 0 THEN [over |-> h + 1, packet |-> 0]
                 ELSE IF len > Len(d) - h + 1 THEN [over |-> h - 1, packet |-> 0]
                 ELSE [over |-> h - 1 + len, packet |-> len]
    BY <1>3 DEF TakenFrom
  <2>3. len \in Nat
    <3>1. Len(Rest(d, h)) \in Nat
      BY <1>1, <2>1 DEF Rest
    <3> QED
      BY <3>1, LengthsTyped
  <2>4. /\ scan.over = IF len = 0 THEN h + 1 ELSE IF len > Len(d) - h + 1 THEN h - 1 ELSE h - 1 + len
        /\ scan.packet = IF len = 0 THEN 0 ELSE IF len > Len(d) - h + 1 THEN 0 ELSE len
    BY <2>2
  <2> QED
    BY <1>1, <2>1, <2>3, <2>4
<1> QED
  BY <1>2, <1>3, ScanStops

(* The length of a message that is looked at from its start.               *)
LEMMA LengthOfMessage ==
  ASSUME messages \in Lines, NEW m \in 1 .. Known, NEW S, NEW d \in Seq(S), 2 <= Len(d),
         \A k \in 1 .. Size(m) : k <= Len(d) => d[k] = [m |-> m, k |-> k],
         NEW len \in Serial!Lengths(d)
  PROVE  len = IF messages[m] = "ack" THEN (IF 3 <= Len(d) THEN 3 ELSE Len(d) + 1) ELSE Size(m)
<1>1. messages[m] \in {"point", "fault", "ack"} /\ Size(m) = IF messages[m] = "point" THEN 4 ELSE 3
  BY MessageTyped
<1>2. Len(Serial!Units.point) = 4 /\ Len(Serial!Units.fault) = 3 /\ Len(d) \in Nat
  BY DEF Serial!Units
<1>3. 1 \in 1 .. Size(m) /\ 2 \in 1 .. Size(m) /\ 3 \in 1 .. Size(m)
  BY <1>1
<1>4. d[1] = [m |-> m, k |-> 1] /\ d[2] = [m |-> m, k |-> 2]
      /\ (3 <= Len(d) => d[3] = [m |-> m, k |-> 3])
  BY <1>2, <1>3
<1> DEFINE x == d[1]
           y == d[2]
           z == d[3]
<1>5. Serial!What(x) = "LDACK" <=> messages[m] = "ack"
  <2> HIDE DEF x
  <2>1. x = [m |-> m, k |-> 1]
    BY <1>4 DEF x
  <2> QED
    BY <1>3, <2>1, UnitKinds
<1>6. /\ Serial!What(y) = "points" <=> messages[m] = "point"
      /\ Serial!What(y) = "fault" <=> messages[m] = "fault"
      /\ Serial!What(y) # "EEFF"
  <2> HIDE DEF y
  <2>1. y = [m |-> m, k |-> 2]
    BY <1>4 DEF y
  <2> QED
    BY <1>3, <2>1, UnitKinds
<1>7. 3 <= Len(d) /\ messages[m] = "ack" => Serial!What(z) = "EEFF"
  <2> HIDE DEF z
  <2>1. 3 <= Len(d) => z = [m |-> m, k |-> 3]
    BY <1>4 DEF z
  <2> QED
    BY <1>3, <2>1, UnitKinds
<1>8. CASE messages[m] = "ack"
  <2> DEFINE ends == {i \in 2 .. Len(d) : Serial!What(d[i]) = "EEFF"}
  <2>1. len = IF ends = {} THEN Len(d) + 1 ELSE Serial!Least(ends)
    BY <1>5, <1>8 DEF Serial!Lengths
  <2>2. 2 \notin ends /\ ends \subseteq Nat
    BY <1>6
  <2>3. \A i \in ends : 3 <= i
    BY <1>2, <2>2
  <2>4. CASE 3 <= Len(d)
    <3>1. 3 \in ends
      BY <1>2, <1>7, <1>8, <2>4
    <3> HIDE DEF ends
    <3>2. Serial!Least(ends) \in ends /\ Serial!Least(ends) <= 3
      BY <2>2, <3>1, LeastOne
    <3>3. Serial!Least(ends) \in Nat /\ 3 <= Serial!Least(ends)
      BY <2>2, <2>3, <3>2
    <3>4. Serial!Least(ends) = 3
      BY <3>2, <3>3
    <3> QED
      BY <1>8, <2>1, <2>4, <3>1, <3>4
  <2>5. CASE ~(3 <= Len(d))
    <3>1. ends = {}
      BY <1>2, <2>3, <2>5
    <3> QED
      BY <1>8, <2>1, <2>5, <3>1
  <2> QED
    BY <2>4, <2>5
<1>9. CASE messages[m] = "point"
  <2>1. Serial!Lengths(d) = {Len(Serial!Units.point)}
    BY <1>5, <1>6, <1>9 DEF Serial!Lengths
  <2> QED
    BY <1>1, <1>2, <1>9, <2>1
<1>10. CASE messages[m] = "fault"
  <2>1. Serial!Lengths(d) = {Len(Serial!Units.fault)}
    BY <1>5, <1>6, <1>10 DEF Serial!Lengths
  <2> QED
    BY <1>1, <1>2, <1>10, <2>1
<1> QED
  BY <1>1, <1>8, <1>9, <1>10

(* A scan that begins where a message does takes that message, or waits.    *)
LEMMA ScanAtStart ==
  ASSUME messages \in Lines, NEW n \in 0 .. Known, NEW S, NEW d \in Seq(S),
         End(n) + Len(d) <= Len(Serial!Sent),
         \A i \in 1 .. Len(d) : d[i] = Serial!Sent[End(n) + i],
         NEW scan \in Serial!Scans(d)
  PROVE  \/ scan.over = 0 /\ scan.packet = 0
         \/ /\ n + 1 \in 1 .. Known /\ Size(n + 1) <= Len(d)
            /\ scan.over = Size(n + 1) /\ scan.packet = Size(n + 1)
<1>1. Len(d) \in Nat /\ Known \in Nat
  BY MessageTyped
<1>2. CASE Len(d) < 2
  <2>1. \A h : ~Heads(d, h)
    BY <1>1, <1>2 DEF Heads
  <2>2. scan = [over |-> IF Len(d) < 2 THEN 0 ELSE Len(d) - 1, packet |-> 0]
    BY <2>1, ScanStops
  <2>3. scan.over = (IF Len(d) < 2 THEN 0 ELSE Len(d) - 1) /\ scan.packet = 0
    BY <2>2
  <2> QED
    BY <1>2, <2>3
<1>3. CASE 2 <= Len(d)
  <2>1. n + 1 \in 1 .. Known
    <3>1. End(n) < End(Known)
      <4>1. End(n) \in Nat /\ End(Known) \in Nat /\ Len(Serial!Sent) = End(Known)
        BY <1>1, SentLaid
      <4> QED
        BY <1>1, <1>3, <4>1
    <3>2. n # Known
      <4>1. End(Known) \in Nat
        BY <1>1, SentLaid
      <4> QED
        BY <3>1, <4>1
    <3> QED
      BY <1>1, <3>2
  <2> DEFINE m == n + 1
  <2>2. m - 1 = n /\ m \in 1 .. Known
    BY <1>1, <2>1
  <2> HIDE DEF m
  <2>3. Size(m) \in {3, 4} /\ \A k \in 1 .. Size(m) : Serial!Sent[End(n) + k] = [m |-> m, k |-> k]
    BY <2>2, SentLaid
  <2>4. \A k \in 1 .. Size(m) : k <= Len(d) => d[k] = [m |-> m, k |-> k]
    <3>1. \A k \in 1 .. Size(m) : k <= Len(d) => k \in 1 .. Len(d)
      BY <1>1, <2>3
    <3> QED
      BY <2>3, <3>1
  <2>5. Heads(d, 1)
    <3>1. 1 \in 1 .. Size(m) /\ 1 <= Len(d)
      BY <1>1, <1>3, <2>3
    <3>2. messages[m] \in {"point", "fault", "ack"}
      BY <2>2, MessageTyped
    <3>3. d[1] = [m |-> m, k |-> 1]
      BY <2>4, <3>1
    <3>4. Serial!What(d[1]) \in {"EEFF", "LDACK"}
      <4> DEFINE u == d[1]
      <4>1. u = [m |-> m, k |-> 1]
        BY <3>3
      <4> HIDE DEF u
      <4>2. Serial!What(u) = "LDACK" \/ Serial!What(u) = "EEFF"
        BY <2>2, <3>1, <3>2, <4>1, UnitKinds
      <4> QED
        BY <4>2 DEF u
    <3> QED
      BY <1>1, <1>3, <3>4 DEF Heads
  <2>6. \E h : /\ Heads(d, h) /\ (\A i \in 1 .. h - 1 : ~Heads(d, i))
               /\ TakenFrom(d, h, scan)
    <3>1. 1 \in 1 .. Len(d)
      BY <1>1, <1>3
    <3> QED
      BY <2>5, <3>1, ScanStops
  <2>7. TakenFrom(d, 1, scan)
    <3>1. PICK h : /\ Heads(d, h) /\ (\A i \in 1 .. h - 1 : ~Heads(d, i))
                   /\ TakenFrom(d, h, scan)
      BY <2>6
    <3>2. h \in 1 .. Len(d) - 1 /\ ~(1 \in 1 .. h - 1)
      BY <2>5, <3>1 DEF Heads
    <3>3. h = 1
      BY <1>1, <3>2
    <3> QED
      BY <3>1, <3>3
  <2>8. Rest(d, 1) = d
    BY <1>1 DEF Rest
  <2>9. PICK len \in Serial!Lengths(d) :
          scan = IF len = 0 THEN [over |-> 1 + 1, packet |-> 0]
                 ELSE IF len > Len(d) - 1 + 1 THEN [over |-> 1 - 1, packet |-> 0]
                 ELSE [over |-> 1 - 1 + len, packet |-> len]
    BY <2>7, <2>8 DEF TakenFrom
  <2>10. len = IF messages[m] = "ack" THEN (IF 3 <= Len(d) THEN 3 ELSE Len(d) + 1) ELSE Size(m)
    BY <1>3, <2>2, <2>4, LengthOfMessage
  <2>11. messages[m] = "ack" => Size(m) = 3
    BY <2>2, MessageTyped
  <2>12. len # 0 /\ len \in Nat /\ (len > Len(d) \/ len = Size(m))
    BY <1>1, <1>3, <2>3, <2>10, <2>11
  <2>13. /\ scan.over = IF len > Len(d) THEN 0 ELSE len
         /\ scan.packet = IF len > Len(d) THEN 0 ELSE len
    <3>1. scan = IF len > Len(d) THEN [over |-> 0, packet |-> 0] ELSE [over |-> len, packet |-> len]
      BY <1>1, <2>9, <2>12
    <3> QED
      BY <3>1
  <2>14. \/ scan.over = 0 /\ scan.packet = 0
         \/ Size(m) <= Len(d) /\ scan.over = Size(m) /\ scan.packet = Size(m)
    BY <1>1, <2>12, <2>13
  <2> QED
    BY <2>1, <2>14 DEF m
<1> QED
  BY <1>1, <1>2, <1>3

Within(o, h, n) == o + h \in 1 .. n

LEMMA StaysWithin ==
  ASSUME NEW o \in Nat, NEW a \in Nat, NEW n \in Nat, o + a <= n, NEW h \in 1 .. a - 1
  PROVE  Within(o, h, n)
BY DEF Within

GoesAlong(o, h, l, e) == o + h = e + 1 => o + (h + l - 1) = e + l

LEMMA FromTheHead ==
  ASSUME NEW o \in Nat, NEW h \in Nat, NEW l \in Nat, NEW e \in Nat
  PROVE  GoesAlong(o, h, l, e)
BY DEF GoesAlong

(* Where nothing was lost a packet of points begins where a message does.   *)
LEMMA ScanFindsStart ==
  ASSUME messages \in Lines, NEW o \in Nat, NEW S, NEW d \in Seq(S),
         o + Len(d) <= Len(Serial!Sent),
         \A i \in 1 .. Len(d) : d[i] = Serial!Sent[o + i],
         NEW scan \in Serial!Scans(d), scan.packet > 0,
         Serial!What(d[scan.over - scan.packet + 1]) # "LDACK"
  PROVE  \E m \in 1 .. Known : /\ messages[m] # "ack" /\ scan.packet = Size(m)
                               /\ o + (scan.over - scan.packet) = End(m - 1)
<1>1. Len(d) \in Nat /\ Known \in Nat /\ Len(Serial!Sent) \in Nat
  BY SentLaid, MessageTyped
<1>2. PICK h : /\ Heads(d, h) /\ scan.packet \in Serial!Lengths(Rest(d, h))
               /\ h = scan.over - scan.packet + 1
  BY ScanBounded
<1>3. h \in 1 .. Len(d) - 1 /\ Serial!What(d[h]) = "EEFF"
  BY <1>2 DEF Heads
<1>4. o + h \in 1 .. Len(Serial!Sent)
  <2>1. Within(o, h, Len(Serial!Sent))
    BY <1>1, <1>3, StaysWithin
  <2> QED
    BY <2>1 DEF Within
<1>5. \E n, k : IsUnit(o + h, n, k)
  BY <1>4, UnitFound
<1>6. PICK n, k : IsUnit(o + h, n, k)
  BY <1>5
<1>7. /\ n \in 1 .. Known /\ k \in 1 .. Size(n)
      /\ o + h = End(n - 1) + k /\ Serial!Sent[o + h] = [m |-> n, k |-> k]
  BY <1>6 DEF IsUnit
<1>8. \/ messages[n] # "ack" /\ k = 1
      \/ messages[n] = "ack" /\ k = 3
  <2> DEFINE u == d[h]
  <2>2. h \in 1 .. Len(d)
    BY <1>1, <1>3
  <2>3. d[h] = Serial!Sent[o + h]
    BY <2>2
  <2>1. u = [m |-> n, k |-> k] /\ Serial!What(u) = "EEFF"
    BY <1>3, <1>7, <2>3
  <2> HIDE DEF u
  <2> QED
    BY <1>7, <2>1, UnitKinds
<1>9. /\ Size(n) \in {3, 4} /\ End(n) = End(n - 1) + Size(n) /\ End(n) \in Nat /\ End(n - 1) \in Nat
      /\ \A l \in 1 .. Size(n) : Serial!Sent[End(n - 1) + l] = [m |-> n, k |-> l]
  <2>1. n \in 0 .. Known /\ n - 1 \in 0 .. Known
    BY <1>1, <1>7
  <2> QED
    BY <1>7, <2>1, SentLaid
<1> DEFINE r == Rest(d, h)
<1>10. r \in Seq(S) /\ Len(r) = Len(d) - h + 1 /\ \A i \in 1 .. Len(d) - h + 1 : r[i] = d[h + i - 1]
  <2>1. h \in 1 .. Len(d) + 1 /\ Len(d) \in h - 1 .. Len(d)
    BY <1>1, <1>3
  <2> QED
    BY <2>1, PieceIs DEF Rest
<1> HIDE DEF r
<1>11. 2 <= Len(r) /\ Len(r) \in Nat
  BY <1>1, <1>3, <1>10
<1>12. \A i \in 1 .. Len(r) : r[i] = Serial!Sent[o + (h + i - 1)]
  <2>1. \A i \in 1 .. Len(r) : i \in 1 .. Len(d) - h + 1 /\ h + i - 1 \in 1 .. Len(d)
    BY <1>1, <1>3, <1>10
  <2> QED
    BY <1>10, <2>1
<1>13. CASE messages[n] # "ack" /\ k = 1
  <2>1. ASSUME NEW l \in 1 .. Size(n), l <= Len(r) PROVE r[l] = [m |-> n, k |-> l]
    <3>0. l \in Nat /\ l \in 1 .. Len(r) /\ h \in Nat
      BY <1>1, <1>3, <1>9, <1>11, <2>1
    <3>2. o + h = End(n - 1) + 1 /\ End(n - 1) \in Nat
      BY <1>7, <1>9, <1>13
    <3>3. GoesAlong(o, h, l, End(n - 1))
      BY <3>0, <3>2, FromTheHead
    <3>1. l \in 1 .. Len(r) /\ o + (h + l - 1) = End(n - 1) + l
      BY <3>0, <3>2, <3>3 DEF GoesAlong
    <3> QED
      BY <1>9, <1>12, <3>1
  <2>2. scan.packet = IF messages[n] = "ack" THEN (IF 3 <= Len(r) THEN 3 ELSE Len(r) + 1) ELSE Size(n)
    <3>1. scan.packet \in Serial!Lengths(r)
      BY <1>2 DEF r
    <3> QED
      BY <1>7, <1>10, <1>11, <2>1, <3>1, LengthOfMessage
  <2>3. o + (scan.over - scan.packet) = End(n - 1)
    <3>1. scan.over \in Nat /\ scan.packet \in Nat
      <4>1. scan.over \in 0 .. Len(d) /\ scan.packet \in 0 .. scan.over
        BY ScanBounded
      <4> QED
        BY <1>1, <4>1
    <3> QED
      BY <1>2, <1>7, <1>9, <1>13, <3>1, SMTT(30)
  <2> QED
    BY <1>7, <1>13, <2>2, <2>3
<1>14. CASE messages[n] = "ack" /\ k = 3
  <2>1. Size(n) = 3
    BY <1>7, <1>14, MessageTyped
  <2>2. o + h = End(n) /\ o + (h + 2 - 1) = End(n) + 1
    BY <1>3, <1>7, <1>9, <1>14, <2>1
  <2>3. o + (h + 2 - 1) <= Len(Serial!Sent)
    BY <1>1, <1>3
  <2>4. n + 1 \in 1 .. Known
    <3>1. Len(Serial!Sent) = End(Known)
      BY SentLaid
    <3>2. n # Known
      BY <1>1, <1>9, <2>2, <2>3, <3>1
    <3> QED
      BY <1>1, <1>7, <3>2
  <2> DEFINE j == n + 1
  <2>5. j \in 1 .. Known /\ j - 1 = n
    BY <1>7, <2>4
  <2> HIDE DEF j
  <2>6. Size(j) \in {3, 4} /\ \A l \in 1 .. Size(j) : Serial!Sent[End(n) + l] = [m |-> j, k |-> l]
    BY <2>5, SentLaid
  <2>7. 1 \in 1 .. Size(j) /\ Serial!Sent[End(n) + 1] = [m |-> j, k |-> 1]
    BY <2>6, SMTT(30)
  <2>8. r[2] = [m |-> j, k |-> 1]
    <3>1. r[2] = Serial!Sent[o + (h + 2 - 1)]
      BY <1>11, <1>12
    <3> QED
      BY <2>2, <2>7, <3>1
  <2>9. Serial!What(r[2]) \in {"LDACK", "EEFF"}
    <3> DEFINE u == r[2]
    <3>1. u = [m |-> j, k |-> 1]
      BY <2>8
    <3>2. messages[j] \in {"point", "fault", "ack"}
      BY <2>5, MessageTyped
    <3> HIDE DEF u
    <3>3. Serial!What(u) = "LDACK" \/ Serial!What(u) = "EEFF"
      BY <2>5, <2>7, <3>1, <3>2, UnitKinds
    <3> QED
      BY <3>3 DEF u
  <2>10. r[1] = d[h]
    <3>1. 1 \in 1 .. Len(d) - h + 1 /\ h + 1 - 1 = h
      BY <1>1, <1>3
    <3>2. r[1] = d[h + 1 - 1]
      BY <1>10, <3>1
    <3> QED
      BY <3>1, <3>2
  <2>11. Serial!What(r[1]) # "LDACK"
    BY <1>3, <2>10
  <2>12. Serial!Lengths(r) = {0}
    <3> DEFINE x == Serial!What(r[2])
    <3>1. Serial!Lengths(r) = CASE x = "points" -> {Len(Serial!Units.point)}
                                [] x = "fault" -> {Len(Serial!Units.fault)}
                                [] x = "rest" -> {Len(Serial!Units.point), Len(Serial!Units.fault), 0}
                                [] OTHER -> {0}
      BY <2>11 DEF Serial!Lengths
    <3>2. x \notin {"points", "fault", "rest"}
      BY <2>9
    <3> HIDE DEF x
    <3> QED
      BY <3>1, <3>2
  <2>13. scan.packet = 0
    BY <1>2, <2>12 DEF r
  <2> QED
    BY <2>13
<1> QED
  BY <1>8, <1>13, <1>14

(* The piece that holds a message is the message.                          *)
LEMMA MessageCut ==
  ASSUME messages \in Lines, NEW m \in 1 .. Known, NEW S, NEW q \in Seq(S), NEW o \in Nat,
         \A i \in 1 .. Len(q) : q[i] = Serial!Sent[o + i],
         NEW b \in 1 .. Len(q), NEW a \in 1 .. b, b - a + 1 = Size(m), o + a - 1 = End(m - 1)
  PROVE  SubSeq(q, a, b) = Serial!Message(m)
<1> DEFINE p == SubSeq(q, a, b)
<1>1. Len(q) \in Nat /\ a \in 1 .. Len(q) + 1 /\ b \in a - 1 .. Len(q)
  OBVIOUS
<1>2. p \in Seq(S) /\ Len(p) = b - a + 1 /\ \A i \in 1 .. b - a + 1 : p[i] = q[a + i - 1]
  BY <1>1, PieceIs
<1> HIDE DEF p
<1>3. Serial!Message(m) \in Seq(UnitType) /\ Len(Serial!Message(m)) = Size(m)
      /\ \A k \in 1 .. Size(m) : Serial!Message(m)[k] = [m |-> m, k |-> k]
  BY MessageTyped
<1>4. \A k \in 1 .. Size(m) : Serial!Sent[End(m - 1) + k] = [m |-> m, k |-> k]
  BY SentLaid
<1>5. ASSUME NEW i \in 1 .. Size(m) PROVE p[i] = Serial!Message(m)[i]
  <2>1. a + i - 1 \in 1 .. Len(q) /\ o + (a + i - 1) = End(m - 1) + i /\ i \in 1 .. b - a + 1
    BY <1>1
  <2>2. p[i] = Serial!Sent[End(m - 1) + i]
    BY <1>2, <2>1
  <2> QED
    BY <1>3, <1>4, <2>2
<1> DEFINE w == Serial!Message(m)
<1>6. w \in Seq(UnitType) /\ Len(w) = Size(m) /\ \A i \in 1 .. Size(m) : p[i] = w[i]
  BY <1>3, <1>5
<1> HIDE DEF w
<1>7. p = w
  BY <1>2, <1>6
<1> QED
  BY <1>7 DEF p, w

-----------------------------------------------------------------------------
(* What waits and what was cut off in front of it, as long as nothing but   *)
(* what the full port lost is missing: without such a loss each packet is a *)
(* message of the lidar, and until something came to a closed port they are *)
(* all up to some message, and what waits begins with the next.             *)
PointOf == [m \in 1 .. Known |-> IF messages[m] = "ack" THEN <<>> ELSE <<Serial!Message(m)>>]
IsMessage(p) == \E m \in 1 .. Known : messages[m] # "ack" /\ p = Serial!Message(m)
AllUpTo(n, c, w, s) == n \in 0 .. Known /\ s - Len(w) = End(n) /\ c = Parts(PointOf, n)

CutsOff(c, w, s, lost, any) ==
  /\ Waits(w, s, lost) /\ LaidCut(c, w, s, lost)
  /\ lost = {} => \A i \in 1 .. Len(c) : IsMessage(c[i])
  /\ lost = {} /\ ~any => \E n : AllUpTo(n, c, w, s)

LEMMA CutsMeet ==
  ASSUME messages \in Lines, NEW s \in Nat, s + 1 <= Len(Serial!Sent), NEW lost, NEW any,
         NEW c, NEW w, CutsOff(c, w, s, lost, any)
  PROVE  CutsOff(c, Append(w, Serial!Sent[s + 1]), s + 1, lost, any)
<1> DEFINE v == Append(w, Serial!Sent[s + 1])
<1>1. Waits(w, s, lost) /\ LaidCut(c, w, s, lost) /\ w \in Seq(CameBy(s))
  BY DEF CutsOff, Waits
<1>2. Waits(v, s + 1, lost) /\ LaidCut(c, v, s + 1, lost)
  BY <1>1, OneMoreWaits, CutMeets
<1>3. Len(w) \in Nat /\ Len(v) = Len(w) + 1
  BY <1>1
<1> HIDE DEF v
<1>4. ASSUME NEW n, AllUpTo(n, c, w, s) PROVE AllUpTo(n, c, v, s + 1)
  <2>1. (s + 1) - Len(v) = s - Len(w)
    BY <1>3
  <2> QED
    BY <1>4, <2>1 DEF AllUpTo
<1> QED
  BY <1>2, <1>4 DEF CutsOff, v

LEMMA CutsLose ==
  ASSUME messages \in Lines, NEW s \in Nat, s + 1 <= Len(Serial!Sent), NEW lost, NEW any,
         NEW c, NEW w, CutsOff(c, w, s, lost, any)
  PROVE  CutsOff(c, w, s + 1, lost \cup {Serial!Sent[s + 1]}, any)
<1>1. Waits(w, s, lost) /\ LaidCut(c, w, s, lost)
  BY DEF CutsOff
<1>2. Waits(w, s + 1, lost \cup {Serial!Sent[s + 1]})
  BY <1>1, OneIsLost
<1>3. LaidCut(c, w, s + 1, lost \cup {Serial!Sent[s + 1]})
  <2>1. s <= s + 1 /\ s + 1 \in Nat /\ lost \subseteq lost \cup {Serial!Sent[s + 1]}
    OBVIOUS
  <2> QED
    BY <1>1, <2>1, CutStays
<1> QED
  BY <1>2, <1>3 DEF CutsOff

LEMMA CutsMiss ==
  ASSUME NEW s \in Nat, NEW lost, NEW any, NEW c, CutsOff(c, <<>>, s, lost, any)
  PROVE  CutsOff(c, <<>>, s + 1, lost, TRUE)
<1>1. LaidCut(c, <<>>, s, lost) /\ (lost = {} => \A i \in 1 .. Len(c) : IsMessage(c[i]))
  BY DEF CutsOff
<1>2. LaidCut(c, <<>>, s + 1, lost)
  <2>1. s <= s + 1 /\ s + 1 \in Nat /\ lost \subseteq lost
    OBVIOUS
  <2> QED
    BY <1>1, <2>1, CutStays
<1> QED
  BY <1>1, <1>2, NothingWaits DEF CutsOff

LEMMA CutsJoin ==
  ASSUME NEW s, NEW lost, NEW any, NEW c, NEW w, CutsOff(c, w, s, lost, any),
         NEW b, StartsAs(c, b), Len(c) \in Nat, Len(b) \in Nat
  PROVE  CutsOff(b, <<>>, s, lost, TRUE)
<1>1. LaidCut(c, w, s, lost) /\ (lost = {} => \A i \in 1 .. Len(c) : IsMessage(c[i]))
  BY DEF CutsOff
<1>2. LaidCut(b, <<>>, s, lost)
  <2>1. LaidCut(b, w, s, lost)
    BY <1>1, CutFirst
  <2> QED
    BY <2>1, CutAlone
<1>3. 1 .. Len(b) \subseteq 1 .. Len(c) /\ \A i \in 1 .. Len(b) : b[i] = c[i]
  BY DEF StartsAs
<1> QED
  BY <1>1, <1>2, <1>3, NothingWaits DEF CutsOff

(* What a scan takes off is another packet of points, or none.             *)
Parcels(h) == IF h = <<>> THEN <<>> ELSE IF Serial!What(h[1]) # "LDACK" THEN <<h>> ELSE <<>>

LEMMA PointsFollow ==
  ASSUME messages \in Lines
  PROVE  /\ Parts(PointOf, 0) = <<>>
         /\ \A n \in 0 .. Known : Parts(PointOf, n) \in Seq(Seq(UnitType))
         /\ \A m \in 1 .. Known : Parts(PointOf, m) =
              Parts(PointOf, m - 1) \o (IF messages[m] = "ack" THEN <<>> ELSE <<Serial!Message(m)>>)
<1>1. Known \in Nat /\ \A m \in 1 .. Known : Serial!Message(m) \in Seq(UnitType)
  BY MessageTyped
<1>2. ASSUME NEW m \in 1 .. Known
      PROVE  (IF messages[m] = "ack" THEN <<>> ELSE <<Serial!Message(m)>>) \in Seq(Seq(UnitType))
  <2> DEFINE x == Serial!Message(m)
  <2>1. x \in Seq(UnitType)
    BY <1>1
  <2> HIDE DEF x
  <2>2. <<x>> \in Seq(Seq(UnitType)) /\ <<>> \in Seq(Seq(UnitType))
    BY <2>1
  <2> QED
    BY <2>2 DEF x
<1>3. PointOf \in [1 .. Known -> Seq(Seq(UnitType))]
  BY <1>2 DEF PointOf
<1>4. \A m \in 1 .. Known : PointOf[m] = IF messages[m] = "ack" THEN <<>> ELSE <<Serial!Message(m)>>
  BY DEF PointOf
<1> HIDE DEF PointOf
<1> DEFINE S == Seq(UnitType)
<1> HIDE DEF S
<1>5. PointOf \in [1 .. Known -> Seq(S)]
  BY <1>3 DEF S
<1>6. /\ Parts(PointOf, 0) = <<>>
      /\ \A n \in 0 .. Known : Parts(PointOf, n) \in Seq(S)
      /\ \A m \in 1 .. Known : Parts(PointOf, m) = Parts(PointOf, m - 1) \o PointOf[m]
  BY <1>1, <1>5, PartsFollow
<1> QED
  BY <1>4, <1>6 DEF S

TakesOff(w, k, b, z, h) ==
  \E scan \in Serial!Scans(SubSeq(w, 1, k)) :
    b = scan.over /\ z = scan.packet /\ h = SubSeq(w, b - z + 1, b)

LEMMA CutsScan ==
  ASSUME messages \in Lines, NEW s \in 0 .. Len(Serial!Sent), NEW lost, NEW any,
         NEW c \in Seq(Seq(UnitType)), NEW w \in Seq(UnitType), CutsOff(c, w, s, lost, any),
         NEW k \in 0 .. Len(w), NEW b, NEW z, NEW h, TakesOff(w, k, b, z, h)
  PROVE  /\ CutsOff(c \o Parcels(h), SubSeq(w, b + 1, Len(w)), s, lost, any)
         /\ h \in Seq(UnitType) /\ Len(h) = z
<1> DEFINE d == SubSeq(w, 1, k)
           a == b - z + 1
           v == SubSeq(w, b + 1, Len(w))
           more == c \o Parcels(h)
<1>1. Len(w) \in Nat /\ Len(c) \in Nat /\ s \in Nat /\ Len(Serial!Sent) \in Nat
  BY SentLaid
<1>2. d \in Seq(UnitType) /\ Len(d) = k /\ \A i \in 1 .. k : d[i] = w[i]
  <2>1. 1 \in 1 .. Len(w) + 1 /\ k \in 1 - 1 .. Len(w) /\ k - 1 + 1 = k /\ \A i \in 1 .. k : 1 + i - 1 = i
    BY <1>1
  <2>2. d \in Seq(UnitType) /\ Len(d) = k - 1 + 1 /\ \A i \in 1 .. k - 1 + 1 : d[i] = w[1 + i - 1]
    BY <2>1, PieceIs
  <2> QED
    BY <2>1, <2>2
<1>3. /\ b \in 0 .. k /\ z \in 0 .. b /\ h = SubSeq(w, a, b)
      /\ \E scan \in Serial!Scans(d) : b = scan.over /\ z = scan.packet
  <2>1. PICK scan \in Serial!Scans(d) : b = scan.over /\ z = scan.packet /\ h = SubSeq(w, a, b)
    BY DEF TakesOff
  <2> HIDE DEF d, a
  <2>2. scan.over \in 0 .. Len(d) /\ scan.packet \in 0 .. scan.over
    BY <1>2, <2>1, ScanBounded
  <2> QED
    BY <1>2, <2>1, <2>2
<1> HIDE DEF d, v
<1>4. /\ z \in Nat /\ a \in 1 .. b + 1 /\ b \in 0 .. Len(w) /\ b \in Nat /\ a \in Nat
      /\ b - a + 1 = z
  <2>1. b \in 0 .. k /\ z \in 0 .. b
    BY <1>3
  <2>2. b \in Nat /\ z \in Nat
    BY <1>1, <2>1
  <2>3. b \in 0 .. Len(w)
    BY <1>1, <2>1, <2>2
  <2>4. b - z + 1 \in 1 .. b + 1 /\ b - z + 1 \in Nat /\ b - (b - z + 1) + 1 = z
    BY <2>1, <2>2
  <2> QED
    BY <2>2, <2>3, <2>4
<1> HIDE DEF a
<1>5. h \in Seq(UnitType) /\ Len(h) = z
  <2>1. a \in 1 .. Len(w) + 1 /\ b \in a - 1 .. Len(w)
    BY <1>1, <1>4
  <2>2. h = SubSeq(w, a, b)
    BY <1>3
  <2>3. h \in Seq(UnitType) /\ Len(h) = b - a + 1
    BY <2>1, <2>2, PieceIs
  <2> QED
    BY <1>4, <2>3
<1>6. Waits(w, s, lost) /\ LaidCut(c, w, s, lost)
  BY DEF CutsOff
<1>7. Waits(v, s, lost) /\ LaidCut(c, v, s, lost)
  BY <1>1, <1>4, <1>6, RestWaits, CutRests DEF v
<1>8. Len(v) = Len(w) - b
  <2>1. b + 1 \in 1 .. Len(w) + 1 /\ Len(w) \in (b + 1) - 1 .. Len(w) /\ Len(w) - (b + 1) + 1 = Len(w) - b
    BY <1>1, <1>4
  <2>2. Len(v) = Len(w) - (b + 1) + 1
    BY <2>1, PieceIs DEF v
  <2> QED
    BY <2>1, <2>2
<1>9. z > 0 => h # <<>> /\ h[1] = w[a] /\ w[a] = d[a] /\ a \in 1 .. b /\ b \in 1 .. Len(w)
  <2>1. ASSUME z > 0 PROVE h # <<>> /\ h[1] = w[a] /\ w[a] = d[a] /\ a \in 1 .. b /\ b \in 1 .. Len(w)
    <3>1. a \in 1 .. b /\ b \in 1 .. Len(w) /\ a \in 1 .. k /\ h # <<>>
      BY <1>1, <1>3, <1>4, <1>5, <2>1, SMTT(30)
    <3>2. 1 \in 1 .. b - a + 1 /\ a + 1 - 1 = a
      BY <1>4, <2>1
    <3>3. a \in 1 .. Len(w) + 1 /\ b \in a - 1 .. Len(w)
      BY <1>1, <1>4
    <3>4. \A i \in 1 .. b - a + 1 : SubSeq(w, a, b)[i] = w[a + i - 1]
      BY <3>3, PieceIs
    <3>5. h[1] = w[a]
      BY <1>3, <3>2, <3>4
    <3> QED
      BY <1>2, <3>1, <3>5
  <2> QED
    BY <2>1
(* No packet of points.                                                    *)
<1>10. Parcels(h) = <<>> => more = c
  BY DEF Parcels
<1>11. Parcels(h) # <<>> =>
         /\ z > 0 /\ Serial!What(d[a]) # "LDACK" /\ Parcels(h) = <<h>>
         /\ Len(more) = Len(c) + 1 /\ more[Len(c) + 1] = h /\ \A i \in 1 .. Len(c) : more[i] = c[i]
  <2>1. ASSUME Parcels(h) # <<>>
        PROVE  /\ z > 0 /\ Serial!What(d[a]) # "LDACK" /\ Parcels(h) = <<h>>
               /\ Len(more) = Len(c) + 1 /\ more[Len(c) + 1] = h /\ \A i \in 1 .. Len(c) : more[i] = c[i]
    <3>1. h # <<>> /\ Serial!What(h[1]) # "LDACK" /\ Parcels(h) = <<h>>
      BY <2>1 DEF Parcels
    <3>2. z > 0
      BY <1>4, <1>5, <3>1
    <3>3. /\ Len(c \o <<h>>) = Len(c) + 1 /\ (c \o <<h>>)[Len(c) + 1] = h
          /\ \A i \in 1 .. Len(c) : (c \o <<h>>)[i] = c[i]
      BY <1>5
    <3> QED
      BY <1>9, <3>1, <3>2, <3>3
  <2> QED
    BY <2>1
<1> HIDE DEF more
<1>12. LaidCut(more, v, s, lost)
  <2>1. CASE Parcels(h) = <<>>
    BY <1>7, <1>10, <2>1
  <2>2. CASE Parcels(h) # <<>>
    <3>1. h = SubSeq(w, a, b) /\ a \in 1 .. b /\ b \in 1 .. Len(w)
      BY <1>3, <1>9, <1>11, <2>2
    <3>2. /\ Len(more) = Len(c) + 1 /\ more[Len(c) + 1] = h /\ \A i \in 1 .. Len(c) : more[i] = c[i]
      BY <1>11, <2>2
    <3>3. LaidCut(more, SubSeq(w, b + 1, Len(w)), s, lost)
      BY <1>1, <1>6, <3>1, <3>2, CutMore
    <3> QED
      BY <3>3 DEF v
  <2> QED
    BY <2>1, <2>2
(* Where nothing was lost.                                                 *)
<1>13. ASSUME lost = {}
       PROVE  /\ s - Len(w) \in Nat /\ (s - Len(w)) + k <= Len(Serial!Sent)
              /\ \A i \in 1 .. Len(w) : w[i] = Serial!Sent[(s - Len(w)) + i]
  <2>1. Len(w) \in 0 .. s /\ \A i \in 1 .. Len(w) : w[i] = Serial!Sent[s - Len(w) + i]
    BY <1>6, <1>13, AllWaits
  <2>2. Len(w) \in 0 .. s /\ k \in 0 .. Len(w) /\ s \in 0 .. Len(Serial!Sent)
    BY <2>1
  <2>3. s - Len(w) \in Nat /\ (s - Len(w)) + k <= Len(Serial!Sent)
    BY <1>1, <2>2
  <2> QED
    BY <2>1, <2>3
<1>14. ASSUME lost = {}, Parcels(h) # <<>>
       PROVE  \E m \in 1 .. Known : /\ messages[m] # "ack" /\ h = Serial!Message(m)
                                    /\ z = Size(m) /\ (s - Len(w)) + (b - z) = End(m - 1)
  <2> DEFINE o == s - Len(w)
  <2>1. o \in Nat /\ o + Len(d) <= Len(Serial!Sent) /\ \A i \in 1 .. Len(d) : d[i] = Serial!Sent[o + i]
    <3>1. o \in Nat /\ o + k <= Len(Serial!Sent)
      BY <1>13, <1>14
    <3>2. \A i \in 1 .. k : i \in 1 .. Len(w)
      BY <1>1
    <3> QED
      BY <1>2, <1>13, <1>14, <3>1, <3>2
  <2>2. \A i \in 1 .. Len(w) : w[i] = Serial!Sent[o + i]
    BY <1>13, <1>14
  <2>3. PICK scan \in Serial!Scans(d) : b = scan.over /\ z = scan.packet
    BY <1>3
  <2>8. z > 0 /\ scan.packet > 0 /\ Serial!What(d[scan.over - scan.packet + 1]) # "LDACK"
    BY <1>11, <1>14, <2>3 DEF a
  <2> HIDE DEF o
  <2>9. PICK m \in 1 .. Known : /\ messages[m] # "ack" /\ scan.packet = Size(m)
                                /\ o + (scan.over - scan.packet) = End(m - 1)
    BY <1>2, <2>1, <2>3, <2>8, ScanFindsStart
  <2>4. messages[m] # "ack" /\ z = Size(m) /\ o + (b - z) = End(m - 1)
    BY <2>3, <2>9
  <2>10. o + a - 1 = o + (b - z)
    BY <1>1, <1>4, <2>1
  <2>5. b - a + 1 = Size(m) /\ o + a - 1 = End(m - 1) /\ a \in 1 .. b /\ b \in 1 .. Len(w)
    BY <1>4, <1>9, <2>4, <2>8, <2>10
  <2>6. h = SubSeq(w, a, b)
    BY <1>3
  <2>7. h = Serial!Message(m)
    BY <2>1, <2>2, <2>5, <2>6, MessageCut
  <2> QED
    BY <2>4, <2>7 DEF o
<1>15. ASSUME lost = {}, NEW i \in 1 .. Len(more) PROVE IsMessage(more[i])
  <2>1. \A j \in 1 .. Len(c) : IsMessage(c[j])
    BY <1>15 DEF CutsOff
  <2>2. CASE Parcels(h) = <<>>
    BY <1>10, <1>15, <2>1, <2>2
  <2>3. CASE Parcels(h) # <<>>
    <3>1. IsMessage(h)
      BY <1>14, <1>15, <2>3 DEF IsMessage
    <3>2. i \in 1 .. Len(c) \/ i = Len(c) + 1
      BY <1>1, <1>11, <1>15, <2>3
    <3> QED
      BY <1>11, <2>1, <2>3, <3>1, <3>2
  <2> QED
    BY <2>2, <2>3
<1>16. ASSUME lost = {}, ~any PROVE \E n : AllUpTo(n, more, v, s)
  <2>1. PICK n : AllUpTo(n, c, w, s)
    BY <1>16 DEF CutsOff
  <2>2. n \in 0 .. Known /\ s - Len(w) = End(n) /\ c = Parts(PointOf, n)
    BY <2>1 DEF AllUpTo
  <2>3. \/ b = 0 /\ z = 0
        \/ n + 1 \in 1 .. Known /\ b = Size(n + 1) /\ z = Size(n + 1)
    <3>1. PICK scan \in Serial!Scans(d) : b = scan.over /\ z = scan.packet
      BY <1>3
    <3>2. End(n) + Len(d) <= Len(Serial!Sent)
      BY <1>2, <1>13, <1>16, <2>2
    <3>3. ASSUME NEW i \in 1 .. Len(d) PROVE d[i] = Serial!Sent[End(n) + i]
      <4>1. i \in 1 .. k /\ i \in 1 .. Len(w)
        BY <1>1, <1>2
      <4> QED
        BY <1>2, <1>13, <1>16, <2>2, <4>1
    <3>4. \/ scan.over = 0 /\ scan.packet = 0
          \/ /\ n + 1 \in 1 .. Known /\ Size(n + 1) <= Len(d)
             /\ scan.over = Size(n + 1) /\ scan.packet = Size(n + 1)
      BY <1>2, <2>2, <3>2, <3>3, ScanAtStart
    <3> QED
      BY <3>1, <3>4
  <2>4. CASE b = 0 /\ z = 0
    <3>1. Parcels(h) = <<>>
      BY <1>11, <2>4
    <3>2. s - Len(v) = s - Len(w)
      BY <1>1, <1>8, <2>4
    <3>3. AllUpTo(n, more, v, s)
      BY <1>10, <2>2, <3>1, <3>2 DEF AllUpTo
    <3> QED
      BY <3>3
  <2>5. CASE n + 1 \in 1 .. Known /\ b = Size(n + 1) /\ z = Size(n + 1)
    <3> DEFINE m == n + 1
    <3>1. m \in 1 .. Known /\ m - 1 = n /\ b = Size(m) /\ z = Size(m)
      BY <2>2, <2>5
    <3> HIDE DEF m
    <3>2. Size(m) \in {3, 4} /\ End(m) = End(n) + Size(m)
      BY <3>1, SentLaid
    <3>3. h = Serial!Message(m)
      <4>1. b \in 1 .. Len(w) /\ a \in 1 .. b /\ b - a + 1 = Size(m) /\ End(n) + a - 1 = End(m - 1)
            /\ End(n) \in Nat
        <5>1. End(n) \in Nat
          BY <1>13, <1>16, <2>2
        <5>2. a = 1
          BY <1>4, <3>1, SMTT(30)
        <5>3. End(n) + a - 1 = End(n)
          BY <5>1, <5>2
        <5>4. b \in 1 .. Len(w) /\ 1 \in 1 .. b /\ b - 1 + 1 = b
          <6>1. b \in {3, 4}
            BY <3>1, <3>2
          <6> QED
            BY <1>1, <1>4, <6>1
        <5> QED
          BY <3>1, <5>1, <5>2, <5>3, <5>4
      <4>2. h = SubSeq(w, a, b) /\ \A i \in 1 .. Len(w) : w[i] = Serial!Sent[End(n) + i]
        BY <1>3, <1>13, <1>16, <2>2
      <4> QED
        BY <3>1, <4>1, <4>2, MessageCut
    <3>4. Parcels(h) = IF messages[m] = "ack" THEN <<>> ELSE <<Serial!Message(m)>>
      <4>1. h # <<>>
        BY <1>9, <3>1, <3>2
      <4>2. h[1] = [m |-> m, k |-> 1] /\ 1 \in 1 .. Size(m)
        BY <3>1, <3>2, <3>3, MessageTyped
      <4> DEFINE u == h[1]
      <4>3. u = [m |-> m, k |-> 1]
        BY <4>2
      <4> HIDE DEF u
      <4>4. Serial!What(u) = "LDACK" <=> messages[m] = "ack"
        BY <3>1, <4>2, <4>3, UnitKinds
      <4> QED
        BY <3>3, <4>1, <4>4 DEF Parcels, u
    <3>5. more = Parts(PointOf, m)
      <4>1. Parts(PointOf, m) = Parts(PointOf, n) \o Parcels(h)
        BY <3>1, <3>4, PointsFollow
      <4> QED
        BY <2>2, <4>1 DEF more
    <3>6. s - Len(v) = End(m) /\ m \in 0 .. Known
      <4>1. Len(v) = Len(w) - Size(m) /\ s - Len(w) = End(n) /\ Size(m) \in Nat
        BY <1>8, <2>2, <3>1, <3>2
      <4>2. s - Len(v) = (s - Len(w)) + Size(m)
        BY <1>1, <4>1
      <4>3. Known \in Nat
        BY MessageTyped
      <4> QED
        BY <3>1, <3>2, <4>1, <4>2, <4>3
    <3>7. AllUpTo(m, more, v, s)
      BY <3>5, <3>6 DEF AllUpTo
    <3> QED
      BY <3>7
  <2> QED
    BY <2>3, <2>4, <2>5
<1> QED
  BY <1>5, <1>7, <1>12, <1>15, <1>16 DEF CutsOff, more, v

-----------------------------------------------------------------------------
(* The inductive invariant of the serial source.                           *)
Waiting == data \o port
Cut == Serial!Handed \o Parcels(held)

SerialTyped ==
  /\ messages \in Lines /\ sent \in 0 .. Len(Serial!Sent)
  /\ data \in Seq(UnitType) /\ port \in Seq(UnitType) /\ Len(port) <= PortCap
  /\ held \in Seq(UnitType) /\ got \in Seq(Seq(UnitType)) /\ points \in Seq(Seq(UnitType))
  /\ thread = "none" => data = <<>> /\ port = <<>>
  /\ thread \notin {"drop", "push"} => held = <<>>
  /\ thread = "push" => held # <<>>

SerialInv == SerialTyped /\ CutsOff(Cut, Waiting, sent, overflowed, missed)

LEMMA SerialStarts ==
  ASSUME Serial!Init PROVE SerialInv
<1>1. /\ messages \in Lines /\ sent = 0 /\ port = <<>> /\ overflowed = {} /\ thread = "none"
      /\ held = <<>> /\ data = <<>> /\ points = <<>> /\ got = <<>>
  BY DEF Serial!Init
<1>2. Waiting = <<>> /\ Cut = <<>>
  BY <1>1 DEF Waiting, Cut, Serial!Handed, Parcels
<1>3. SerialTyped
  <2>1. Len(Serial!Sent) \in Nat /\ PortCap \in Nat
    BY <1>1, SentLaid, SerialParameters DEF Serial!SerialAssumption
  <2>2. <<>> \in Seq(UnitType) /\ <<>> \in Seq(Seq(UnitType)) /\ Len(<<>>) = 0
    OBVIOUS
  <2>3. Len(port) <= PortCap /\ sent \in 0 .. Len(Serial!Sent)
    BY <1>1, <2>1, <2>2
  <2> QED
    BY <1>1, <2>2, <2>3 DEF SerialTyped
<1>4. CutsOff(<<>>, <<>>, 0, {}, missed)
  <2>1. LaidCut(<<>>, <<>>, 0, {})
    BY DEF LaidCut
  <2>2. AllUpTo(0, <<>>, <<>>, 0)
    <3>1. End(0) = 0 /\ Known \in Nat /\ Parts(PointOf, 0) = <<>>
      BY <1>1, SentLaid, MessageTyped, PointsFollow
    <3> QED
      BY <3>1 DEF AllUpTo
  <2> QED
    BY <2>1, <2>2, NothingWaits DEF CutsOff
<1> QED
  BY <1>1, <1>2, <1>3, <1>4 DEF SerialInv

LEMMA CutTyped ==
  ASSUME SerialTyped
  PROVE  /\ Serial!Handed \in Seq(Seq(UnitType)) /\ Parcels(held) \in Seq(Seq(UnitType))
         /\ Cut \in Seq(Seq(UnitType)) /\ Waiting \in Seq(UnitType)
         /\ Len(Waiting) = Len(data) + Len(port) /\ Len(data) \in Nat /\ Len(port) \in Nat
<1>1. held \in Seq(UnitType) /\ got \in Seq(Seq(UnitType)) /\ points \in Seq(Seq(UnitType))
      /\ data \in Seq(UnitType) /\ port \in Seq(UnitType)
  BY DEF SerialTyped
<1>2. Parcels(held) \in Seq(Seq(UnitType))
  <2>1. <<>> \in Seq(Seq(UnitType)) /\ <<held>> \in Seq(Seq(UnitType))
    BY <1>1
  <2> QED
    BY <2>1 DEF Parcels
<1>3. Serial!Handed \in Seq(Seq(UnitType))
  <2> DEFINE S == Seq(UnitType)
  <2> HIDE DEF S
  <2>1. got \in Seq(S) /\ points \in Seq(S)
    BY <1>1 DEF S
  <2>2. got \o points \in Seq(S)
    BY <2>1, ConcatProperties
  <2> QED
    BY <2>2 DEF Serial!Handed, S
<1>4. Cut \in Seq(Seq(UnitType))
  <2> DEFINE S == Seq(UnitType)
             p == Parcels(held)
  <2> HIDE DEF S, p
  <2>1. Serial!Handed \in Seq(S) /\ p \in Seq(S)
    BY <1>2, <1>3 DEF S, p
  <2>2. Serial!Handed \o p \in Seq(S)
    BY <2>1, ConcatProperties
  <2> QED
    BY <2>2 DEF Cut, S, p
<1>5. Waiting \in Seq(UnitType) /\ Len(Waiting) = Len(data) + Len(port)
  BY <1>1, ConcatProperties DEF Waiting
<1> QED
  BY <1>1, <1>2, <1>3, <1>4, <1>5

(* The messages stay what they are, so it is enough to say what becomes of  *)
(* the rest.                                                               *)
LEMMA InvAfter ==
  ASSUME messages' = messages, SerialTyped',
         CutsOff(Cut', Waiting', sent', overflowed', missed')
  PROVE  SerialInv'
<1>1. Serial!Sent' = Serial!Sent
  BY DEF Serial!Sent, Serial!Message
<1>2. Place' = Place
  BY <1>1 DEF Place
<1>3. Known' = Known /\ PointOf' = PointOf /\ MessageOf' = MessageOf
  <2>1. Known' = Known
    BY DEF Known
  <2> QED
    BY <2>1 DEF PointOf, MessageOf, Serial!Message
<1>4. Waits(Waiting, sent, overflowed)'
  <2>1. Waits(Waiting', sent', overflowed')
    BY DEF CutsOff
  <2> QED
    BY <1>1, <1>2, <2>1 DEF Waits, Rises, Unbroken, LostBetween, CameBy
<1>5. LaidCut(Cut, Waiting, sent, overflowed)'
  <2>1. LaidCut(Cut', Waiting', sent', overflowed')
    BY DEF CutsOff
  <2> QED
    BY <1>1, <1>2, <2>1
    DEF LaidCut, First, Final, Parcel, Rises, Unbroken, LostBetween, CameBy
<1>6. (overflowed = {} => \A i \in 1 .. Len(Cut) : IsMessage(Cut[i]))'
  <2>1. overflowed' = {} => \A i \in 1 .. Len(Cut') : IsMessage(Cut'[i])
    BY DEF CutsOff
  <2> QED
    BY <1>3, <2>1 DEF IsMessage, Serial!Message
<1>7. (overflowed = {} /\ ~missed => \E n : AllUpTo(n, Cut, Waiting, sent))'
  <2>1. ASSUME NEW n, AllUpTo(n, Cut', Waiting', sent') PROVE AllUpTo(n, Cut, Waiting, sent)'
    <3>1. End(n)' = End(n) /\ Parts(PointOf, n)' = Parts(PointOf, n)
      BY <1>3 DEF End, Parts
    <3> QED
      BY <1>3, <2>1, <3>1 DEF AllUpTo
  <2>2. overflowed' = {} /\ ~missed' => \E n : AllUpTo(n, Cut', Waiting', sent')
    BY DEF CutsOff
  <2> QED
    BY <2>1, <2>2
<1>8. CutsOff(Cut, Waiting, sent, overflowed, missed)'
  BY <1>4, <1>5, <1>6, <1>7 DEF CutsOff
<1> QED
  BY <1>8 DEF SerialInv

LEMMA CutsAny ==
  ASSUME NEW c, NEW w, NEW s, NEW lost, NEW any, NEW all, CutsOff(c, w, s, lost, any), any => all
  PROVE  CutsOff(c, w, s, lost, all)
BY DEF CutsOff

LEMMA NothingCut ==
  ASSUME SerialInv, messages' = messages, SerialTyped', Cut' = Cut, Waiting' = Waiting,
         sent' = sent, overflowed' = overflowed, missed' = missed
  PROVE  SerialInv'
<1>1. CutsOff(Cut', Waiting', sent', overflowed', missed')
  BY DEF SerialInv
<1> QED
  BY <1>1, InvAfter

LEMMA TransmitKept ==
  ASSUME SerialInv, Serial!Transmit PROVE SerialInv'
<1> DEFINE u == Serial!Sent[sent + 1]
<1>1. SerialTyped /\ CutsOff(Cut, Waiting, sent, overflowed, missed)
  BY DEF SerialInv
<1>0. missed' = (missed \/ ~Serial!Opened)
  BY DEF Serial!Transmit
<1>2. /\ sent < Len(Serial!Sent) /\ sent' = sent + 1
      /\ IF Serial!Opened /\ Len(port) < PortCap THEN port' = Append(port, u) ELSE port' = port
      /\ overflowed' = IF Serial!Opened /\ Len(port) = PortCap THEN overflowed \cup {u} ELSE overflowed
      /\ messages' = messages /\ thread' = thread /\ data' = data /\ held' = held
      /\ points' = points /\ got' = got
  BY DEF Serial!Transmit, Serial!buffer, Serial!rings, Serial!calls
<1>3. /\ messages \in Lines /\ sent \in 0 .. Len(Serial!Sent)
      /\ data \in Seq(UnitType) /\ port \in Seq(UnitType) /\ Len(port) <= PortCap
      /\ held \in Seq(UnitType) /\ got \in Seq(Seq(UnitType)) /\ points \in Seq(Seq(UnitType))
      /\ thread = "none" => data = <<>> /\ port = <<>>
      /\ thread \notin {"drop", "push"} => held = <<>>
      /\ thread = "push" => held # <<>>
  BY <1>1 DEF SerialTyped
<1>4. /\ Len(Serial!Sent) \in Nat /\ sent \in Nat /\ sent + 1 <= Len(Serial!Sent)
      /\ sent + 1 \in 0 .. Len(Serial!Sent) /\ u \in UnitType /\ PortCap \in Nat /\ Len(port) \in Nat
  <2>1. Serial!Sent \in Seq(UnitType)
    BY <1>3, SentLaid
  <2> DEFINE t == Serial!Sent
  <2>2. t \in Seq(UnitType) /\ sent < Len(t) /\ sent \in 0 .. Len(t)
    BY <1>2, <1>3, <2>1
  <2> HIDE DEF t
  <2>3. Len(t) \in Nat /\ sent \in Nat /\ sent + 1 \in 1 .. Len(t)
    BY <2>2
  <2>4. t[sent + 1] \in UnitType
    BY <2>2, <2>3
  <2>5. PortCap \in Nat /\ Len(port) \in Nat
    BY <1>3, SerialParameters DEF Serial!SerialAssumption
  <2> QED
    BY <2>3, <2>4, <2>5 DEF t
<1>5. Serial!Sent' = Serial!Sent
  BY <1>2 DEF Serial!Sent, Serial!Message
<1>6. Cut' = Cut
  <2>1. Parcels(held)' = Parcels(held)
    BY <1>2 DEF Parcels, Serial!What
  <2> QED
    BY <1>2, <2>1 DEF Cut, Serial!Handed
<1> HIDE DEF u
<1>7. CASE Serial!Opened /\ Len(port) < PortCap
  <2>0. missed => missed'
    BY <1>0
  <2>1. port' = Append(port, u) /\ overflowed' = overflowed
    BY <1>2, <1>4, <1>7
  <2>2. Waiting' = Append(Waiting, u)
    <3>1. data \o Append(port, u) = Append(data \o port, u)
      BY <1>3, <1>4, SMTT(30)
    <3> QED
      BY <1>2, <2>1, <3>1 DEF Waiting
  <2>3. SerialTyped'
    <3>1. port' \in Seq(UnitType) /\ Len(port') <= PortCap
      BY <1>3, <1>4, <1>7, <2>1
    <3>2. thread' # "none"
      BY <1>2, <1>7 DEF Serial!Opened
    <3> QED
      BY <1>2, <1>3, <1>4, <1>5, <3>1, <3>2 DEF SerialTyped
  <2>4. CutsOff(Cut, Append(Waiting, u), sent + 1, overflowed, missed)
    BY <1>1, <1>3, <1>4, CutsMeet DEF u
  <2>5. CutsOff(Cut', Waiting', sent', overflowed', missed')
    BY <1>2, <1>6, <2>0, <2>1, <2>2, <2>4, CutsAny
  <2> QED
    BY <1>2, <2>3, <2>5, InvAfter
<1>8. CASE Serial!Opened /\ ~(Len(port) < PortCap)
  <2>0. missed => missed'
    BY <1>0
  <2>1. port' = port /\ overflowed' = overflowed \cup {u}
    BY <1>2, <1>3, <1>4, <1>8
  <2>2. Waiting' = Waiting
    BY <1>2, <2>1 DEF Waiting
  <2>3. SerialTyped'
    BY <1>2, <1>3, <1>4, <1>5, <2>1 DEF SerialTyped
  <2>4. CutsOff(Cut, Waiting, sent + 1, overflowed \cup {u}, missed)
    BY <1>1, <1>3, <1>4, CutsLose DEF u
  <2>6. CutsOff(Cut, Waiting, sent + 1, overflowed \cup {u}, missed')
    BY <2>0, <2>4, CutsAny
  <2>5. CutsOff(Cut', Waiting', sent', overflowed', missed')
    BY <1>2, <1>6, <2>1, <2>2, <2>6
  <2> QED
    BY <1>2, <2>3, <2>5, InvAfter
<1>9. CASE ~Serial!Opened
  <2>0. TRUE => missed'
    BY <1>0, <1>9
  <2>1. port' = port /\ overflowed' = overflowed
    BY <1>2, <1>9
  <2>2. Waiting = <<>> /\ Waiting' = <<>>
    <3>1. data = <<>> /\ port = <<>>
      BY <1>3, <1>9 DEF Serial!Opened
    <3> QED
      BY <1>2, <2>1, <3>1 DEF Waiting
  <2>3. SerialTyped'
    BY <1>2, <1>3, <1>4, <1>5, <2>1 DEF SerialTyped
  <2>4. CutsOff(Cut, <<>>, sent + 1, overflowed, TRUE)
    BY <1>1, <1>4, <2>2, CutsMiss
  <2>6. CutsOff(Cut, <<>>, sent + 1, overflowed, missed')
    BY <2>0, <2>4, CutsAny
  <2>5. CutsOff(Cut', Waiting', sent', overflowed', missed')
    BY <1>2, <1>6, <2>1, <2>2, <2>6
  <2> QED
    BY <1>2, <2>3, <2>5, InvAfter
<1> QED
  BY <1>7, <1>8, <1>9

(* Close throws away what waits, and perhaps what the ring holds.          *)
LEMMA JoinKept ==
  ASSUME SerialInv, NEW cleared, Serial!Join(cleared) PROVE SerialInv'
<1>1. SerialTyped /\ CutsOff(Cut, Waiting, sent, overflowed, missed)
  BY DEF SerialInv
<1>0. missed' = TRUE
  BY DEF Serial!Join
<1>2. /\ thread = "exited" /\ thread' = "none" /\ data' = <<>> /\ port' = <<>>
      /\ points' = <<>> \/ points' = points
      /\ messages' = messages /\ sent' = sent /\ overflowed' = overflowed /\ held' = held /\ got' = got
  BY DEF Serial!Join, Serial!rings
<1>3. /\ messages \in Lines /\ sent \in 0 .. Len(Serial!Sent) /\ PortCap \in Nat
      /\ got \in Seq(Seq(UnitType)) /\ points \in Seq(Seq(UnitType)) /\ held = <<>>
  BY <1>1, <1>2, SerialParameters DEF SerialTyped, Serial!SerialAssumption
<1>4. Serial!Sent' = Serial!Sent
  BY <1>2 DEF Serial!Sent, Serial!Message
<1>10. points' \in Seq(Seq(UnitType))
  <2>1. <<>> \in Seq(Seq(UnitType))
    OBVIOUS
  <2>2. CASE points' = <<>>
    BY <2>1, <2>2
  <2>3. CASE points' = points
    BY <1>3, <2>3
  <2> QED
    BY <1>2, <2>2, <2>3
<1>5. SerialTyped'
  <2>1. <<>> \in Seq(UnitType) /\ Len(<<>>) = 0
    OBVIOUS
  <2>2. Len(port') <= PortCap
    BY <1>2, <1>3, <2>1
  <2> QED
    BY <1>2, <1>3, <1>4, <1>10, <2>1, <2>2 DEF SerialTyped
<1>6. Cut = got \o points /\ Cut' = got \o points' /\ Waiting' = <<>>
  <2>1. Parcels(held) = <<>> /\ Parcels(held)' = <<>>
    BY <1>2, <1>3 DEF Parcels
  <2> DEFINE S == Seq(UnitType)
  <2>2. got \in Seq(S) /\ points \in Seq(S) /\ points' \in Seq(S)
    BY <1>3, <1>10
  <2> HIDE DEF S
  <2>3. got \o points \in Seq(S) /\ got \o points' \in Seq(S)
    BY <2>2, ConcatProperties
  <2>4. (got \o points) \o <<>> = got \o points /\ (got \o points') \o <<>> = got \o points'
    BY <2>3, ConcatEmptySeq
  <2> QED
    BY <1>2, <2>1, <2>4 DEF Cut, Waiting, Serial!Handed
<1>7. StartsAs(Cut, Cut') /\ Len(Cut) \in Nat /\ Len(Cut') \in Nat
  <2> DEFINE S == Seq(UnitType)
  <2>1. got \in Seq(S) /\ points \in Seq(S) /\ points' \in Seq(S)
    BY <1>3, <1>10
  <2> HIDE DEF S
  <2>2. got \o points \in Seq(S) /\ got \o points' \in Seq(S)
    BY <2>1, ConcatProperties
  <2>3. CASE points' = points
    BY <1>6, <2>2, <2>3 DEF StartsAs
  <2>4. CASE points' = <<>>
    <3>1. Cut' = got
      BY <1>6, <2>1, <2>4, ConcatEmptySeq
    <3>2. Len(got \o points) = Len(got) + Len(points) /\ Len(got) \in Nat /\ Len(points) \in Nat
          /\ \A i \in 1 .. Len(got) : (got \o points)[i] = got[i]
      BY <2>1
    <3> QED
      BY <1>6, <3>1, <3>2 DEF StartsAs
  <2> QED
    BY <1>2, <2>3, <2>4
<1>8. CutsOff(Cut', <<>>, sent, overflowed, TRUE)
  BY <1>1, <1>7, CutsJoin
<1>9. CutsOff(Cut', Waiting', sent', overflowed', missed')
  BY <1>0, <1>2, <1>6, <1>8
<1> QED
  BY <1>2, <1>5, <1>9, InvAfter

(* Steps that cut off nothing.                                             *)
LEMMA HandOn ==
  ASSUME NEW S, NEW g \in Seq(S), NEW p \in Seq(S)
  PROVE  /\ p # <<>> => /\ Append(g, Head(p)) \in Seq(S) /\ Tail(p) \in Seq(S)
                        /\ Append(g, Head(p)) \o Tail(p) = g \o p
         /\ \A h \in S : /\ Append(p, h) \in Seq(S)
                         /\ g \o Append(p, h) = (g \o p) \o <<h>>
         /\ (g \o p) \o <<>> = g \o p
<1>1. g \o p \in Seq(S) /\ (g \o p) \o <<>> = g \o p
  BY ConcatProperties, ConcatEmptySeq
<1>2. ASSUME NEW h \in S PROVE Append(p, h) \in Seq(S) /\ g \o Append(p, h) = (g \o p) \o <<h>>
  OBVIOUS
<1>3. ASSUME p # <<>>
      PROVE  /\ Append(g, Head(p)) \in Seq(S) /\ Tail(p) \in Seq(S)
             /\ Append(g, Head(p)) \o Tail(p) = g \o p
  BY <1>3
<1> QED
  BY <1>1, <1>2, <1>3

LEMMA QuietKept ==
  ASSUME SerialInv,
         Serial!Open \/ Serial!Close \/ Serial!ReceivePoints \/ Serial!ReceiveAck \/ Serial!Exit
           \/ Serial!Drop \/ Serial!Push
  PROVE  SerialInv'
<1>1. SerialTyped
  BY DEF SerialInv
<1>2. /\ messages \in Lines /\ sent \in 0 .. Len(Serial!Sent)
      /\ data \in Seq(UnitType) /\ port \in Seq(UnitType) /\ Len(port) <= PortCap
      /\ held \in Seq(UnitType) /\ got \in Seq(Seq(UnitType)) /\ points \in Seq(Seq(UnitType))
      /\ thread = "none" => data = <<>> /\ port = <<>>
      /\ thread \notin {"drop", "push"} => held = <<>>
      /\ thread = "push" => held # <<>>
  BY <1>1 DEF SerialTyped
<1>3. messages' = messages /\ sent' = sent /\ port' = port /\ overflowed' = overflowed /\ data' = data
  BY DEF Serial!Open, Serial!Close, Serial!ReceivePoints, Serial!ReceiveAck, Serial!Exit,
         Serial!Drop, Serial!Push, Serial!line, Serial!buffer
<1>4. missed' = missed
  BY DEF Serial!Open, Serial!Close, Serial!ReceivePoints, Serial!ReceiveAck, Serial!Exit,
         Serial!Drop, Serial!Push, Serial!line
<1>5. Serial!Sent' = Serial!Sent
  BY <1>3 DEF Serial!Sent, Serial!Message
<1>6. Waiting' = Waiting
  BY <1>3 DEF Waiting
<1>7. held' = held => Parcels(held)' = Parcels(held)
  BY <1>3 DEF Parcels, Serial!What
<1> DEFINE S == Seq(UnitType)
<1>8. got \in Seq(S) /\ points \in Seq(S)
  BY <1>2
<1> SUFFICES SerialTyped' /\ Cut' = Cut
  BY <1>3, <1>4, <1>6, NothingCut
<1>9. CASE Serial!Open \/ Serial!Close \/ Serial!ReceiveAck \/ Serial!Exit \/ Serial!Drop
  <2>1. held' = held /\ got' = got /\ points' = points
        /\ (thread' = "none" => thread = "none")
        /\ (thread' \notin {"drop", "push"} => thread \notin {"drop", "push"} \/ held = <<>>)
        /\ (thread' = "push" => thread = "push" \/ held # <<>>)
    BY <1>9 DEF Serial!Open, Serial!Close, Serial!ReceiveAck, Serial!Exit, Serial!Drop,
                Serial!buffer, Serial!rings, Serial!calls
  <2> QED
    BY <1>2, <1>3, <1>5, <1>7, <2>1 DEF SerialTyped, Cut, Serial!Handed
<1>10. CASE Serial!ReceivePoints
  <2>1. /\ points # <<>> /\ got' = Append(got, Head(points)) /\ points' = Tail(points)
        /\ held' = held /\ thread' = thread
    BY <1>10 DEF Serial!ReceivePoints, Serial!buffer
  <2> HIDE DEF S
  <2>2. got' \in Seq(S) /\ points' \in Seq(S) /\ got' \o points' = got \o points
    BY <1>8, <2>1, HandOn
  <2> USE DEF S
  <2> QED
    BY <1>2, <1>3, <1>5, <1>7, <2>1, <2>2 DEF SerialTyped, Cut, Serial!Handed
<1>11. CASE Serial!Push
  <2>1. /\ thread = "push" /\ thread' = "pass" /\ held' = <<>> /\ got' = got
        /\ IF Serial!What(held[1]) = "LDACK" THEN points' = points ELSE points' = Append(points, held)
    BY <1>11 DEF Serial!Push, Serial!calls
  <2>2. held # <<>> /\ held \in S /\ <<>> \in S
    BY <1>2, <2>1
  <2>3. Parcels(held)' = <<>>
    BY <2>1 DEF Parcels
  <2>4. Parcels(held) = IF Serial!What(held[1]) # "LDACK" THEN <<held>> ELSE <<>>
    BY <2>2 DEF Parcels
  <2> HIDE DEF S
  <2>5. points' \in Seq(S) /\ (got \o points') \o <<>> = (got \o points) \o Parcels(held)
    <3>1. CASE Serial!What(held[1]) = "LDACK"
      BY <1>8, <2>1, <2>4, <3>1
    <3>2. CASE Serial!What(held[1]) # "LDACK"
      <4>1. points' = Append(points, held) /\ Parcels(held) = <<held>>
        BY <2>1, <2>4, <3>2
      <4>2. Append(points, held) \in Seq(S) /\ got \o Append(points, held) = (got \o points) \o <<held>>
        BY <1>8, <2>2, HandOn
      <4>3. (got \o points') \o <<>> = got \o points'
        BY <1>8, <4>1, <4>2, HandOn
      <4> QED
        BY <4>1, <4>2, <4>3
    <3> QED
      BY <3>1, <3>2
  <2>6. Cut' = Cut
    BY <2>1, <2>3, <2>5 DEF Cut, Serial!Handed
  <2> USE DEF S
  <2> QED
    BY <1>2, <1>3, <1>5, <2>1, <2>2, <2>5, <2>6 DEF SerialTyped
<1> QED
  BY <1>9, <1>10, <1>11

(* What is read, and the rest of it.                                       *)
LEMMA SameSeq ==
  ASSUME NEW S, NEW x \in Seq(S), NEW y \in Seq(S), Len(x) = Len(y),
         \A i \in 1 .. Len(x) : x[i] = y[i]
  PROVE  x = y
OBVIOUS

LEMMA RestIs ==
  ASSUME NEW S, NEW q \in Seq(S), NEW b \in 0 .. Len(q)
  PROVE  /\ SubSeq(q, b + 1, Len(q)) \in Seq(S) /\ Len(SubSeq(q, b + 1, Len(q))) = Len(q) - b
         /\ \A i \in 1 .. Len(q) - b : SubSeq(q, b + 1, Len(q))[i] = q[b + i]
<1> DEFINE e == SubSeq(q, b + 1, Len(q))
<1>1. Len(q) \in Nat /\ b \in Nat
  OBVIOUS
<1>2. /\ b + 1 \in 1 .. Len(q) + 1 /\ Len(q) \in (b + 1) - 1 .. Len(q)
      /\ Len(q) - (b + 1) + 1 = Len(q) - b
  BY <1>1
<1>3. /\ e \in Seq(S) /\ Len(e) = Len(q) - (b + 1) + 1
      /\ \A i \in 1 .. Len(q) - (b + 1) + 1 : e[i] = q[(b + 1) + i - 1]
  BY <1>2, PieceIs
<1> HIDE DEF e
<1>4. ASSUME NEW i \in 1 .. Len(q) - b PROVE e[i] = q[b + i]
  <2>1. (b + 1) + i - 1 = b + i /\ i \in 1 .. Len(q) - (b + 1) + 1
    BY <1>1
  <2> QED
    BY <1>3, <2>1
<1> QED
  BY <1>2, <1>3, <1>4 DEF e

LEMMA RestLengths ==
  ASSUME NEW x \in Nat, NEW y \in Nat, NEW n \in Nat, n <= y, NEW b \in Nat, b <= x + n
  PROVE  /\ (x + n) - b \in Nat /\ y - n \in Nat /\ (x + y) - b = ((x + n) - b) + (y - n)
         /\ \A i \in Nat : b + i = x + (n + (i - ((x + n) - b)))
OBVIOUS

IsRest(e, q, b) == e = SubSeq(q, b + 1, Len(q))

ReadsOn(S, d, p, n, r, w, b, a) ==
  /\ d \in Seq(S) /\ p \in Seq(S) /\ n \in 0 .. Len(p)
  /\ r = d \o SubSeq(p, 1, n) /\ w = d \o p
  /\ b \in 0 .. Len(r) /\ a \in 1 .. b + 1

LEMMA ReadOn ==
  ASSUME NEW S, NEW d, NEW p, NEW n, NEW r, NEW w, NEW b, NEW a, ReadsOn(S, d, p, n, r, w, b, a),
         NEW y, IsRest(y, p, n), NEW e, IsRest(e, r, b)
  PROVE  /\ Len(r) = Len(d) + n /\ r = SubSeq(w, 1, Len(d) + n)
         /\ SubSeq(r, a, b) = SubSeq(w, a, b)
         /\ e \in Seq(S) /\ y \in Seq(S) /\ Len(y) = Len(p) - n
         /\ IsRest(e \o y, w, b)
<1> DEFINE x == SubSeq(p, 1, n)
<1>0. d \in Seq(S) /\ p \in Seq(S) /\ n \in 0 .. Len(p) /\ b \in 0 .. Len(r) /\ a \in 1 .. b + 1
  BY DEF ReadsOn
<1>1. Len(d) \in Nat /\ Len(p) \in Nat /\ n \in Nat
  BY <1>0
<1>2. x \in Seq(S) /\ Len(x) = n /\ \A i \in 1 .. n : x[i] = p[i]
  <2>1. n \in 1 - 1 .. Len(p) /\ 1 \in 1 .. Len(p) + 1 /\ n - 1 + 1 = n /\ \A i \in 1 .. n : 1 + i - 1 = i
    BY <1>0, <1>1
  <2>2. x \in Seq(S) /\ Len(x) = n - 1 + 1 /\ \A i \in 1 .. n - 1 + 1 : x[i] = p[1 + i - 1]
    BY <1>0, <2>1, PieceIs
  <2> QED
    BY <2>1, <2>2
<1>3. y \in Seq(S) /\ Len(y) = Len(p) - n /\ \A i \in 1 .. Len(p) - n : y[i] = p[n + i]
  BY <1>0, RestIs DEF IsRest
<1>4. r = d \o x /\ w = d \o p
  BY DEF ReadsOn
<1> HIDE DEF x
<1>5. /\ r \in Seq(S) /\ Len(r) = Len(d) + n
      /\ \A i \in 1 .. Len(d) + n : r[i] = IF i <= Len(d) THEN d[i] ELSE x[i - Len(d)]
  <2>1. d \in Seq(S) /\ x \in Seq(S) /\ Len(x) = n /\ r = d \o x
    BY <1>0, <1>2, <1>4
  <2>2. /\ d \o x \in Seq(S) /\ Len(d \o x) = Len(d) + Len(x)
        /\ \A i \in 1 .. Len(d) + Len(x) :
             (d \o x)[i] = IF i <= Len(d) THEN d[i] ELSE x[i - Len(d)]
    BY <2>1, ConcatProperties
  <2> QED
    BY <2>1, <2>2
<1>6. /\ w \in Seq(S) /\ Len(w) = Len(d) + Len(p)
      /\ \A i \in 1 .. Len(d) + Len(p) : w[i] = IF i <= Len(d) THEN d[i] ELSE p[i - Len(d)]
  BY <1>0, <1>4, ConcatProperties
<1>7. ASSUME NEW i \in 1 .. Len(r) PROVE r[i] = w[i]
  <2>1. i \in 1 .. Len(d) + n /\ i \in 1 .. Len(d) + Len(p)
    BY <1>0, <1>1, <1>5
  <2>2. ~(i <= Len(d)) => i - Len(d) \in 1 .. n
    BY <1>1, <2>1
  <2> QED
    BY <1>2, <1>5, <1>6, <2>1, <2>2
<1>8. b \in 0 .. Len(d) + n /\ b \in Nat /\ a \in 1 .. b + 1 /\ a \in Nat
  BY <1>0, <1>1, <1>5
<1>9. r = SubSeq(w, 1, Len(d) + n)
  <2> DEFINE q == SubSeq(w, 1, Len(d) + n)
             m == Len(d) + n
  <2>1. m \in 1 - 1 .. Len(w) /\ 1 \in 1 .. Len(w) + 1 /\ m - 1 + 1 = m /\ \A i \in 1 .. m : 1 + i - 1 = i
    BY <1>0, <1>1, <1>6
  <2>2. q \in Seq(S) /\ Len(q) = m - 1 + 1 /\ \A i \in 1 .. m - 1 + 1 : q[i] = w[1 + i - 1]
    BY <1>6, <2>1, PieceIs
  <2>3. q \in Seq(S) /\ Len(q) = m /\ \A i \in 1 .. m : q[i] = w[i]
    BY <2>1, <2>2
  <2>4. Len(r) = m
    BY <1>5
  <2> HIDE DEF q, m
  <2>5. \A i \in 1 .. Len(r) : r[i] = q[i]
    BY <1>7, <2>3, <2>4
  <2>6. r = q
    BY <1>5, <2>3, <2>4, <2>5, SameSeq
  <2> QED
    BY <2>6 DEF q, m
<1>10. SubSeq(r, a, b) = SubSeq(w, a, b)
  <2> DEFINE q == SubSeq(r, a, b)
             f == SubSeq(w, a, b)
  <2>1. /\ a \in 1 .. Len(r) + 1 /\ b \in a - 1 .. Len(r)
        /\ a \in 1 .. Len(w) + 1 /\ b \in a - 1 .. Len(w)
    BY <1>0, <1>1, <1>5, <1>6, <1>8
  <2>2. q \in Seq(S) /\ Len(q) = b - a + 1 /\ \A i \in 1 .. b - a + 1 : q[i] = r[a + i - 1]
    BY <1>5, <2>1, PieceIs
  <2>3. f \in Seq(S) /\ Len(f) = b - a + 1 /\ \A i \in 1 .. b - a + 1 : f[i] = w[a + i - 1]
    BY <1>6, <2>1, PieceIs
  <2>4. \A i \in 1 .. b - a + 1 : a + i - 1 \in 1 .. Len(r)
    BY <1>5, <1>8
  <2>5. \A i \in 1 .. b - a + 1 : q[i] = f[i]
    BY <1>7, <2>2, <2>3, <2>4
  <2> HIDE DEF q, f
  <2>6. q = f
    BY <2>2, <2>3, <2>5
  <2> QED
    BY <2>6 DEF q, f
<1>12. /\ Len(r) = Len(d) + n /\ Len(w) = Len(d) + Len(p) /\ n <= Len(p) /\ b <= Len(d) + n
       /\ Len(d) \in Nat /\ Len(p) \in Nat /\ n \in Nat /\ b \in Nat
  <2>1. n <= Len(p) /\ b <= Len(d) + n
    BY <1>0, <1>1, <1>8
  <2> QED
    BY <1>1, <1>5, <1>6, <1>8, <2>1
<1>13. /\ Len(r) = Len(d) + n /\ Len(w) = Len(d) + Len(p)
       /\ (Len(d) + n) - b \in Nat /\ Len(p) - n \in Nat
       /\ (Len(d) + Len(p)) - b = ((Len(d) + n) - b) + (Len(p) - n)
       /\ \A i \in Nat : b + i = Len(d) + (n + (i - ((Len(d) + n) - b)))
  <2> DEFINE ld == Len(d)
             lp == Len(p)
  <2>1. ld \in Nat /\ lp \in Nat /\ n \in Nat /\ n <= lp /\ b \in Nat /\ b <= ld + n
    BY <1>12
  <2> HIDE DEF ld, lp
  <2>2. /\ (ld + n) - b \in Nat /\ lp - n \in Nat /\ (ld + lp) - b = ((ld + n) - b) + (lp - n)
        /\ \A i \in Nat : b + i = ld + (n + (i - ((ld + n) - b)))
    BY <2>1, RestLengths
  <2> QED
    BY <1>12, <2>2 DEF ld, lp
<1>11. e \in Seq(S) /\ e \o y = SubSeq(w, b + 1, Len(w))
  <2> DEFINE f == SubSeq(w, b + 1, Len(w))
             g == e \o y
  <2>1. b \in 0 .. Len(w)
    BY <1>0, <1>1, <1>5, <1>6, <1>8
  <2>2. e \in Seq(S) /\ Len(e) = Len(r) - b /\ \A i \in 1 .. Len(r) - b : e[i] = r[b + i]
    BY <1>0, <1>5, RestIs DEF IsRest
  <2>3. f \in Seq(S) /\ Len(f) = Len(w) - b /\ \A i \in 1 .. Len(w) - b : f[i] = w[b + i]
    BY <1>6, <2>1, RestIs
  <2> HIDE DEF f
  <2>4. Len(r) - b \in Nat /\ Len(p) - n \in Nat /\ Len(w) - b = (Len(r) - b) + (Len(p) - n)
    BY <1>13
  <2>5. g \in Seq(S) /\ Len(g) = Len(e) + Len(y)
        /\ \A i \in 1 .. Len(e) + Len(y) : g[i] = IF i <= Len(e) THEN e[i] ELSE y[i - Len(e)]
    BY <1>3, <2>2, ConcatProperties
  <2> HIDE DEF g
  <2>6. Len(g) = Len(w) - b
        /\ \A i \in 1 .. Len(w) - b : g[i] = IF i <= Len(r) - b THEN e[i] ELSE y[i - (Len(r) - b)]
    BY <1>3, <2>2, <2>4, <2>5
  <2>7. ASSUME NEW i \in 1 .. Len(w) - b PROVE g[i] = f[i]
    <3>1. i \in Nat /\ 1 <= i /\ i <= (Len(r) - b) + (Len(p) - n)
      BY <2>4
    <3>2. CASE i <= Len(r) - b
      <4>1. i \in 1 .. Len(r) - b /\ b + i \in 1 .. Len(r)
        BY <1>1, <1>5, <1>8, <2>4, <3>1, <3>2
      <4> QED
        BY <1>7, <2>2, <2>3, <2>6, <3>2, <4>1
    <3>3. CASE ~(i <= Len(r) - b)
      <4> DEFINE j == i - (Len(r) - b)
      <4>1. j \in 1 .. Len(p) - n
        BY <2>4, <3>1, <3>3
      <4>2. g[i] = y[j]
        BY <2>6, <3>3
      <4>3. b + i = Len(d) + (n + j) /\ n + j \in 1 .. Len(p)
        <5>0. b + i = Len(d) + (n + (i - ((Len(d) + n) - b)))
          BY <1>13, <3>1
        <5>1. j \in Nat /\ 1 <= j /\ j <= Len(p) - n
          BY <1>12, <4>1
        <5>2. b + i = Len(d) + (n + j)
          BY <1>13, <3>1, <5>0
        <5>3. n + j \in 1 .. Len(p)
          BY <1>12, <5>1
        <5> QED
          BY <5>2, <5>3
      <4> HIDE DEF j
      <4>4. y[j] = p[n + j]
        BY <1>3, <4>1
      <4>5. w[b + i] = p[n + j]
        <5>1. b + i \in 1 .. Len(d) + Len(p) /\ ~(b + i <= Len(d)) /\ (b + i) - Len(d) = n + j
          <6>1. n + j \in Nat /\ 1 <= n + j /\ n + j <= Len(p)
            BY <1>12, <4>3
          <6>2. \A k \in Nat : 1 <= k /\ k <= Len(p) =>
                  /\ Len(d) + k \in 1 .. Len(d) + Len(p) /\ ~(Len(d) + k <= Len(d))
                  /\ (Len(d) + k) - Len(d) = k
            BY <1>12
          <6> QED
            BY <4>3, <6>1, <6>2
        <5> QED
          BY <1>6, <5>1
      <4> QED
        BY <2>3, <4>2, <4>4, <4>5
    <3> QED
      BY <3>2, <3>3
  <2>8. g = f
    BY <2>3, <2>5, <2>6, <2>7, SameSeq
  <2> QED
    BY <2>2, <2>8 DEF f, g
<1> QED
  BY <1>3, <1>5, <1>9, <1>10, <1>11 DEF IsRest

LEMMA PassKept ==
  ASSUME SerialInv, Serial!Pass PROVE SerialInv'
<1>1. SerialTyped /\ CutsOff(Cut, Waiting, sent, overflowed, missed)
  BY DEF SerialInv
<1>2. /\ messages \in Lines /\ sent \in 0 .. Len(Serial!Sent) /\ thread = "pass"
      /\ data \in Seq(UnitType) /\ port \in Seq(UnitType) /\ Len(port) <= PortCap
      /\ got \in Seq(Seq(UnitType)) /\ points \in Seq(Seq(UnitType)) /\ held = <<>>
      /\ OneRecv \in Nat /\ PortCap \in Nat
  BY <1>1, SerialParameters DEF SerialTyped, Serial!Pass, Serial!SerialAssumption
<1>3. /\ messages' = messages /\ sent' = sent /\ overflowed' = overflowed /\ got' = got
      /\ points' = points
  BY DEF Serial!Pass, Serial!rings, Serial!calls
<1>4. missed' = missed
  BY DEF Serial!Pass
<1>5. PICK n \in 0 .. OneRecv :
        /\ n <= Len(port)
        /\ LET read == data \o SubSeq(port, 1, n)
           IN \E scan \in Serial!Scans(read) :
                /\ port' = SubSeq(port, n + 1, Len(port))
                /\ data' = SubSeq(read, scan.over + 1, Len(read))
                /\ held' = SubSeq(read, scan.over - scan.packet + 1, scan.over)
                /\ thread' = IF Serial!SeesFull(read) THEN "drop"
                             ELSE IF scan.packet > 0 THEN "push" ELSE "pass"
  BY DEF Serial!Pass
<1> DEFINE read == data \o SubSeq(port, 1, n)
<1>6. PICK scan \in Serial!Scans(read) :
        /\ port' = SubSeq(port, n + 1, Len(port))
        /\ data' = SubSeq(read, scan.over + 1, Len(read))
        /\ held' = SubSeq(read, scan.over - scan.packet + 1, scan.over)
        /\ thread' = IF Serial!SeesFull(read) THEN "drop"
                     ELSE IF scan.packet > 0 THEN "push" ELSE "pass"
  BY <1>5
<1>7. Len(port) \in Nat /\ Len(data) \in Nat /\ n \in 0 .. Len(port)
  BY <1>2, <1>5
<1>8. read \in Seq(UnitType)
  <2>1. n \in 1 - 1 .. Len(port) /\ 1 \in 1 .. Len(port) + 1
    BY <1>7
  <2>2. SubSeq(port, 1, n) \in Seq(UnitType)
    BY <1>2, <2>1, PieceIs
  <2> QED
    BY <1>2, <2>2, ConcatProperties
<1> DEFINE b == scan.over
           z == scan.packet
           a == b - z + 1
           h == held'
           k == Len(data) + n
<1>9. read = data \o SubSeq(port, 1, n)
  OBVIOUS
<1> HIDE DEF read
<1>10. b \in 0 .. Len(read) /\ z \in 0 .. b
  BY <1>6, <1>8, ScanBounded
<1>11. scan \in Serial!Scans(read) /\ h = SubSeq(read, a, b) /\ data' = SubSeq(read, b + 1, Len(read))
       /\ port' = SubSeq(port, n + 1, Len(port))
  BY <1>6
<1>12. b \in Nat /\ z \in Nat /\ a \in 1 .. b + 1
  <2>1. Len(read) \in Nat
    BY <1>8
  <2> HIDE DEF b, z
  <2> QED
    BY <1>10, <2>1
<1>13. a = b - z + 1 /\ b = scan.over /\ z = scan.packet
  OBVIOUS
<1> HIDE DEF a, b, z, h
<1>14. /\ Len(read) = k /\ read = SubSeq(Waiting, 1, k)
       /\ SubSeq(read, a, b) = SubSeq(Waiting, a, b)
       /\ data' \in Seq(UnitType) /\ port' \in Seq(UnitType) /\ Len(port') = Len(port) - n
       /\ data' \o port' = SubSeq(Waiting, b + 1, Len(Waiting))
  <2>1. Waiting = data \o port
    BY DEF Waiting
  <2>3. data \in Seq(UnitType) /\ port \in Seq(UnitType) /\ n \in 0 .. Len(port)
        /\ read = data \o SubSeq(port, 1, n) /\ b \in 0 .. Len(read) /\ a \in 1 .. b + 1
    BY <1>2, <1>7, <1>9, <1>10, <1>12
  <2> HIDE DEF k
  <2>2. /\ Len(read) = Len(data) + n /\ read = SubSeq(Waiting, 1, Len(data) + n)
        /\ SubSeq(read, a, b) = SubSeq(Waiting, a, b)
        /\ SubSeq(read, b + 1, Len(read)) \in Seq(UnitType)
        /\ SubSeq(port, n + 1, Len(port)) \in Seq(UnitType)
        /\ Len(SubSeq(port, n + 1, Len(port))) = Len(port) - n
        /\ SubSeq(read, b + 1, Len(read)) \o SubSeq(port, n + 1, Len(port))
             = SubSeq(Waiting, b + 1, Len(Waiting))
    <3> DEFINE d == data
               p == port
               w == Waiting
               y == SubSeq(port, n + 1, Len(port))
               e == SubSeq(read, b + 1, Len(read))
    <3>1. ReadsOn(UnitType, d, p, n, read, w, b, a) /\ IsRest(y, p, n) /\ IsRest(e, read, b)
      BY <2>1, <2>3 DEF ReadsOn, IsRest
    <3> HIDE DEF d, p, w, y, e
    <3>2. /\ Len(read) = Len(d) + n /\ read = SubSeq(w, 1, Len(d) + n)
          /\ SubSeq(read, a, b) = SubSeq(w, a, b)
          /\ e \in Seq(UnitType) /\ y \in Seq(UnitType) /\ Len(y) = Len(p) - n
          /\ IsRest(e \o y, w, b)
      BY <3>1, ReadOn
    <3> QED
      BY <3>2 DEF d, p, w, y, e, IsRest
  <2> QED
    BY <1>11, <2>2 DEF k
<1>15. k \in 0 .. Len(Waiting) /\ Waiting \in Seq(UnitType)
  <2>1. Waiting \in Seq(UnitType) /\ Len(Waiting) = Len(data) + Len(port)
    BY <1>1, CutTyped
  <2> QED
    BY <1>7, <2>1
<1>16. TakesOff(Waiting, k, b, z, h)
  <2>1. scan \in Serial!Scans(SubSeq(Waiting, 1, k)) /\ h = SubSeq(Waiting, b - z + 1, b)
    BY <1>11, <1>13, <1>14
  <2> QED
    BY <1>13, <2>1 DEF TakesOff
<1> HIDE DEF k
<1>17. Cut = Serial!Handed /\ Serial!Handed \in Seq(Seq(UnitType))
  <2> DEFINE S == Seq(UnitType)
  <2>1. Serial!Handed \in Seq(S) /\ Parcels(held) = <<>>
    BY <1>1, <1>2, CutTyped DEF Parcels
  <2> HIDE DEF S
  <2>2. Serial!Handed \o <<>> = Serial!Handed
    BY <2>1, ConcatEmptySeq
  <2> QED
    BY <2>1, <2>2 DEF Cut, S
<1>18. /\ CutsOff(Serial!Handed \o Parcels(h), SubSeq(Waiting, b + 1, Len(Waiting)), sent, overflowed, missed)
       /\ h \in Seq(UnitType) /\ Len(h) = z
  <2> DEFINE c == Serial!Handed
             w == Waiting
             lost == overflowed
             any == missed
             s == sent
  <2>1. CutsOff(c, w, s, lost, any)
    BY <1>1, <1>17
  <2>2. c \in Seq(Seq(UnitType)) /\ w \in Seq(UnitType) /\ s \in 0 .. Len(Serial!Sent)
        /\ k \in 0 .. Len(w) /\ TakesOff(w, k, b, z, h) /\ messages \in Lines
    BY <1>2, <1>15, <1>16, <1>17
  <2> HIDE DEF c, w, lost, any, s
  <2>3. /\ CutsOff(c \o Parcels(h), SubSeq(w, b + 1, Len(w)), s, lost, any)
        /\ h \in Seq(UnitType) /\ Len(h) = z
    BY <2>1, <2>2, CutsScan, SMTT(90)
  <2> QED
    BY <2>3 DEF c, w, lost, any, s
<1>19. Waiting' = SubSeq(Waiting, b + 1, Len(Waiting))
  BY <1>14 DEF Waiting
<1>20. Cut' = Serial!Handed \o Parcels(h)
  <2>1. Serial!Handed' = Serial!Handed
    BY <1>3 DEF Serial!Handed
  <2>2. Parcels(held)' = Parcels(held')
    BY <1>3 DEF Parcels, Serial!What
  <2> QED
    BY <2>1, <2>2 DEF Cut, h
<1>21. CutsOff(Cut', Waiting', sent', overflowed', missed')
  BY <1>3, <1>4, <1>18, <1>19, <1>20
<1>22. SerialTyped'
  <2>1. Serial!Sent' = Serial!Sent
    BY <1>3 DEF Serial!Sent, Serial!Message
  <2>2. held' \in Seq(UnitType) /\ Len(held') = z /\ thread' \in {"drop", "push", "pass"}
        /\ (thread' = "push" => z > 0) /\ (thread' = "pass" => z = 0)
    <3>1. held' \in Seq(UnitType) /\ Len(held') = z
      BY <1>18 DEF h
    <3>2. thread' = IF Serial!SeesFull(read) THEN "drop" ELSE IF z > 0 THEN "push" ELSE "pass"
      BY <1>6, <1>13
    <3> QED
      BY <1>12, <3>1, <3>2
  <2>3. (thread' = "push" => held' # <<>>) /\ (thread' = "pass" => held' = <<>>)
    BY <2>2
  <2>4. Len(port') <= PortCap
    BY <1>2, <1>7, <1>14
  <2> QED
    BY <1>2, <1>3, <1>14, <2>1, <2>2, <2>3, <2>4 DEF SerialTyped
<1> QED
  BY <1>3, <1>21, <1>22, InvAfter

LEMMA SerialKept ==
  ASSUME SerialInv, Serial!Next PROVE SerialInv'
BY TransmitKept, JoinKept, QuietKept, PassKept DEF Serial!Next

(* The invariant says what SerialFaithful does.                            *)
LEMMA SerialFollows ==
  ASSUME SerialInv PROVE Serial!SerialFaithful
<1>1. SerialTyped /\ CutsOff(Cut, Waiting, sent, overflowed, missed)
      /\ messages \in Lines /\ sent \in 0 .. Len(Serial!Sent)
  BY DEF SerialInv, SerialTyped
<1> DEFINE c == Serial!Handed
           S == Seq(UnitType)
<1>2. c \in Seq(S) /\ Len(c) \in Nat /\ DOMAIN c = 1 .. Len(c)
  BY <1>1, CutTyped
<1>3. Len(c) <= Len(Cut) /\ Len(Cut) \in Nat /\ Cut \in Seq(S) /\ \A i \in 1 .. Len(c) : Cut[i] = c[i]
  <2> DEFINE e == Parcels(held)
  <2>1. e \in Seq(S)
    BY <1>1, CutTyped
  <2> HIDE DEF c, e, S
  <2>2. /\ c \o e \in Seq(S) /\ Len(c \o e) = Len(c) + Len(e)
        /\ \A i \in 1 .. Len(c) + Len(e) : (c \o e)[i] = IF i <= Len(c) THEN c[i] ELSE e[i - Len(c)]
    BY <1>2, <2>1, ConcatProperties
  <2>3. Len(e) \in Nat
    BY <2>1
  <2>4. Len(c) <= Len(c) + Len(e) /\ Len(c) + Len(e) \in Nat
    BY <1>2, <2>3
  <2>5. \A i \in 1 .. Len(c) : i \in 1 .. Len(c) + Len(e) /\ i <= Len(c)
    BY <1>2, <2>3
  <2>6. Cut = c \o e
    BY DEF Cut, c, e
  <2> QED
    BY <2>2, <2>4, <2>5, <2>6
<1> HIDE DEF c
<1>4. \A i \in 1 .. Len(c) : i \in 1 .. Len(Cut)
  BY <1>2, <1>3
<1>5. LaidCut(Cut, Waiting, sent, overflowed)
      /\ (overflowed = {} => \A i \in 1 .. Len(Cut) : IsMessage(Cut[i]))
  BY <1>1 DEF CutsOff
<1>6. ASSUME NEW i \in 1 .. Len(c)
      PROVE  /\ c[i] \in Seq(CameBy(sent)) /\ c[i] # <<>> /\ Rises(c[i]) /\ Unbroken(c[i], overflowed)
             /\ overflowed = {} => IsMessage(c[i])
             /\ \A j \in 1 .. Len(c) : i < j => Final(c[i]) < First(c[j])
  <2>1. Parcel(c[i], sent, overflowed)
    BY <1>3, <1>4, <1>5 DEF LaidCut
  <2>2. \A j \in 1 .. Len(c) : i < j => Final(c[i]) < First(c[j])
    BY <1>3, <1>4, <1>5 DEF LaidCut
  <2>3. overflowed = {} => IsMessage(c[i])
    BY <1>3, <1>4, <1>5
  <2> QED
    BY <2>1, <2>2, <2>3 DEF Parcel
(* Units that came compare as their places do.                             *)
<1>7. ASSUME NEW u \in CameBy(sent), NEW v \in CameBy(sent), Place[u] < Place[v]
      PROVE  Serial!Before(u, v)
  <2>1. Place[u] \in 1 .. sent /\ Place[v] \in 1 .. sent
        /\ Serial!Sent[Place[u]] = u /\ Serial!Sent[Place[v]] = v
    BY <1>1, CameIs
  <2>2. Place[u] \in 1 .. Len(Serial!Sent) /\ Place[v] \in 1 .. Len(Serial!Sent)
    <3>1. Len(Serial!Sent) \in Nat
      BY <1>1, SentLaid
    <3> QED
      BY <1>1, <2>1, <3>1
  <2>3. Serial!Before(Serial!Sent[Place[u]], Serial!Sent[Place[v]])
    BY <1>1, <1>7, <2>2, SentRises
  <2> QED
    BY <2>1, <2>3
<1>8. ASSUME NEW i \in 1 .. Len(c) PROVE Serial!Stitched(c[i])
  <2> DEFINE p == c[i]
  <2>1. p \in Seq(CameBy(sent)) /\ Rises(p) /\ Unbroken(p, overflowed)
    BY <1>6
  <2> HIDE DEF p
  <2> SUFFICES ASSUME NEW k \in 1 .. Len(p) - 1
               PROVE  /\ Serial!Before(p[k], p[k + 1])
                      /\ \A u \in Serial!ToSet(Serial!Sent) :
                           Serial!Before(p[k], u) /\ Serial!Before(u, p[k + 1]) => u \in overflowed
    BY DEF Serial!Stitched, p
  <2>2. k \in 1 .. Len(p) /\ k + 1 \in 1 .. Len(p) /\ k < k + 1
    BY <2>1
  <2>3. p[k] \in CameBy(sent) /\ p[k + 1] \in CameBy(sent) /\ Place[p[k]] < Place[p[k + 1]]
        /\ LostBetween(Place[p[k]], Place[p[k + 1]], overflowed)
    BY <2>1, <2>2 DEF Rises, Unbroken
  <2>4. ASSUME NEW u \in Serial!ToSet(Serial!Sent), Serial!Before(p[k], u), Serial!Before(u, p[k + 1])
        PROVE  u \in overflowed
    <3>1. Serial!Sent \in Seq(UnitType) /\ Len(Serial!Sent) \in Nat
      BY <1>1, SentLaid
    <3>2. PICK x \in 1 .. Len(Serial!Sent) : u = Serial!Sent[x]
      <4>1. DOMAIN Serial!Sent = 1 .. Len(Serial!Sent)
        BY <3>1
      <4> QED
        BY <4>1 DEF Serial!ToSet
    <3>3. Place[p[k]] \in 1 .. sent /\ Place[p[k + 1]] \in 1 .. sent
          /\ Serial!Sent[Place[p[k]]] = p[k] /\ Serial!Sent[Place[p[k + 1]]] = p[k + 1]
      BY <1>1, <2>3, CameIs
    <3>4. Place[p[k]] \in 1 .. Len(Serial!Sent) /\ Place[p[k + 1]] \in 1 .. Len(Serial!Sent)
      BY <1>1, <3>1, <3>3
    <3>5. Place[p[k]] < x
      BY <1>1, <2>4, <3>2, <3>3, <3>4, SentRises
    <3>6. x < Place[p[k + 1]]
      BY <1>1, <2>4, <3>2, <3>3, <3>4, SentRises
    <3>7. x \in Place[p[k]] + 1 .. Place[p[k + 1]] - 1
      BY <3>1, <3>4, <3>5, <3>6
    <3> QED
      BY <2>3, <3>2, <3>7 DEF LostBetween
  <2> QED
    BY <1>7, <2>3, <2>4
<1>9. ASSUME NEW i \in 1 .. Len(c), NEW j \in 1 .. Len(c), i < j
      PROVE  Serial!Before(Serial!Last(c[i]), c[j][1])
  <2>1. c[i][Len(c[i])] \in CameBy(sent) /\ c[j][1] \in CameBy(sent)
    <3> DEFINE p == c[i]
               q == c[j]
    <3>1. p \in Seq(CameBy(sent)) /\ p # <<>> /\ q \in Seq(CameBy(sent)) /\ q # <<>>
      BY <1>6
    <3> HIDE DEF p, q
    <3>2. p[Len(p)] \in CameBy(sent) /\ q[1] \in CameBy(sent)
      BY <3>1
    <3> QED
      BY <3>2 DEF p, q
  <2>2. Place[c[i][Len(c[i])]] < Place[c[j][1]]
    BY <1>6, <1>9 DEF Final, First
  <2> QED
    BY <1>7, <2>1, <2>2 DEF Serial!Last
(* The messages with points.                                               *)
<1> DEFINE F(n) == Parts(PointOf, n)
<1>10. Serial!PointPackets = F(Known)
  <2>1. Known \in Nat /\ DOMAIN messages = 1 .. Known
    BY <1>1, MessageTyped
  <2>2. [m \in 1 .. Known |-> PointOf[m]]
          = [m \in DOMAIN messages |-> IF messages[m] = "ack" THEN <<>> ELSE <<Serial!Message(m)>>]
    BY <2>1 DEF PointOf
  <2>3. Clouds!FlattenSeq([m \in DOMAIN messages |-> IF messages[m] = "ack" THEN <<>> ELSE <<Serial!Message(m)>>])
          = Serial!FlattenSeq([m \in DOMAIN messages |-> IF messages[m] = "ack" THEN <<>> ELSE <<Serial!Message(m)>>])
    BY DEF Clouds!FlattenSeq, Serial!FlattenSeq
  <2> QED
    BY <2>2, <2>3 DEF Parts, Serial!PointPackets
<1>11. /\ Known \in Nat /\ \A n \in 0 .. Known : F(n) \in Seq(S)
       /\ \A m \in 1 .. Known : F(m) = F(m - 1) \o (IF messages[m] = "ack" THEN <<>> ELSE <<Serial!Message(m)>>)
       /\ \A n \in 0 .. Known : StartsAs(F(Known), F(n))
  <2>1. Known \in Nat /\ (\A n \in 0 .. Known : F(n) \in Seq(S))
        /\ \A m \in 1 .. Known : F(m) = F(m - 1) \o (IF messages[m] = "ack" THEN <<>> ELSE <<Serial!Message(m)>>)
    BY <1>1, MessageTyped, PointsFollow
  <2>2. PointOf \in [1 .. Known -> Seq(S)]
    <3>1. ASSUME NEW m \in 1 .. Known
          PROVE  (IF messages[m] = "ack" THEN <<>> ELSE <<Serial!Message(m)>>) \in Seq(S)
      <4> DEFINE q == Serial!Message(m)
      <4>1. q \in S
        BY <1>1, MessageTyped
      <4> HIDE DEF q, S
      <4>2. <<q>> \in Seq(S) /\ <<>> \in Seq(S)
        BY <4>1
      <4> QED
        BY <4>2 DEF q
    <3> HIDE DEF S
    <3> QED
      BY <3>1 DEF PointOf
  <2>3. ASSUME NEW n \in 0 .. Known PROVE StartsAs(F(Known), F(n))
    <3>1. Known \in n .. Known
      BY <2>1
    <3> HIDE DEF S
    <3> QED
      BY <2>1, <2>2, <3>1, PartsStay
  <2> QED
    BY <2>1, <2>3
<1> HIDE DEF F
<1>12. ASSUME NEW p, IsMessage(p) PROVE \E k \in DOMAIN Serial!PointPackets : p = Serial!PointPackets[k]
  <2>1. PICK m \in 1 .. Known : messages[m] # "ack" /\ p = Serial!Message(m)
    BY <1>12 DEF IsMessage
  <2> DEFINE g == F(m - 1)
             f == F(m)
             all == F(Known)
  <2>2. m - 1 \in 0 .. Known /\ m \in 0 .. Known /\ Known \in 0 .. Known
    BY <1>11
  <2>3. g \in Seq(S) /\ f \in Seq(S) /\ all \in Seq(S) /\ f = g \o <<p>> /\ StartsAs(all, f)
    BY <1>11, <2>1, <2>2
  <2>4. p \in S
    BY <1>1, <2>1, MessageTyped
  <2> HIDE DEF g, f, all, S
  <2>5. Len(g) \in Nat /\ Len(f) = Len(g) + 1 /\ f[Len(g) + 1] = p
    BY <2>3, <2>4
  <2>6. Len(g) + 1 \in 1 .. Len(f) /\ Len(f) <= Len(all) /\ Len(all) \in Nat
    BY <2>3, <2>5 DEF StartsAs
  <2>7. Len(g) + 1 \in DOMAIN all
    BY <2>3, <2>5, <2>6
  <2>8. all[Len(g) + 1] = p
    BY <2>3, <2>5, <2>6 DEF StartsAs
  <2> QED
    BY <1>10, <2>7, <2>8 DEF all
<1>13. ASSUME overflowed = {}, ~missed PROVE Serial!IsPrefix(c, Serial!PointPackets)
  <2>1. PICK n : AllUpTo(n, Cut, Waiting, sent)
    BY <1>1, <1>13 DEF CutsOff
  <2>2. n \in 0 .. Known /\ Cut = F(n)
    BY <2>1 DEF AllUpTo, F
  <2> DEFINE all == F(Known)
  <2>3. Known \in 0 .. Known
    BY <1>11
  <2>4. all \in Seq(S) /\ StartsAs(all, Cut)
    BY <1>11, <2>2, <2>3
  <2> HIDE DEF all, S
  <2>5. Len(all) \in Nat /\ Len(Cut) <= Len(all) /\ \A i \in 1 .. Len(Cut) : all[i] = Cut[i]
    BY <2>4 DEF StartsAs
  <2>6. Len(c) <= Len(all) /\ \A i \in 1 .. Len(c) : all[i] = c[i]
    BY <1>2, <1>3, <1>4, <2>5
  <2>7. SubSeq(c, 1, Len(c)) = SubSeq(all, 1, Len(c))
    BY <1>2, <2>4, <2>5, <2>6
  <2> QED
    BY <1>10, <2>6, <2>7 DEF Serial!IsPrefix, all
<1>14. \A i \in DOMAIN c : overflowed = {} => \E k \in DOMAIN Serial!PointPackets : c[i] = Serial!PointPackets[k]
  BY <1>2, <1>6, <1>12
<1> QED
  BY <1>2, <1>8, <1>9, <1>13, <1>14 DEF Serial!SerialFaithful, c

(* However the line loses and the threads interleave, each packet the      *)
(* serial source hands on is a stretch of what came, broken only where the *)
(* port overflowed, the packets follow each other in the order they came,  *)
(* without a loss each is a message of the lidar and, until a scan misses, *)
(* none is left out; the TCP source is as TcpInOrder says. For any lines,  *)
(* message lengths, port and receive sizes: StreamsFaithful.               *)
THEOREM StreamsInOrder == Spec => []StreamsFaithful
<1> DEFINE Inv == part = "serial" => SerialInv
<1>1. Init => Inv
  BY SerialStarts DEF Init
<1>2. Inv /\ [Next]_vars => Inv'
  <2> SUFFICES ASSUME Inv, [Next]_vars, (part = "serial")' PROVE SerialInv'
    OBVIOUS
  <2>1. part = "serial" /\ SerialInv
    BY DEF Next, OfSerial, OfTcp, OfPcap, OfDecoder, OfClouds, vars
  <2>2. CASE OfSerial(Serial!Next)
    <3>1. Serial!Next
      BY <2>2 DEF OfSerial
    <3> QED
      BY <2>1, <3>1, SerialKept
  <2>3. CASE UNCHANGED vars
    <3>1. UNCHANGED <<messages, sent, overflowed, missed, port, data, held, thread, got, points>>
      BY <2>3 DEF vars, varsSent, varsStreams, varsGot, varsPoints, varsSerial
    <3>2. SerialTyped /\ CutsOff(Cut, Waiting, sent, overflowed, missed)
      BY <2>1 DEF SerialInv
    <3>3. SerialTyped'
      BY <3>1, <3>2 DEF SerialTyped, Serial!Sent, Serial!Message
    <3>4. Cut' = Cut /\ Waiting' = Waiting
      BY <3>1 DEF Cut, Waiting, Serial!Handed, Serial!What, Parcels
    <3> QED
      BY <3>1, <3>2, <3>3, <3>4, InvAfter
  <2> QED
    BY <2>1, <2>2, <2>3 DEF Next, OfTcp, OfPcap, OfDecoder, OfClouds
<1>3. Inv => (part = "serial" => Serial!SerialFaithful)
  BY SerialFollows
<1>4. (part = "serial" => Serial!SerialFaithful) /\ (part = "tcp" => Tcp!TcpFaithful) => StreamsFaithful
  BY DEF StreamsFaithful
<1> QED
  BY <1>1, <1>2, <1>3, <1>4, TcpInOrder, PTL DEF Spec
=============================================================================
