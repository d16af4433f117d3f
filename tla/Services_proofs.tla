--------------------------- MODULE Services_proofs ---------------------------
(***************************************************************************)
(* Proofs about what stands beside the stream of packets, for every value  *)
(* of the constants: the answers to commands over TCP, the serial commands *)
(* and the upgrade, the changes that commands undo, serial or over TCP, and *)
(* recordings.                                                             *)
(***************************************************************************)
EXTENDS MCServices, SequenceTheorems, TLAPS

-----------------------------------------------------------------------------
(* PtcClient, for any callers, commands, sizes of answers and bounds: what  *)
(* QueryCommand returns is one whole answer and its own, and the timeouts  *)
(* are put back.                                                           *)
PtcCmds == Cmds \cup {Ptc!UpgradeCmd, "none"}
PtcQueries == [q : Nat, cmd : PtcCmds]
PtcUnits == [q : Nat, cmd : PtcCmds, ok : BOOLEAN, part : {"I0", "I1", "rest", "body"}]
PtcPlaces == {"idle", "check", "lock", "header", "body", "after"}

CallType == call \in [Callers -> [cmd : PtcCmds, todo : Nat, long : BOOLEAN]]

PtcType ==
  /\ CallType
  /\ toLidar \in Seq(PtcQueries) /\ line \in Seq(PtcUnits)
  /\ holder \in Callers \cup {"none"}
  /\ at \in [Callers -> PtcPlaces] /\ query \in [Callers -> Nat]
  /\ head \in [Callers -> Seq(PtcUnits)] /\ body \in [Callers -> Seq(PtcUnits)]
  /\ ret \in [Callers -> {0, -1}] /\ queries \in Nat /\ late \in BOOLEAN

-----------------------------------------------------------------------------
(* The units of an answer. *)
AnswerLen == 3 + BodyLen

(* An answer is a header of three units and a body (Parts). *)
LEMMA PartsOfAnswer ==
  /\ BodyLen \in Nat \ {0} /\ AnswerLen \in Nat
  /\ Len(Ptc!Parts) = AnswerLen /\ DOMAIN Ptc!Parts = 1 .. AnswerLen
  /\ Ptc!Parts = [i \in 1 .. AnswerLen |-> Ptc!Parts[i]]
  /\ Ptc!Parts[1] = "I0" /\ Ptc!Parts[2] = "I1" /\ Ptc!Parts[3] = "rest"
  /\ \A i \in 4 .. AnswerLen : Ptc!Parts[i] = "body"
  /\ Ptc!HeaderSize = 3
<1>1. BodyLen \in Nat \ {0}
  BY PtcParameters DEF Ptc!PtcAssumption
<1> DEFINE s == [i \in 1 .. BodyLen |-> "body"]
           P == {"I0", "I1", "rest", "body"}
<1>2. s \in Seq(P) /\ Len(s) = BodyLen
  BY <1>1
<1>3. /\ Ptc!HeaderParts \in Seq(P) /\ Len(Ptc!HeaderParts) = 3
      /\ Ptc!HeaderParts[1] = "I0" /\ Ptc!HeaderParts[2] = "I1" /\ Ptc!HeaderParts[3] = "rest"
  BY DEF Ptc!HeaderParts
<1>4. Ptc!Parts = Ptc!HeaderParts \o s
  BY DEF Ptc!Parts
<1>5. \A i \in 1 .. BodyLen : s[i] = "body"
  OBVIOUS
<1> HIDE DEF s, P
<1>a. /\ Ptc!HeaderParts \o s \in Seq(P)
      /\ Len(Ptc!HeaderParts \o s) = Len(Ptc!HeaderParts) + Len(s)
      /\ \A i \in 1 .. Len(Ptc!HeaderParts) + Len(s) :
           (Ptc!HeaderParts \o s)[i] = IF i <= Len(Ptc!HeaderParts) THEN Ptc!HeaderParts[i]
                                       ELSE s[i - Len(Ptc!HeaderParts)]
  BY <1>2, <1>3, ConcatProperties
<1>6. /\ Ptc!Parts \in Seq(P) /\ Len(Ptc!Parts) = 3 + BodyLen
      /\ \A i \in 1 .. 3 + BodyLen :
           Ptc!Parts[i] = IF i <= 3 THEN Ptc!HeaderParts[i] ELSE s[i - 3]
  BY <1>2, <1>3, <1>4, <1>a
<1>7. DOMAIN Ptc!Parts = 1 .. 3 + BodyLen
  BY <1>6, LenProperties
<1>8. Ptc!Parts = [i \in 1 .. 3 + BodyLen |-> Ptc!Parts[i]]
  <2>1. Ptc!Parts \in [1 .. 3 + BodyLen -> P]
    BY <1>6, LenProperties
  <2> QED
    BY <2>1
<1> QED
  BY <1>1, <1>3, <1>5, <1>6, <1>7, <1>8, SMTT(30) DEF AnswerLen, Ptc!HeaderSize

(* Wherever an answer starts in s, all of it is there. *)
Whole(s) ==
  \A i \in DOMAIN s : s[i].part = "I0" =>
    \A k \in 1 .. AnswerLen :
      i + k - 1 \in DOMAIN s /\ s[i + k - 1] = [s[i] EXCEPT !.part = Ptc!Parts[k]]
(* Nothing in s can be taken for the start of an answer. *)
Quiet(s) == \A i \in DOMAIN s : s[i].part = "body"
(* The only answer in s, if any, is to query q, and nothing follows it. *)
Only(s, q) ==
  \A i \in DOMAIN s : s[i].part # "body" => s[i].q = q /\ i > Len(s) - AnswerLen

(* In parts, it is the same sequence. *)
LEMMA ThreeParts ==
  ASSUME NEW S, NEW x \in Seq(S), NEW y \in Seq(S), NEW z \in Seq(S)
  PROVE  (x \o y) \o z = x \o (y \o z)
BY ConcatAssociative

(* What is left of a stream when its first units are gone. *)
IsRest(t, s, d) ==
  /\ s \in Seq(PtcUnits) /\ t \in Seq(PtcUnits)
  /\ d \in Nat /\ Len(t) = Len(s) - d
  /\ \A i \in 1 .. Len(t) : t[i] = s[i + d]

(* What is left of a stream keeps what its units are. *)
LEMMA RestOfStream ==
  ASSUME NEW s, NEW t, NEW d, IsRest(t, s, d), NEW q
  PROVE  /\ Whole(s) => Whole(t)
         /\ Quiet(s) => Quiet(t)
         /\ Only(s, q) => Only(t, q)
<1>1. /\ Len(s) \in Nat /\ Len(t) \in Nat /\ DOMAIN s = 1 .. Len(s) /\ DOMAIN t = 1 .. Len(t)
      /\ d \in Nat /\ Len(t) = Len(s) - d
  BY LenProperties DEF IsRest
<1>2. \A i \in DOMAIN t : i + d \in DOMAIN s /\ t[i] = s[i + d]
  BY <1>1 DEF IsRest
<1>3. AnswerLen \in Nat
  BY PartsOfAnswer
<1>4. Whole(s) => Whole(t)
  <2> SUFFICES ASSUME Whole(s), NEW i \in DOMAIN t, t[i].part = "I0", NEW k \in 1 .. AnswerLen
               PROVE  i + k - 1 \in DOMAIN t /\ t[i + k - 1] = [t[i] EXCEPT !.part = Ptc!Parts[k]]
    BY DEF Whole
  <2>1. (i + d) + k - 1 \in DOMAIN s
    BY <1>2 DEF Whole
  <2>2. s[(i + d) + k - 1] = [s[i + d] EXCEPT !.part = Ptc!Parts[k]]
    BY <1>2 DEF Whole
  <2>3. i + k - 1 \in DOMAIN t
    BY <1>1, <1>3, <2>1
  <2>4. (i + k - 1) + d = (i + d) + k - 1
    BY <1>1, <1>3
  <2> QED
    BY <1>2, <2>2, <2>3, <2>4
<1>5. Quiet(s) => Quiet(t)
  BY <1>2 DEF Quiet
<1>6. Only(s, q) => Only(t, q)
  BY <1>1, <1>2, <1>3 DEF Only
<1> QED
  BY <1>4, <1>5, <1>6

(* Where no answer starts, none of another query does. *)
LEMMA QuietIsOnly ==
  ASSUME NEW s, Quiet(s), NEW q PROVE Only(s, q)
BY DEF Quiet, Only

(* An answer more. *)
LEMMA UnitsOfAnswer ==
  ASSUME NEW c \in PtcQueries, NEW ok \in BOOLEAN
  PROVE  /\ Ptc!Units(c, ok) \in Seq(PtcUnits) /\ Len(Ptc!Units(c, ok)) = AnswerLen
         /\ \A k \in 1 .. AnswerLen : Ptc!Units(c, ok)[k] =
              [q |-> c.q, cmd |-> c.cmd, ok |-> ok, part |-> Ptc!Parts[k]]
<1> DEFINE u == Ptc!Units(c, ok)
<1>1. u = [k \in 1 .. AnswerLen |-> [q |-> c.q, cmd |-> c.cmd, ok |-> ok, part |-> Ptc!Parts[k]]]
  BY PartsOfAnswer DEF Ptc!Units
<1>2. \A k \in 1 .. AnswerLen : Ptc!Parts[k] \in {"I0", "I1", "rest", "body"}
  <2>1. \A k \in 1 .. AnswerLen : k = 1 \/ k = 2 \/ k = 3 \/ k \in 4 .. AnswerLen
    BY PartsOfAnswer
  <2> QED
    BY <2>1, PartsOfAnswer
<1>3. \A k \in 1 .. AnswerLen :
        [q |-> c.q, cmd |-> c.cmd, ok |-> ok, part |-> Ptc!Parts[k]] \in PtcUnits
  BY <1>2 DEF PtcUnits, PtcQueries
<1>4. u \in [1 .. AnswerLen -> PtcUnits]
  BY <1>1, <1>3
<1>5. u \in Seq(PtcUnits) /\ Len(u) = AnswerLen
  BY <1>4, PartsOfAnswer
<1> QED
  BY <1>1, <1>5

(* An answer of the lidar keeps the stream whole. *)
LEMMA StreamGrows ==
  ASSUME NEW s \in Seq(PtcUnits), NEW c \in PtcQueries, NEW ok \in BOOLEAN
  PROVE  /\ s \o Ptc!Units(c, ok) \in Seq(PtcUnits)
         /\ Whole(s) => Whole(s \o Ptc!Units(c, ok))
         /\ Quiet(s) => Only(s \o Ptc!Units(c, ok), c.q)
<1> DEFINE u == Ptc!Units(c, ok)
           n == Len(s)
<1>1. /\ u \in Seq(PtcUnits) /\ Len(u) = AnswerLen /\ AnswerLen \in Nat /\ n \in Nat
      /\ \A k \in 1 .. AnswerLen : u[k] = [q |-> c.q, cmd |-> c.cmd, ok |-> ok, part |-> Ptc!Parts[k]]
  BY UnitsOfAnswer, PartsOfAnswer, LenProperties
<1> HIDE DEF u
<1>2. /\ s \o u \in Seq(PtcUnits) /\ Len(s \o u) = n + AnswerLen
      /\ \A i \in 1 .. n + AnswerLen : (s \o u)[i] = IF i <= n THEN s[i] ELSE u[i - n]
  BY <1>1, ConcatProperties
<1>3. DOMAIN s = 1 .. n /\ DOMAIN (s \o u) = 1 .. n + AnswerLen
  BY <1>2, LenProperties
<1>4. \A i \in 1 .. n : i \in DOMAIN (s \o u) /\ (s \o u)[i] = s[i]
  BY <1>1, <1>2, <1>3
<1>5. \A k \in 1 .. AnswerLen : n + k \in DOMAIN (s \o u) /\ (s \o u)[n + k] = u[k]
  <2> SUFFICES ASSUME NEW k \in 1 .. AnswerLen
               PROVE  n + k \in DOMAIN (s \o u) /\ (s \o u)[n + k] = u[k]
    OBVIOUS
  <2>1. n + k \in 1 .. n + AnswerLen /\ ~(n + k <= n) /\ (n + k) - n = k
    BY <1>1
  <2> QED
    BY <1>2, <1>3, <2>1
<1>6. \A i \in DOMAIN (s \o u) : i \in 1 .. n \/ \E k \in 1 .. AnswerLen : i = n + k
  <2> SUFFICES ASSUME NEW i \in DOMAIN (s \o u), i \notin 1 .. n
               PROVE  i - n \in 1 .. AnswerLen /\ i = n + (i - n)
    OBVIOUS
  <2> QED
    BY <1>1, <1>3
<1>7. ASSUME Whole(s) PROVE Whole(s \o u)
  <2> SUFFICES ASSUME NEW i \in DOMAIN (s \o u), (s \o u)[i].part = "I0", NEW k \in 1 .. AnswerLen
               PROVE  /\ i + k - 1 \in DOMAIN (s \o u)
                      /\ (s \o u)[i + k - 1] = [(s \o u)[i] EXCEPT !.part = Ptc!Parts[k]]
    BY DEF Whole
  <2>1. CASE i \in 1 .. n
    <3>1. i + k - 1 \in 1 .. n /\ s[i + k - 1] = [s[i] EXCEPT !.part = Ptc!Parts[k]]
      BY <1>3, <1>4, <1>7, <2>1 DEF Whole
    <3> QED
      BY <1>4, <2>1, <3>1
  <2>2. CASE \E j \in 1 .. AnswerLen : i = n + j
    <3>1. PICK j \in 1 .. AnswerLen : i = n + j
      BY <2>2
    <3>2. (s \o u)[i] = [q |-> c.q, cmd |-> c.cmd, ok |-> ok, part |-> Ptc!Parts[j]]
      BY <1>1, <1>5, <3>1
    <3>3. Ptc!Parts[j] = "I0"
      BY <3>2
    <3>4. j = 1
      <4>1. j = 1 \/ j = 2 \/ j = 3 \/ j \in 4 .. AnswerLen
        BY <1>1
      <4> QED
        BY <3>3, <4>1, PartsOfAnswer
    <3>5. i + k - 1 = n + k
      BY <1>1, <3>1, <3>4
    <3>6. (s \o u)[n + k] = [q |-> c.q, cmd |-> c.cmd, ok |-> ok, part |-> Ptc!Parts[k]]
      BY <1>1, <1>5
    <3>7. [[q |-> c.q, cmd |-> c.cmd, ok |-> ok, part |-> Ptc!Parts[j]]
              EXCEPT !.part = Ptc!Parts[k]]
          = [q |-> c.q, cmd |-> c.cmd, ok |-> ok, part |-> Ptc!Parts[k]]
      OBVIOUS
    <3> QED
      BY <1>5, <3>2, <3>5, <3>6, <3>7
  <2> QED
    BY <1>6, <2>1, <2>2
<1>8. ASSUME Quiet(s) PROVE Only(s \o u, c.q)
  <2> SUFFICES ASSUME NEW i \in DOMAIN (s \o u), (s \o u)[i].part # "body"
               PROVE  (s \o u)[i].q = c.q /\ i > Len(s \o u) - AnswerLen
    BY DEF Only
  <2>1. i \notin 1 .. n
    BY <1>3, <1>4, <1>8 DEF Quiet
  <2>2. PICK k \in 1 .. AnswerLen : i = n + k
    BY <1>6, <2>1
  <2>3. (s \o u)[i].q = c.q
    BY <1>1, <1>5, <2>2
  <2>4. i > Len(s \o u) - AnswerLen
    BY <1>1, <1>2, <2>2
  <2> QED
    BY <2>3, <2>4
<1> QED
  BY <1>2, <1>7, <1>8 DEF u

-----------------------------------------------------------------------------
(* What a caller has read of the answer and what is still in the socket.    *)
Read(c) == head[c] \o body[c]
Stream(c) == Read(c) \o line

(* Where a caller is, and what it has read.                                 *)
PlaceInv(c) ==
  /\ at[c] \in {"header", "body"} <=> holder = c
  /\ at[c] \in {"idle", "check", "lock"} => head[c] = <<>> /\ body[c] = <<>>
  /\ at[c] = "header" => body[c] = <<>> /\ Len(head[c]) \in {0, 2}
  /\ at[c] = "body" => /\ Len(head[c]) = 3 /\ Len(body[c]) < BodyLen
                       /\ head[c][3].ok /\ head[c][3].cmd = call[c].cmd
  /\ holder = c /\ head[c] # <<>> => head[c][1].part = "I0"
  /\ at[c] = "after" /\ ret[c] = 0 => Ptc!Own(c)

(* Only the answer to query q can come.                                     *)
Fresh(c, q) ==
  /\ Len(toLidar) <= 1 /\ \A i \in DOMAIN toLidar : toLidar[i].q = q
  /\ toLidar # <<>> => Quiet(Stream(c))
  /\ Only(Stream(c), q)

(* The stream: answers are whole in it, and unless a query stopped waiting, *)
(* the only one is the one that is waited for.                              *)
FlowInv ==
  /\ Whole(line)
  /\ holder = "none" /\ ~late => toLidar = <<>> /\ Quiet(line)
  /\ \A c \in Callers : holder = c =>
       /\ Whole(Stream(c))
       /\ query[c] = 0 => late
       /\ query[c] # 0 => Fresh(c, query[c])

AnswerInv == FlowInv /\ \A c \in Callers : PlaceInv(c)

(* A connection that was never lost has the default timeouts, unless a call *)
(* that lengthened them is still under way.                                 *)
TimeoutInv ==
  /\ opening \in {"connect", "setTimeout", "ended"}
  /\ opening = "connect" /\ ~reopened => conn = "closed"
  /\ \A c \in Callers : at[c] = "idle" => ~call[c].long
  /\ opening = "ended" /\ conn # "closed" /\ ~reopened
     => timeout = "default" \/ \E c \in Callers : call[c].long

-----------------------------------------------------------------------------
(* The last units of a stream. *)
LEMMA LastUnits ==
  ASSUME NEW s \in Seq(PtcUnits), NEW d \in 0 .. Len(s)
  PROVE  IsRest(SubSeq(s, d+1, Len(s)), s, d)
<1> DEFINE rest == SubSeq(s, d+1, Len(s))
<1>1. Len(s) \in Nat /\ \A i \in 1 .. Len(s) : s[i] \in PtcUnits
  BY LenProperties, ElementOfSeq
<1>2. \A i \in d+1 .. Len(s) : s[i] \in PtcUnits
  BY <1>1
<1>3. /\ rest \in Seq(PtcUnits)
      /\ Len(rest) = IF d+1 <= Len(s) THEN Len(s) - (d+1) + 1 ELSE 0
      /\ \A i \in 1 .. Len(s) - (d+1) + 1 : rest[i] = s[(d+1) + i - 1]
  BY <1>1, <1>2, SubSeqProperties
<1>4. Len(rest) = Len(s) - d
  BY <1>1, <1>3
<1>5. ASSUME NEW i \in 1 .. Len(rest) PROVE rest[i] = s[i + d]
  <2>1. i \in 1 .. Len(s) - (d+1) + 1 /\ (d+1) + i - 1 = i + d
    BY <1>1, <1>4
  <2> QED
    BY <1>3, <2>1
<1> QED
  BY <1>3, <1>4, <1>5 DEF IsRest

(* What recv gives, and what stays. *)
LEMMA ChunkOfLine ==
  ASSUME line \in Seq(PtcUnits), line # <<>>, NEW left \in Nat \ {0}, NEW chunk \in Ptc!Chunks(left)
  PROVE  \E n \in 1 .. Len(line) :
           /\ n <= left /\ chunk = SubSeq(line, 1, n)
           /\ chunk \in Seq(PtcUnits) /\ Len(chunk) = n /\ \A i \in 1 .. n : chunk[i] = line[i]
           /\ SubSeq(line, Len(chunk) + 1, Len(line)) \in Seq(PtcUnits)
           /\ IsRest(SubSeq(line, Len(chunk) + 1, Len(line)), line, n)
<1>1. Len(line) \in Nat \ {0} /\ \A i \in 1 .. Len(line) : line[i] \in PtcUnits
  BY EmptySeq, ElementOfSeq
<1>2. PICK n \in 1 .. Ptc!Min({left, Len(line)}) : chunk = SubSeq(line, 1, n)
  BY DEF Ptc!Chunks
<1>3. Ptc!Min({left, Len(line)}) \in Nat /\ Ptc!Min({left, Len(line)}) <= left
      /\ Ptc!Min({left, Len(line)}) <= Len(line)
  <2>1. \E x \in {left, Len(line)} : \A y \in {left, Len(line)} : x <= y
    BY <1>1
  <2> QED
    BY <1>1, <2>1 DEF Ptc!Min
<1>4. n \in 1 .. Len(line) /\ n <= left
  BY <1>1, <1>3
<1>5. chunk \in Seq(PtcUnits) /\ Len(chunk) = n
  BY <1>1, <1>2, <1>4
<1>6. \A i \in 1 .. n : chunk[i] = line[i]
  BY <1>1, <1>2, <1>4
<1>7. /\ SubSeq(line, n+1, Len(line)) \in Seq(PtcUnits)
      /\ IsRest(SubSeq(line, n+1, Len(line)), line, n)
  BY <1>1, <1>4, LastUnits DEF IsRest
<1> QED
  BY <1>2, <1>4, <1>5, <1>6, <1>7

(* What is read is no longer in the socket. *)
LEMMA StreamCut ==
  ASSUME line \in Seq(PtcUnits), line # <<>>, NEW left \in Nat \ {0}, NEW chunk \in Ptc!Chunks(left),
         NEW x \in Seq(PtcUnits)
  PROVE  (x \o chunk) \o SubSeq(line, Len(chunk) + 1, Len(line)) = x \o line
<1> DEFINE rest == SubSeq(line, Len(chunk) + 1, Len(line))
<1>1. PICK n \in 1 .. Len(line) :
           /\ chunk = SubSeq(line, 1, n)
           /\ chunk \in Seq(PtcUnits) /\ Len(chunk) = n
           /\ rest \in Seq(PtcUnits)
  BY ChunkOfLine
<1>2. chunk \o rest = SubSeq(line, 1, Len(line))
  <2>1. /\ Len(line) \in Nat /\ 1 \in 1 .. Len(line) + 1 /\ n \in 1-1 .. Len(line)
        /\ Len(line) \in n .. Len(line)
    BY LenProperties
  <2>2. SubSeq(line, 1, n) \o SubSeq(line, n+1, Len(line)) = SubSeq(line, 1, Len(line))
    BY <2>1, ConcatAdjacentSubSeq
  <2> QED
    BY <1>1, <2>2
<1>3. chunk \o rest = line
  BY <1>2, SubSeqFull
<1> HIDE DEF rest
<1>4. (x \o chunk) \o rest = x \o (chunk \o rest)
  BY <1>1, ConcatAssociative
<1> QED
  BY <1>3, <1>4 DEF rest

(* The search for the identifiers. *)
LEMMA FoundInChunk ==
  ASSUME NEW chunk \in Seq(PtcUnits), Len(chunk) \in 1 .. 3
  PROVE  \/ Ptc!Found(chunk) = <<>>
         \/ \E m \in 1 .. 2 : /\ m < Len(chunk) /\ chunk[m].part = "I0"
                              /\ Ptc!Found(chunk) = SubSeq(chunk, m, Len(chunk))
<1> DEFINE marked == {i \in 1 .. Len(chunk) - 1 : chunk[i].part = "I0" /\ chunk[i+1].part = "I1"}
<1>1. CASE marked = {}
  BY <1>1 DEF Ptc!Found
<1>2. CASE marked # {}
  <2>1. marked \subseteq {1, 2}
    OBVIOUS
  <2>2. \E x \in marked : \A y \in marked : x <= y
    <3> HIDE DEF marked
    <3>1. CASE 1 \in marked
      <4>1. \A y \in marked : 1 <= y
        BY <2>1
      <4> QED
        BY <3>1, <4>1
    <3>2. CASE 1 \notin marked
      <4>1. marked = {2}
        BY <1>2, <2>1, <3>2
      <4> QED
        BY <4>1
    <3> QED
      BY <3>1, <3>2
  <2>3. Ptc!Min(marked) \in marked
    BY <2>2 DEF Ptc!Min
  <2>4. Ptc!Found(chunk) = SubSeq(chunk, Ptc!Min(marked), Len(chunk))
    BY <1>2 DEF Ptc!Found
  <2>5. Ptc!Min(marked) \in 1 .. 2 /\ Ptc!Min(marked) < Len(chunk)
    BY <2>1, <2>3
  <2>6. chunk[Ptc!Min(marked)].part = "I0"
    BY <2>3
  <2> QED
    BY <2>4, <2>5, <2>6
<1> QED
  BY <1>1, <1>2

(* The last units of the first units of a stream. *)
LEMMA CutTwice ==
  ASSUME NEW S, NEW s \in Seq(S), NEW n \in 1 .. Len(s), NEW m \in 1 .. n
  PROVE  SubSeq(SubSeq(s, 1, n), m, n) = SubSeq(s, m, n)
<1>1. 1 \in 1 .. Len(s) /\ m \in 1 .. n-1+1 /\ n \in 1 .. n-1+1
  BY LenProperties
<1>2. SubSeq(SubSeq(s, 1, n), m, n) = SubSeq(s, 1+m-1, 1+n-1)
  BY <1>1, SubSeqOfSubSeq
<1>3. 1+m-1 = m /\ 1+n-1 = n
  OBVIOUS
<1> QED
  BY <1>2, <1>3

(* What ReceiveHeader has after a chunk. *)
LEMMA HeaderAfterChunk ==
  ASSUME line \in Seq(PtcUnits), line # <<>>, NEW old \in Seq(PtcUnits), Len(old) \in {0, 2},
         old # <<>> => old[1].part = "I0",
         NEW chunk \in Ptc!Chunks(Ptc!HeaderSize - Len(old))
  PROVE  LET h == IF old = <<>> THEN Ptc!Found(chunk) ELSE old \o chunk
             rest == SubSeq(line, Len(chunk) + 1, Len(line))
         IN /\ h \in Seq(PtcUnits) /\ rest \in Seq(PtcUnits)
            /\ Len(h) \in {0, 2, 3} /\ (h # <<>> => h[1].part = "I0")
            /\ \E d \in Nat : IsRest(h \o rest, old \o line, d)
<1> DEFINE h == IF old = <<>> THEN Ptc!Found(chunk) ELSE old \o chunk
           rest == SubSeq(line, Len(chunk) + 1, Len(line))
<1>0. Ptc!HeaderSize = 3
  BY PartsOfAnswer
<1>a. chunk \in Ptc!Chunks(3 - Len(old))
  BY <1>0, Zenon
<1>b. 3 - Len(old) \in Nat \ {0} /\ Len(old) \in Nat
  <2>1. Len(old) = 0 \/ Len(old) = 2
    OBVIOUS
  <2>2. CASE Len(old) = 0
    BY <2>2
  <2>3. CASE Len(old) = 2
    BY <2>3
  <2> QED
    BY <2>1, <2>2, <2>3
<1>1. 3 - Len(old) \in Nat \ {0} /\ chunk \in Ptc!Chunks(3 - Len(old)) /\ Len(old) \in Nat
  BY <1>a, <1>b
<1>2. PICK n \in 1 .. Len(line) :
           /\ n <= 3 - Len(old) /\ chunk = SubSeq(line, 1, n)
           /\ chunk \in Seq(PtcUnits) /\ Len(chunk) = n /\ \A i \in 1 .. n : chunk[i] = line[i]
           /\ rest \in Seq(PtcUnits) /\ IsRest(rest, line, n)
  BY <1>1, ChunkOfLine
<1> DEFINE Goal == /\ h \in Seq(PtcUnits) /\ rest \in Seq(PtcUnits)
                   /\ Len(h) \in {0, 2, 3} /\ (h # <<>> => h[1].part = "I0")
                   /\ \E d \in Nat : IsRest(h \o rest, old \o line, d)
<1>3. Len(line) \in Nat /\ n \in 1 .. 3
  BY <1>1, <1>2, LenProperties
<1>h. /\ old = <<>> => h = Ptc!Found(chunk)
      /\ old # <<>> => h = old \o chunk
  OBVIOUS
<1> HIDE DEF h, rest
<1>4. ASSUME old # <<>> PROVE Goal
  <2>1. Len(old) = 2 /\ n = 1
    <3>1. Len(old) # 0
      BY <1>4, EmptySeq
    <3> QED
      BY <1>2, <1>3, <3>1
  <2>a. /\ old \o chunk \in Seq(PtcUnits) /\ Len(old \o chunk) = Len(old) + Len(chunk)
        /\ \A i \in 1 .. Len(old) + Len(chunk) :
             (old \o chunk)[i] = IF i <= Len(old) THEN old[i] ELSE chunk[i - Len(old)]
    BY <1>2, ConcatProperties
  <2>2. /\ h = old \o chunk /\ h \in Seq(PtcUnits) /\ Len(h) = Len(old) + Len(chunk)
        /\ \A i \in 1 .. Len(old) + Len(chunk) :
             h[i] = IF i <= Len(old) THEN old[i] ELSE chunk[i - Len(old)]
    BY <1>4, <1>h, <2>a
  <2>3. Len(h) = 3 /\ h[1] = old[1]
    BY <1>2, <2>1, <2>2
  <2>4. h \o rest = old \o line
    BY <1>1, <1>4, <1>h, StreamCut DEF rest
  <2>5. old \o line \in Seq(PtcUnits)
    BY ConcatProperties
  <2>6. IsRest(h \o rest, old \o line, 0)
    <3>1. Len(old \o line) \in Nat /\ \A i \in 1 .. Len(old \o line) : i + 0 = i
      BY <2>5, LenProperties
    <3> QED
      BY <2>4, <2>5, <3>1 DEF IsRest
  <2> QED
    BY <1>2, <1>4, <2>2, <2>3, <2>6
<1>5. ASSUME old = <<>>, Ptc!Found(chunk) = <<>> PROVE Goal
  <2>1. h = <<>> /\ Len(<<>>) = 0 /\ <<>> \in Seq(PtcUnits)
    BY <1>5, <1>h, EmptySeq
  <2>2. h \o rest = rest /\ old \o line = line
    BY <1>2, <1>5, <2>1, ConcatEmptySeq
  <2>3. n \in Nat
    BY <1>3
  <2> QED
    BY <1>2, <2>1, <2>2, <2>3
<1>6. ASSUME old = <<>>, Ptc!Found(chunk) # <<>> PROVE Goal
  <2>1. PICK m \in 1 .. 2 : /\ m < Len(chunk) /\ chunk[m].part = "I0"
                            /\ Ptc!Found(chunk) = SubSeq(chunk, m, Len(chunk))
    BY <1>2, <1>3, <1>6, FoundInChunk
  <2>2. /\ h = SubSeq(chunk, m, n) /\ m < n
    BY <1>2, <1>6, <1>h, <2>1
  <2>3. \A i \in m .. n : chunk[i] \in PtcUnits
    BY <1>2, <1>3, <2>1, ElementOfSeq
  <2>b. m \in Int /\ n \in Int
    BY <1>3
  <2>4. /\ h \in Seq(PtcUnits)
        /\ Len(h) = IF m <= n THEN n-m+1 ELSE 0
        /\ \A i \in 1 .. n-m+1 : h[i] = chunk[m+i-1]
    BY <2>b, <2>2, <2>3, SubSeqProperties
  <2>5. Len(h) \in {2, 3}
    <3>1. Len(h) = n-m+1
      BY <2>b, <2>2, <2>4
    <3>2. n-m+1 \in {2, 3}
      <4>1. n \in 1 .. 3 /\ m \in 1 .. 2 /\ m < n
        BY <1>3, <2>2
      <4> QED
        BY <4>1
    <3> QED
      BY <3>1, <3>2
  <2>6. h[1] = chunk[m]
    <3>1. 1 \in 1 .. n-m+1 /\ m+1-1 = m
      BY <1>3, <2>1, <2>2
    <3> QED
      BY <2>4, <3>1
  <2>7. h \o rest = SubSeq(line, m, Len(line))
    <3>1. n \in 1 .. Len(line) /\ m \in 1 .. n
      BY <1>3, <2>1, <2>2
    <3>2. SubSeq(SubSeq(line, 1, n), m, n) = SubSeq(line, m, n)
      BY <3>1, CutTwice
    <3>4. h = SubSeq(line, m, n)
      BY <1>2, <2>2, <3>2
    <3>5. m \in 1 .. Len(line)+1 /\ n \in m-1 .. Len(line) /\ Len(line) \in n .. Len(line)
      BY <1>3, <2>1, <2>2, <3>1
    <3> QED
      BY <1>2, <3>4, <3>5, ConcatAdjacentSubSeq DEF rest
  <2>8. m-1 \in 0 .. Len(line) /\ (m-1)+1 = m /\ m-1 \in Nat
    BY <1>3, <2>1, <2>2
  <2>9. IsRest(h \o rest, line, m-1)
    BY <2>7, <2>8, LastUnits
  <2>10. old \o line = line
    BY <1>6, ConcatEmptySeq
  <2> QED
    BY <1>2, <2>1, <2>4, <2>5, <2>6, <2>8, <2>9, <2>10
<1>7. Goal
  BY <1>4, <1>5, <1>6
<1> QED
  BY <1>7 DEF h, rest

-----------------------------------------------------------------------------
(* Who is not concerned by a step stays where it is. *)
LEMMA OthersStay ==
  ASSUME NEW d \in Callers, PlaceInv(d), at'[d] = at[d], call'[d] = call[d],
         query'[d] = query[d], head'[d] = head[d], body'[d] = body[d], ret'[d] = ret[d],
         holder' = d <=> holder = d
  PROVE  PlaceInv(d)'
<1>1. Ptc!Own(d) => Ptc!Own(d)'
  <2>1. (head[d] \o body[d])' = head[d] \o body[d]
    OBVIOUS
  <2> QED
    BY <2>1, ZenonT(40) DEF Ptc!Own
<1> QED
  BY <1>1 DEF PlaceInv

(* A step that leaves the threads alone keeps PlaceInv. *)
LEMMA CallersStay ==
  ASSUME UNCHANGED Ptc!callers, UNCHANGED holder, \A c \in Callers : PlaceInv(c)
  PROVE  \A c \in Callers : PlaceInv(c)'
BY OthersStay DEF Ptc!callers

(* A step that leaves the stream alone keeps FlowInv. *)
LEMMA FlowStays ==
  ASSUME FlowInv, UNCHANGED <<toLidar, line, late, holder>>,
         \A c \in Callers : holder = c =>
           query'[c] = query[c] /\ head'[c] = head[c] /\ body'[c] = body[c]
  PROVE  FlowInv'
<1>1. \A c \in Callers : holder = c => Stream(c)' = Stream(c)
  BY DEF Stream, Read
<1>2. \A q : \A c \in Callers : holder = c /\ Fresh(c, q) => Fresh(c, q)'
  BY <1>1 DEF Fresh
<1> QED
  BY <1>1, <1>2 DEF FlowInv

-----------------------------------------------------------------------------
(* TryOpen's thread and the lidar. *)
LEMMA ConnectionKeepsAnswers ==
  ASSUME PtcType, AnswerInv, Ptc!Connect \/ Ptc!SetTimeouts \/ Ptc!Reset \/ UNCHANGED Ptc!ptcVars
  PROVE  PtcType' /\ AnswerInv'
<1>1. UNCHANGED <<toLidar, line, late, holder, queries>> /\ UNCHANGED Ptc!callers
  BY DEF Ptc!Connect, Ptc!SetTimeouts, Ptc!Reset, Ptc!history, Ptc!ptcVars, Ptc!socket
<1>2. PtcType'
  BY <1>1 DEF PtcType, CallType, Ptc!callers
<1>3. FlowInv'
  BY <1>1, FlowStays DEF AnswerInv, Ptc!callers
<1> QED
  BY <1>1, <1>2, <1>3, CallersStay DEF AnswerInv

(* The lidar answers. *)
LEMMA ReplyKeepsAnswers ==
  ASSUME PtcType, AnswerInv, NEW ok \in BOOLEAN, Ptc!Reply(ok)
  PROVE  PtcType' /\ AnswerInv'
<1> DEFINE c == Head(toLidar)
           u == Ptc!Units(c, ok)
<1>1. /\ toLidar # <<>> /\ toLidar' = Tail(toLidar) /\ line' = line \o u
      /\ UNCHANGED <<late, holder, queries>> /\ UNCHANGED Ptc!callers
  BY DEF Ptc!Reply, Ptc!history
<1>2. /\ line \in Seq(PtcUnits) /\ toLidar \in Seq(PtcQueries)
      /\ \A d \in Callers : head[d] \in Seq(PtcUnits) /\ body[d] \in Seq(PtcUnits)
  BY DEF PtcType
<1>3. c \in PtcQueries /\ toLidar' \in Seq(PtcQueries) /\ Len(toLidar') = Len(toLidar) - 1
      /\ Len(toLidar) \in Nat \ {0} /\ c = toLidar[1] /\ 1 \in DOMAIN toLidar
  BY <1>1, <1>2, HeadTailProperties, EmptySeq, LenProperties
<1>4. u \in Seq(PtcUnits)
  BY <1>3, UnitsOfAnswer
<1>5. line' \in Seq(PtcUnits) /\ (Whole(line) => Whole(line'))
  BY <1>1, <1>2, <1>3, StreamGrows
<1>6. PtcType'
  BY <1>1, <1>3, <1>5 DEF PtcType, CallType, Ptc!callers
<1> HIDE DEF u, c
<1>7. ASSUME NEW d \in Callers, holder = d
      PROVE  Whole(Stream(d)') /\ (query[d] # 0 => Fresh(d, query[d])')
  <2>1. Read(d) \in Seq(PtcUnits) /\ Stream(d) \in Seq(PtcUnits)
    <3>1. Read(d) \in Seq(PtcUnits)
      BY <1>2, ConcatProperties DEF Read
    <3> QED
      BY <1>2, <3>1, ConcatProperties DEF Stream
  <2>2. Stream(d)' = Stream(d) \o u
    <3>1. Stream(d)' = Read(d) \o (line \o u)
      BY <1>1 DEF Stream, Read, Ptc!callers
    <3>2. (Read(d) \o line) \o u = Read(d) \o (line \o u)
      BY <1>2, <1>4, <2>1, ThreeParts, SMTT(30)
    <3> QED
      BY <3>1, <3>2 DEF Stream
  <2>3. Whole(Stream(d)) /\ (query[d] # 0 => Fresh(d, query[d]))
    BY <1>7 DEF AnswerInv, FlowInv
  <2>4. Whole(Stream(d) \o u) /\ (Quiet(Stream(d)) => Only(Stream(d) \o u, c.q))
    BY <1>3, <2>1, <2>3, StreamGrows DEF u
  <2>5. ASSUME query[d] # 0 PROVE Fresh(d, query[d])'
    <3>1. Quiet(Stream(d)) /\ Len(toLidar) <= 1 /\ c.q = query[d]
      BY <1>1, <1>3, <2>3, <2>5 DEF Fresh
    <3>2. Len(toLidar') = 0 /\ toLidar' = <<>>
      BY <1>3, <3>1, EmptySeq
    <3>3. Only(Stream(d)', query[d])
      BY <2>2, <2>4, <3>1
    <3>4. query' = query
      BY <1>1 DEF Ptc!callers
    <3> QED
      BY <3>2, <3>3, <3>4 DEF Fresh
  <2> QED
    BY <2>2, <2>4, <2>5
<1>8. FlowInv'
  BY <1>1, <1>5, <1>7 DEF AnswerInv, FlowInv, Ptc!callers
<1> QED
  BY <1>1, <1>6, <1>8, CallersStay DEF AnswerInv

(* The lidar does not answer. *)
LEMMA SilenceKeepsAnswers ==
  ASSUME PtcType, AnswerInv, Ptc!Silence
  PROVE  PtcType' /\ AnswerInv'
<1>1. /\ toLidar # <<>> /\ toLidar' = Tail(toLidar)
      /\ UNCHANGED <<line, late, holder, queries>> /\ UNCHANGED Ptc!callers
  BY DEF Ptc!Silence, Ptc!history
<1>2. toLidar \in Seq(PtcQueries)
  BY DEF PtcType
<1>3. toLidar' \in Seq(PtcQueries) /\ Len(toLidar') = Len(toLidar) - 1 /\ Len(toLidar) \in Nat
  BY <1>1, <1>2, HeadTailProperties, LenProperties
<1>4. PtcType'
  BY <1>1, <1>3 DEF PtcType, CallType, Ptc!callers
<1>5. ASSUME NEW d \in Callers, NEW q, Fresh(d, q) PROVE Fresh(d, q)'
  <2>1. Len(toLidar') = 0 /\ toLidar' = <<>>
    <3>1. Len(toLidar) <= 1 /\ Len(toLidar) # 0
      BY <1>1, <1>2, <1>5, EmptySeq DEF Fresh
    <3>2. Len(toLidar') = 0
      BY <1>3, <3>1
    <3> QED
      BY <1>3, <3>2, EmptySeq
  <2>2. Stream(d)' = Stream(d)
    BY <1>1 DEF Stream, Read, Ptc!callers
  <2> QED
    BY <1>5, <2>1, <2>2 DEF Fresh
<1>6. FlowInv'
  BY <1>1, <1>5 DEF AnswerInv, FlowInv, Stream, Read, Ptc!callers
<1> QED
  BY <1>1, <1>4, <1>6, CallersStay DEF AnswerInv

-----------------------------------------------------------------------------
(* Up to the query, and after it. *)
LEMMA CallKeepsAnswers ==
  ASSUME PtcType, AnswerInv, NEW c \in Callers, NEW cmd \in Cmds \cup {Ptc!UpgradeCmd},
         NEW n \in Nat, NEW long \in BOOLEAN, Ptc!Call(c, cmd, n, long)
  PROVE  PtcType' /\ AnswerInv'
<1>1. /\ at[c] = "idle" /\ at' = [at EXCEPT ![c] = "check"]
      /\ call' = [call EXCEPT ![c] = [cmd |-> cmd, todo |-> n, long |-> long]]
      /\ UNCHANGED <<toLidar, line, late, holder, query, head, body, ret, queries>>
  BY DEF Ptc!Call, Ptc!history
<1>2. [cmd |-> cmd, todo |-> n, long |-> long] \in [cmd : PtcCmds, todo : Nat, long : BOOLEAN]
  BY DEF PtcCmds
<1>3. CallType'
  BY <1>1, <1>2 DEF PtcType, CallType
<1>4. PtcType'
  BY <1>1, <1>3 DEF PtcType, PtcPlaces
<1>5. at'[c] = "check" /\ holder # c
  BY <1>1 DEF AnswerInv, PlaceInv, PtcType
<1>6. PlaceInv(c)'
  BY <1>1, <1>5 DEF AnswerInv, PlaceInv
<1>7. ASSUME NEW d \in Callers, d # c PROVE PlaceInv(d)'
  BY <1>1, <1>7, OthersStay DEF AnswerInv, PtcType, CallType
<1>8. FlowInv'
  BY <1>1, FlowStays DEF AnswerInv
<1> QED
  BY <1>4, <1>6, <1>7, <1>8 DEF AnswerInv

(* QueryCommand checks the connection. *)
LEMMA CheckKeepsAnswers ==
  ASSUME PtcType, AnswerInv, NEW c \in Callers, Ptc!Check(c)
  PROVE  PtcType' /\ AnswerInv'
<1>1. /\ at[c] = "check"
      /\ \/ at' = [at EXCEPT ![c] = "after"] /\ ret' = [ret EXCEPT ![c] = -1]
         \/ at' = [at EXCEPT ![c] = "lock"] /\ UNCHANGED ret
      /\ UNCHANGED <<toLidar, line, late, holder, call, query, head, body, queries>>
  BY DEF Ptc!Check, Ptc!history, Ptc!socket
<1>2. PtcType'
  BY <1>1 DEF PtcType, CallType, PtcPlaces
<1>3. /\ holder # c
      /\ (at'[c] = "after" /\ ret'[c] = -1) \/ at'[c] = "lock"
  BY <1>1 DEF AnswerInv, PlaceInv, PtcType
<1>4. PlaceInv(c)'
  BY <1>1, <1>3 DEF AnswerInv, PlaceInv
<1>5. ASSUME NEW d \in Callers, d # c PROVE PlaceInv(d)'
  BY <1>1, <1>5, OthersStay DEF AnswerInv, PtcType, CallType
<1>6. FlowInv'
  BY <1>1, FlowStays DEF AnswerInv
<1> QED
  BY <1>2, <1>4, <1>5, <1>6 DEF AnswerInv

(* What the caller does with the result. *)
LEMMA AfterKeepsAnswers ==
  ASSUME PtcType, AnswerInv, NEW c \in Callers, Ptc!After(c)
  PROVE  PtcType' /\ AnswerInv'
<1>1. /\ at[c] = "after"
      /\ \/ call' = [call EXCEPT ![c].todo = @ - 1] /\ at' = [at EXCEPT ![c] = "check"]
            /\ call[c].todo > 1
         \/ call' = [call EXCEPT ![c] = Ptc!Idle] /\ at' = [at EXCEPT ![c] = "idle"]
      /\ head' = [head EXCEPT ![c] = <<>>] /\ body' = [body EXCEPT ![c] = <<>>]
      /\ query' = [query EXCEPT ![c] = 0] /\ ret' = [ret EXCEPT ![c] = 0]
      /\ UNCHANGED <<toLidar, line, late, holder, queries>>
  BY DEF Ptc!After, Ptc!history
<1>2. CallType'
  <2>1. CASE call' = [call EXCEPT ![c].todo = @ - 1] /\ call[c].todo > 1
    <3>1. call[c].todo - 1 \in Nat
      BY <2>1 DEF PtcType, CallType
    <3> QED
      BY <2>1, <3>1 DEF PtcType, CallType
  <2>2. CASE call' = [call EXCEPT ![c] = Ptc!Idle]
    <3>1. Ptc!Idle \in [cmd : PtcCmds, todo : Nat, long : BOOLEAN]
      BY DEF Ptc!Idle, PtcCmds
    <3> QED
      BY <2>2, <3>1 DEF PtcType, CallType
  <2> QED
    BY <1>1, <2>1, <2>2
<1>3. PtcType'
  <2>1. <<>> \in Seq(PtcUnits)
    BY EmptySeq
  <2> QED
    BY <1>1, <1>2, <2>1 DEF PtcType, PtcPlaces
<1>4. /\ holder # c
      /\ at'[c] \in {"check", "idle"} /\ head'[c] = <<>> /\ body'[c] = <<>>
  BY <1>1 DEF AnswerInv, PlaceInv, PtcType
<1>5. PlaceInv(c)'
  BY <1>1, <1>4 DEF PlaceInv
<1>6. ASSUME NEW d \in Callers, d # c
      PROVE  /\ at'[d] = at[d] /\ call'[d] = call[d] /\ query'[d] = query[d]
             /\ head'[d] = head[d] /\ body'[d] = body[d] /\ ret'[d] = ret[d]
  BY <1>1, <1>6 DEF PtcType, CallType
<1>7. ASSUME NEW d \in Callers, d # c PROVE PlaceInv(d)'
  BY <1>1, <1>6, <1>7, OthersStay DEF AnswerInv
<1>8. FlowInv'
  BY <1>1, <1>4, <1>6, FlowStays DEF AnswerInv
<1> QED
  BY <1>3, <1>5, <1>7, <1>8 DEF AnswerInv

-----------------------------------------------------------------------------
(* A query is sent. *)
LEMMA NothingStreams ==
  Whole(<<>>) /\ Quiet(<<>>) /\ <<>> \in Seq(PtcUnits) /\ <<>> \in Seq(PtcQueries)
<1>1. DOMAIN <<>> = {}
  OBVIOUS
<1> QED
  BY <1>1, EmptySeq DEF Whole, Quiet

(* What sending a command leaves behind. *)
LEMMA SendEffect ==
  ASSUME NEW c, Ptc!Send(c)
  PROVE  /\ at[c] = "lock" /\ holder = "none"
         /\ query' = [query EXCEPT ![c] = IF late THEN 0 ELSE queries + 1]
         /\ queries' = queries + 1
         /\ UNCHANGED <<call, head, body>>
         /\ \/ /\ at' = [at EXCEPT ![c] = "after"] /\ ret' = [ret EXCEPT ![c] = -1]
               /\ UNCHANGED holder
               /\ \/ toLidar' = <<>> /\ line' = <<>> /\ late' = FALSE
                  \/ UNCHANGED <<toLidar, line, late>>
            \/ /\ at' = [at EXCEPT ![c] = "header"] /\ ret' = [ret EXCEPT ![c] = 0]
               /\ holder' = c /\ UNCHANGED <<line, late>>
               /\ \/ UNCHANGED toLidar
                  \/ toLidar' = Append(toLidar, [q |-> queries + 1, cmd |-> call[c].cmd])
BY DEF Ptc!Send, Ptc!Free, Ptc!Closed

(* QueryCommand flushes and sends. *)
LEMMA SendKeepsAnswers ==
  ASSUME PtcType, AnswerInv, NEW c \in Callers, Ptc!Send(c)
  PROVE  PtcType' /\ AnswerInv'
<1>1. /\ at[c] = "lock" /\ holder = "none"
      /\ query' = [query EXCEPT ![c] = IF late THEN 0 ELSE queries + 1]
      /\ queries' = queries + 1 /\ UNCHANGED <<call, head, body>>
  BY SendEffect
<1>2. /\ "none" \notin Callers /\ late \in BOOLEAN /\ queries \in Nat
      /\ toLidar \in Seq(PtcQueries) /\ line \in Seq(PtcUnits)
      /\ head[c] = <<>> /\ body[c] = <<>>
  BY <1>1, PtcParameters DEF Ptc!PtcAssumption, PtcType, AnswerInv, PlaceInv
<1>3. query' \in [Callers -> Nat] /\ queries' \in Nat
  BY <1>1, <1>2 DEF PtcType
<1>4. \A d \in Callers : d # c => query'[d] = query[d]
  BY <1>1 DEF PtcType
<1>5. CASE /\ at' = [at EXCEPT ![c] = "after"] /\ ret' = [ret EXCEPT ![c] = -1]
           /\ UNCHANGED holder
           /\ \/ toLidar' = <<>> /\ line' = <<>> /\ late' = FALSE
              \/ UNCHANGED <<toLidar, line, late>>
  <2>1. toLidar' \in Seq(PtcQueries) /\ line' \in Seq(PtcUnits) /\ late' \in BOOLEAN
    BY <1>2, <1>5, NothingStreams
  <2>2. PtcType'
    BY <1>1, <1>3, <1>5, <2>1 DEF PtcType, CallType, PtcPlaces
  <2>3. at'[c] = "after" /\ ret'[c] = -1 /\ holder' # c
    BY <1>1, <1>2, <1>5 DEF PtcType
  <2>4. PlaceInv(c)'
    BY <2>3 DEF PlaceInv
  <2>5. ASSUME NEW d \in Callers, d # c PROVE PlaceInv(d)'
    BY <1>1, <1>4, <1>5, <2>5, OthersStay DEF AnswerInv, PtcType, CallType
  <2>6. FlowInv'
    BY <1>1, <1>2, <1>5, NothingStreams DEF AnswerInv, FlowInv
  <2> QED
    BY <2>2, <2>4, <2>5, <2>6 DEF AnswerInv
<1>6. CASE /\ at' = [at EXCEPT ![c] = "header"] /\ ret' = [ret EXCEPT ![c] = 0]
           /\ holder' = c /\ UNCHANGED <<line, late>>
           /\ \/ UNCHANGED toLidar
              \/ toLidar' = Append(toLidar, [q |-> queries + 1, cmd |-> call[c].cmd])
  <2> DEFINE new == [q |-> queries + 1, cmd |-> call[c].cmd]
  <2>1. new \in PtcQueries
    BY <1>2 DEF PtcType, CallType, PtcQueries
  <2>2. toLidar' \in Seq(PtcQueries)
    BY <1>2, <1>6, <2>1
  <2>3. PtcType'
    BY <1>1, <1>3, <1>6, <2>2 DEF PtcType, CallType, PtcPlaces
  <2>4. at'[c] = "header" /\ holder' = c /\ head'[c] = <<>> /\ body'[c] = <<>>
    BY <1>1, <1>2, <1>6 DEF PtcType
  <2>5. PlaceInv(c)'
    <3>1. Len(<<>>) = 0
      BY EmptySeq
    <3> QED
      BY <2>4, <3>1 DEF PlaceInv
  <2>6. ASSUME NEW d \in Callers, d # c PROVE PlaceInv(d)'
    BY <1>1, <1>2, <1>4, <1>6, <2>6, OthersStay DEF AnswerInv, PtcType, CallType
  <2>7. Stream(c)' = line
    <3>1. Stream(c)' = (<<>> \o <<>>) \o line
      BY <1>6, <2>4 DEF Stream, Read
    <3>2. <<>> \o <<>> = <<>> /\ <<>> \o line = line
      BY <1>2, NothingStreams, ConcatEmptySeq
    <3> QED
      BY <3>1, <3>2
  <2>8. Whole(line) /\ (~late => toLidar = <<>> /\ Quiet(line))
    BY <1>1 DEF AnswerInv, FlowInv
  <2>9. query'[c] = IF late THEN 0 ELSE queries + 1
    BY <1>1 DEF PtcType
  <2>10. query'[c] # 0 => Fresh(c, query[c])'
    <3> SUFFICES ASSUME query'[c] # 0 PROVE Fresh(c, query[c])'
      OBVIOUS
    <3>1. ~late /\ query'[c] = queries + 1
      BY <2>9
    <3>2. toLidar = <<>> /\ Quiet(line)
      BY <2>8, <3>1
    <3>3. toLidar' = <<>> \/ toLidar' = <<new>>
      BY <1>6, <3>2
    <3>4. Len(toLidar') <= 1 /\ \A i \in DOMAIN toLidar' : toLidar'[i].q = queries + 1
      <4>1. CASE toLidar' = <<>>
        BY <4>1
      <4>2. CASE toLidar' = <<new>>
        <5>1. DOMAIN <<new>> = {1} /\ <<new>>[1] = new /\ Len(<<new>>) = 1
          OBVIOUS
        <5> QED
          BY <4>2, <5>1
      <4> QED
        BY <3>3, <4>1, <4>2
    <3>5. Only(Stream(c)', query'[c])
      BY <2>7, <3>2, QuietIsOnly
    <3> QED
      BY <2>7, <3>1, <3>2, <3>4, <3>5 DEF Fresh
  <2>11. query'[c] = 0 => late'
    BY <1>2, <1>6, <2>9
  <2>12. Whole(line)' /\ Whole(Stream(c)') /\ holder' # "none"
    BY <1>2, <1>6, <2>7, <2>8
  <2>13. FlowInv'
    BY <1>6, <2>10, <2>11, <2>12 DEF FlowInv
  <2> QED
    BY <2>3, <2>5, <2>6, <2>13 DEF AnswerInv
<1> QED
  BY <1>5, <1>6, SendEffect

-----------------------------------------------------------------------------
(* The mutex is given back after a timeout or a failure. *)
LEMMA GivingUpKeepsAnswers ==
  ASSUME PtcType, AnswerInv, NEW c \in Callers, Ptc!RecvTimesOut(c) \/ Ptc!RecvFails(c)
  PROVE  PtcType' /\ AnswerInv'
<1>1. /\ at[c] \in {"header", "body"}
      /\ at' = [at EXCEPT ![c] = "after"] /\ ret' = [ret EXCEPT ![c] = -1] /\ holder' = "none"
      /\ \/ late' = TRUE /\ UNCHANGED <<toLidar, line>>
         \/ late' = FALSE /\ toLidar' = <<>> /\ line' = <<>>
      /\ UNCHANGED <<call, query, head, body, queries>>
  BY DEF Ptc!RecvTimesOut, Ptc!RecvFails, Ptc!Leave, Ptc!Receives, Ptc!Closed, Ptc!history
<1>2. "none" \notin Callers /\ holder = c
  BY <1>1, PtcParameters DEF Ptc!PtcAssumption, AnswerInv, PlaceInv
<1>3. toLidar' \in Seq(PtcQueries) /\ line' \in Seq(PtcUnits) /\ late' \in BOOLEAN
  BY <1>1, NothingStreams DEF PtcType
<1>4. PtcType'
  BY <1>1, <1>3 DEF PtcType, CallType, PtcPlaces
<1>5. at'[c] = "after" /\ ret'[c] = -1 /\ holder' # c
  BY <1>1, <1>2 DEF PtcType
<1>6. PlaceInv(c)'
  BY <1>5 DEF PlaceInv
<1>7. ASSUME NEW d \in Callers, d # c PROVE PlaceInv(d)'
  BY <1>1, <1>2, <1>7, OthersStay DEF AnswerInv, PtcType, CallType
<1>8. FlowInv'
  BY <1>1, <1>2, NothingStreams DEF AnswerInv, FlowInv
<1> QED
  BY <1>4, <1>6, <1>7, <1>8 DEF AnswerInv

-----------------------------------------------------------------------------
(* What recv takes out of the socket. *)
LEMMA PartsOfStream ==
  ASSUME NEW x \in Seq(PtcUnits), NEW y \in Seq(PtcUnits)
  PROVE  /\ x \o y \in Seq(PtcUnits) /\ Len(x \o y) = Len(x) + Len(y)
         /\ \A i \in 1 .. Len(x) : (x \o y)[i] = x[i]
         /\ IsRest(y, x \o y, Len(x))
<1>1. /\ x \o y \in Seq(PtcUnits) /\ Len(x \o y) = Len(x) + Len(y)
      /\ \A i \in 1 .. Len(x) + Len(y) :
           (x \o y)[i] = IF i <= Len(x) THEN x[i] ELSE y[i - Len(x)]
  BY ConcatProperties
<1>2. Len(x) \in Nat /\ Len(y) \in Nat
  BY LenProperties
<1>3. \A i \in 1 .. Len(x) : (x \o y)[i] = x[i]
  BY <1>1, <1>2
<1>4. ASSUME NEW i \in 1 .. Len(y) PROVE y[i] = (x \o y)[i + Len(x)]
  <2>1. i + Len(x) \in 1 .. Len(x) + Len(y) /\ ~(i + Len(x) <= Len(x)) /\ (i + Len(x)) - Len(x) = i
    BY <1>2
  <2> QED
    BY <1>1, <2>1
<1> QED
  BY <1>1, <1>2, <1>3, <1>4 DEF IsRest

(* A stream that begins with a marker begins with a whole answer. *)
LEMMA StartOfAnswer ==
  ASSUME NEW s \in Seq(PtcUnits), Whole(s), Len(s) # 0, s[1].part = "I0"
  PROVE  /\ AnswerLen <= Len(s)
         /\ \A k \in 1 .. AnswerLen : s[k] = [s[1] EXCEPT !.part = Ptc!Parts[k]]
<1>1. Len(s) \in Nat \ {0} /\ DOMAIN s = 1 .. Len(s) /\ 1 \in DOMAIN s
  BY LenProperties
<1>2. AnswerLen \in Nat \ {0}
  BY PartsOfAnswer DEF AnswerLen
<1>3. \A k \in 1 .. AnswerLen :
        1 + k - 1 \in DOMAIN s /\ s[1 + k - 1] = [s[1] EXCEPT !.part = Ptc!Parts[k]]
  BY <1>1 DEF Whole
<1>4. \A k \in 1 .. AnswerLen : 1 + k - 1 = k
  BY <1>2
<1>5. \A k \in 1 .. AnswerLen : k \in DOMAIN s /\ s[k] = [s[1] EXCEPT !.part = Ptc!Parts[k]]
  BY <1>3, <1>4
<1>6. AnswerLen \in DOMAIN s
  <2>1. AnswerLen \in 1 .. AnswerLen
    BY <1>2
  <2> QED
    BY <1>5, <2>1
<1> QED
  BY <1>1, <1>5, <1>6

(* After the header of an answer that nothing can follow, there is only     *)
(* the rest of its body.                                                    *)
LEMMA QuietAfterHeader ==
  ASSUME NEW x \in Seq(PtcUnits), NEW y \in Seq(PtcUnits), Whole(x \o y),
         Len(x) \in Nat, Len(x) >= 3, x[1].part = "I0", NEW q, Only(x \o y, q)
  PROVE  Quiet(y)
<1> DEFINE s == x \o y
<1>1. /\ s \in Seq(PtcUnits) /\ Len(s) = Len(x) + Len(y) /\ s[1] = x[1]
      /\ IsRest(y, s, Len(x))
  BY PartsOfStream
<1>2. Len(y) \in Nat /\ DOMAIN y = 1 .. Len(y) /\ DOMAIN s = 1 .. Len(s)
  BY <1>1, LenProperties
<1> HIDE DEF s
<1>3. /\ AnswerLen <= Len(s)
      /\ \A k \in 1 .. AnswerLen : s[k] = [s[1] EXCEPT !.part = Ptc!Parts[k]]
  <2>1. Len(s) # 0 /\ s[1].part = "I0"
    BY <1>1, <1>2
  <2> QED
    BY <1>1, <2>1, StartOfAnswer DEF s
<1>4. AnswerLen \in Nat /\ Len(s) = AnswerLen
  <2>1. 1 \in DOMAIN s /\ s[1].part # "body"
    BY <1>1, <1>2
  <2>2. 1 > Len(s) - AnswerLen
    BY <2>1 DEF Only, s
  <2>3. AnswerLen \in Nat
    BY PartsOfAnswer
  <2>4. Len(s) \in Nat /\ AnswerLen <= Len(s)
    BY <1>1, <1>3, LenProperties
  <2> QED
    BY <2>2, <2>3, <2>4
<1>5. ASSUME NEW i \in DOMAIN y PROVE y[i].part = "body"
  <2>1. i + Len(x) \in 4 .. AnswerLen /\ i + Len(x) \in 1 .. AnswerLen
    BY <1>1, <1>2, <1>4
  <2>2. y[i] = [s[1] EXCEPT !.part = Ptc!Parts[i + Len(x)]]
    BY <1>1, <1>2, <1>3, <2>1 DEF IsRest
  <2>3. Ptc!Parts[i + Len(x)] = "body"
    BY <2>1, PartsOfAnswer
  <2>4. s[1] \in PtcUnits
    BY <1>1, <1>2, ElementOfSeq
  <2> QED
    BY <2>2, <2>3, <2>4 DEF PtcUnits
<1> QED
  BY <1>5 DEF Quiet

(* Reading from the line keeps FlowInv. *)
LEMMA ReadKeepsFlow ==
  ASSUME PtcType, AnswerInv, NEW c \in Callers, holder = c,
         UNCHANGED <<toLidar, late, query>>, line' \in Seq(PtcUnits),
         head'[c] \in Seq(PtcUnits), body'[c] \in Seq(PtcUnits),
         NEW d \in Nat, IsRest(Stream(c)', Stream(c), d),
         \/ holder' = c
         \/ holder' = "none" /\ Len(head'[c]) = 3 /\ head'[c][1].part = "I0"
  PROVE  FlowInv'
<1>1. Read(c)' \in Seq(PtcUnits) /\ Len(Read(c)') = Len(head'[c]) + Len(body'[c])
      /\ \A i \in 1 .. Len(head'[c]) : Read(c)'[i] = head'[c][i]
  BY PartsOfStream DEF Read
<1>2. Stream(c)' = Read(c)' \o line' /\ Stream(c)' \in Seq(PtcUnits)
      /\ IsRest(line', Stream(c)', Len(Read(c)'))
  BY <1>1, PartsOfStream DEF Stream
<1>3. Whole(Stream(c)) /\ (query[c] = 0 => late) /\ (query[c] # 0 => Fresh(c, query[c]))
  BY DEF AnswerInv, FlowInv
<1>4. Whole(Stream(c)')
  BY <1>3, RestOfStream
<1>5. Whole(line')
  BY <1>2, <1>4, RestOfStream
<1>6. ASSUME query[c] # 0
      PROVE  /\ Quiet(Stream(c)) => Quiet(Stream(c)')
             /\ Only(Stream(c)', query[c])
  BY <1>3, <1>6, RestOfStream DEF Fresh
<1>7. query[c] # 0 => Fresh(c, query[c])'
  BY <1>3, <1>6 DEF Fresh
<1>8. "none" \notin Callers
  BY PtcParameters DEF Ptc!PtcAssumption
<1>9. ASSUME holder' = "none", ~late PROVE toLidar = <<>> /\ Quiet(line')
  <2>1. Len(head'[c]) = 3 /\ head'[c][1].part = "I0" /\ query[c] # 0
    BY <1>3, <1>8, <1>9
  <2>2. Len(Read(c)') \in Nat /\ Len(Read(c)') >= 3 /\ Read(c)'[1].part = "I0"
    <3>1. Len(body'[c]) \in Nat
      BY LenProperties
    <3> QED
      BY <1>1, <2>1, <3>1
  <2>3. Quiet(line')
    <3>1. Whole(Read(c)' \o line') /\ Only(Read(c)' \o line', query[c])
      BY <1>2, <1>4, <1>6, <2>1
    <3> QED
      BY <1>1, <2>2, <3>1, QuietAfterHeader
  <2>4. ~Quiet(Stream(c)')
    <3>1. /\ Len(Read(c)' \o line') = Len(Read(c)') + Len(line')
          /\ \A i \in 1 .. Len(Read(c)') : (Read(c)' \o line')[i] = Read(c)'[i]
      BY <1>1, PartsOfStream
    <3>2. 1 \in 1 .. Len(Read(c)') /\ Len(line') \in Nat
      BY <2>2, LenProperties
    <3>3. Len(Stream(c)') >= 3 /\ Stream(c)'[1].part = "I0"
      BY <1>2, <2>2, <3>1, <3>2
    <3>4. 1 \in DOMAIN (Stream(c)')
      BY <1>2, <3>3, LenProperties
    <3> QED
      BY <3>3, <3>4 DEF Quiet
  <2> QED
    BY <1>3, <1>6, <2>1, <2>3, <2>4 DEF Fresh
<1>10. CASE holder' = c
  BY <1>3, <1>4, <1>5, <1>7, <1>8, <1>10 DEF FlowInv
<1>11. CASE holder' = "none"
  BY <1>5, <1>8, <1>9, <1>11 DEF FlowInv
<1> QED
  BY <1>10, <1>11

(* QueryCommand receives a piece of a header. *)
LEMMA ReceiveHeaderKeepsAnswers ==
  ASSUME PtcType, AnswerInv, NEW c \in Callers, Ptc!ReceiveHeader(c)
  PROVE  PtcType' /\ AnswerInv'
<1>1. /\ at[c] = "header" /\ line # <<>>
      /\ UNCHANGED <<toLidar, late, call, query, body, queries>>
  BY DEF Ptc!ReceiveHeader, Ptc!history
<1>2. PICK chunk \in Ptc!Chunks(Ptc!HeaderSize - Len(head[c])) :
        LET h == IF head[c] = <<>> THEN Ptc!Found(chunk) ELSE head[c] \o chunk
        IN /\ head' = [head EXCEPT ![c] = h]
           /\ line' = SubSeq(line, Len(chunk) + 1, Len(line))
           /\ IF Len(h) < Ptc!HeaderSize THEN UNCHANGED <<at, ret, holder>>
              ELSE IF Ptc!IsValid(h[Ptc!HeaderSize], c)
              THEN at' = [at EXCEPT ![c] = "body"] /\ UNCHANGED <<ret, holder>>
              ELSE Ptc!Leave(c, -1)
  BY DEF Ptc!ReceiveHeader
<1> DEFINE h == IF head[c] = <<>> THEN Ptc!Found(chunk) ELSE head[c] \o chunk
<1>3. /\ holder = c /\ body[c] = <<>> /\ Len(head[c]) \in {0, 2}
      /\ head[c] # <<>> => head[c][1].part = "I0"
      /\ head[c] \in Seq(PtcUnits) /\ line \in Seq(PtcUnits)
  BY <1>1 DEF PtcType, AnswerInv, PlaceInv
<1>4. /\ h \in Seq(PtcUnits) /\ line' \in Seq(PtcUnits)
      /\ Len(h) \in {0, 2, 3} /\ (h # <<>> => h[1].part = "I0")
      /\ \E d \in Nat : IsRest(h \o line', head[c] \o line, d)
  BY <1>1, <1>2, <1>3, HeaderAfterChunk
<1>5. /\ head' = [head EXCEPT ![c] = h]
      /\ \/ Len(h) < 3 /\ UNCHANGED <<at, ret, holder>>
         \/ /\ ~(Len(h) < 3) /\ h[3].ok /\ h[3].cmd = call[c].cmd
            /\ at' = [at EXCEPT ![c] = "body"] /\ UNCHANGED <<ret, holder>>
         \/ /\ ~(Len(h) < 3) /\ at' = [at EXCEPT ![c] = "after"]
            /\ ret' = [ret EXCEPT ![c] = -1] /\ holder' = "none"
  BY <1>2, PartsOfAnswer DEF Ptc!IsValid, Ptc!Leave
<1> HIDE DEF h
<1>6. PICK d \in Nat : IsRest(h \o line', head[c] \o line, d)
  BY <1>4
<1>a. \/ Len(h) < 3 /\ Len(h) \in {0, 2}
      \/ ~(Len(h) < 3) /\ Len(h) = 3 /\ h[1].part = "I0"
  <2>1. CASE Len(h) = 3
    <3>1. h # <<>>
      BY <2>1, EmptySeq
    <3> QED
      BY <1>4, <2>1, <3>1
  <2>2. CASE Len(h) = 0
    BY <2>2
  <2>3. CASE Len(h) = 2
    BY <2>3
  <2> QED
    BY <1>4, <2>1, <2>2, <2>3
<1>7. head'[c] = h /\ body'[c] = <<>>
  BY <1>1, <1>3, <1>5 DEF PtcType
<1>8. Stream(c) = head[c] \o line /\ Stream(c)' = h \o line'
  BY <1>3, <1>4, <1>7, ConcatEmptySeq DEF Stream, Read
<1>9. PtcType'
  BY <1>1, <1>4, <1>5 DEF PtcType, CallType, PtcPlaces
<1>10. FlowInv'
  <2>1. holder' = c \/ (holder' = "none" /\ Len(h) = 3 /\ h[1].part = "I0")
    BY <1>3, <1>5, <1>a
  <2>2. <<>> \in Seq(PtcUnits)
    BY EmptySeq
  <2> QED
    BY <1>1, <1>3, <1>4, <1>6, <1>7, <1>8, <2>1, <2>2, ReadKeepsFlow
<1>11. "none" \notin Callers /\ BodyLen \in Nat \ {0} /\ Len(<<>>) = 0
  BY PtcParameters, EmptySeq DEF Ptc!PtcAssumption
<1>12. PlaceInv(c)'
  <2>1. CASE Len(h) < 3 /\ UNCHANGED <<at, ret, holder>>
    <3>1. Len(h) \in {0, 2} /\ at'[c] = "header" /\ holder' = c
      BY <1>1, <1>3, <1>a, <2>1
    <3> QED
      BY <1>4, <1>7, <3>1 DEF PlaceInv
  <2>2. CASE /\ ~(Len(h) < 3) /\ h[3].ok /\ h[3].cmd = call[c].cmd
             /\ at' = [at EXCEPT ![c] = "body"] /\ UNCHANGED <<ret, holder>>
    <3>1. Len(h) = 3 /\ at'[c] = "body" /\ holder' = c /\ call'[c] = call[c]
      BY <1>1, <1>3, <1>a, <2>2 DEF PtcType
    <3>2. Len(body'[c]) < BodyLen
      BY <1>7, <1>11
    <3> QED
      BY <1>4, <1>7, <2>2, <3>1, <3>2 DEF PlaceInv
  <2>3. CASE /\ ~(Len(h) < 3) /\ at' = [at EXCEPT ![c] = "after"]
             /\ ret' = [ret EXCEPT ![c] = -1] /\ holder' = "none"
    <3>1. at'[c] = "after" /\ ret'[c] = -1 /\ holder' # c
      BY <1>11, <2>3 DEF PtcType
    <3> QED
      BY <3>1 DEF PlaceInv
  <2> QED
    BY <1>5, <2>1, <2>2, <2>3
<1>13. ASSUME NEW e \in Callers, e # c PROVE PlaceInv(e)'
  <2>1. holder # e /\ holder' # e
    BY <1>3, <1>5, <1>11, <1>13
  <2>2. at'[e] = at[e] /\ ret'[e] = ret[e] /\ head'[e] = head[e]
    BY <1>5, <1>13 DEF PtcType
  <2> QED
    BY <1>1, <2>1, <2>2, OthersStay DEF AnswerInv
<1> QED
  BY <1>9, <1>10, <1>12, <1>13 DEF AnswerInv

(* QueryCommand receives a piece of a body, perhaps the last. *)
LEMMA ReceiveBodyKeepsAnswers ==
  ASSUME PtcType, AnswerInv, NEW c \in Callers, Ptc!ReceiveBody(c)
  PROVE  PtcType' /\ AnswerInv'
<1>1. /\ at[c] = "body" /\ line # <<>>
      /\ UNCHANGED <<toLidar, late, call, query, head, queries>>
  BY DEF Ptc!ReceiveBody, Ptc!history
<1>2. PICK chunk \in Ptc!Chunks(BodyLen - Len(body[c])) :
        LET b == body[c] \o chunk
        IN /\ body' = [body EXCEPT ![c] = b]
           /\ line' = SubSeq(line, Len(chunk) + 1, Len(line))
           /\ IF Len(b) < BodyLen THEN UNCHANGED <<at, ret, holder>> ELSE Ptc!Leave(c, 0)
  BY DEF Ptc!ReceiveBody
<1> DEFINE b == body[c] \o chunk
<1>3. /\ holder = c /\ Len(head[c]) = 3 /\ head[c] # <<>> /\ head[c][1].part = "I0"
      /\ head[c][3].ok /\ head[c][3].cmd = call[c].cmd /\ Len(body[c]) < BodyLen
      /\ head[c] \in Seq(PtcUnits) /\ body[c] \in Seq(PtcUnits) /\ line \in Seq(PtcUnits)
  <2>1. Len(head[c]) = 3 => head[c] # <<>>
    BY EmptySeq
  <2> QED
    BY <1>1, <2>1 DEF PtcType, AnswerInv, PlaceInv
<1>4. BodyLen \in Nat \ {0} /\ "none" \notin Callers /\ Len(body[c]) \in Nat
  BY <1>3, PtcParameters, LenProperties DEF Ptc!PtcAssumption
<1>5. BodyLen - Len(body[c]) \in Nat \ {0}
  BY <1>3, <1>4
<1>6. PICK n \in 1 .. Len(line) :
           /\ n <= BodyLen - Len(body[c]) /\ Len(chunk) = n
           /\ chunk \in Seq(PtcUnits)
           /\ SubSeq(line, Len(chunk) + 1, Len(line)) \in Seq(PtcUnits)
  BY <1>1, <1>3, <1>5, ChunkOfLine
<1>7. b \in Seq(PtcUnits) /\ Len(b) = Len(body[c]) + Len(chunk)
  <2>1. body[c] \in Seq(PtcUnits) /\ chunk \in Seq(PtcUnits)
    BY <1>3, <1>6
  <2> QED
    BY <2>1, ConcatProperties
<1>8. Len(b) \in Nat /\ Len(b) <= BodyLen
  <2>1. Len(b) = Len(body[c]) + n /\ Len(line) \in Nat
    BY <1>3, <1>6, <1>7, LenProperties
  <2> QED
    BY <1>4, <1>6, <2>1
<1>9. /\ body' = [body EXCEPT ![c] = b] /\ line' \in Seq(PtcUnits)
      /\ line' = SubSeq(line, Len(chunk) + 1, Len(line))
      /\ \/ Len(b) < BodyLen /\ UNCHANGED <<at, ret, holder>>
         \/ /\ Len(b) = BodyLen /\ at' = [at EXCEPT ![c] = "after"]
            /\ ret' = [ret EXCEPT ![c] = 0] /\ holder' = "none"
  <2>1. ~(Len(b) < BodyLen) => Len(b) = BodyLen
    BY <1>4, <1>8
  <2> QED
    BY <1>2, <1>6, <2>1 DEF Ptc!Leave
<1>10. PtcType'
  <2>1. body' \in [Callers -> Seq(PtcUnits)]
    BY <1>7, <1>9 DEF PtcType
  <2> QED
    BY <1>1, <1>9, <2>1 DEF PtcType, CallType, PtcPlaces
<1> HIDE DEF b
<1>11. head'[c] = head[c] /\ body'[c] = b
  BY <1>1, <1>9 DEF PtcType
<1>12. /\ Read(c) \in Seq(PtcUnits) /\ Stream(c) \in Seq(PtcUnits)
       /\ Read(c)' = Read(c) \o chunk
  <2>1. head[c] \o (body[c] \o chunk) = (head[c] \o body[c]) \o chunk
    <3>1. head[c] \in Seq(PtcUnits) /\ body[c] \in Seq(PtcUnits) /\ chunk \in Seq(PtcUnits)
      BY <1>3, <1>6
    <3> DEFINE x == head[c]
               y == body[c]
    <3>2. x \in Seq(PtcUnits) /\ y \in Seq(PtcUnits) /\ chunk \in Seq(PtcUnits)
      BY <3>1
    <3> HIDE DEF x, y
    <3>3. (x \o y) \o chunk = x \o (y \o chunk)
      BY <3>2, ThreeParts, SMTT(30)
    <3> QED
      BY <3>3 DEF x, y
  <2>2. Read(c) \in Seq(PtcUnits)
    BY <1>3, ConcatProperties DEF Read
  <2>3. Stream(c) \in Seq(PtcUnits)
    BY <1>3, <2>2, ConcatProperties DEF Stream
  <2> QED
    BY <1>11, <2>1, <2>2, <2>3 DEF Read, b
<1>13. Stream(c)' = Stream(c)
  <2>1. (Read(c) \o chunk) \o SubSeq(line, Len(chunk) + 1, Len(line)) = Read(c) \o line
    BY <1>1, <1>3, <1>5, <1>12, StreamCut
  <2> QED
    BY <1>9, <1>12, <2>1 DEF Stream
<1>14. IsRest(Stream(c)', Stream(c), 0)
  <2>1. Len(Stream(c)) \in Nat /\ \A i \in 1 .. Len(Stream(c)) : i + 0 = i
    BY <1>12, LenProperties
  <2> QED
    BY <1>12, <1>13, <2>1 DEF IsRest
<1>15. FlowInv'
  BY <1>1, <1>3, <1>7, <1>9, <1>11, <1>14, ReadKeepsFlow
<1>16. ASSUME Len(b) = BodyLen, at' = [at EXCEPT ![c] = "after"] PROVE Ptc!Own(c)'
  <2> DEFINE answer == head[c] \o b
             s == answer \o line'
  <2>1. /\ answer \in Seq(PtcUnits) /\ Len(answer) = AnswerLen
        /\ \A i \in 1 .. 3 : answer[i] = head[c][i]
    <3>1. head[c] \in Seq(PtcUnits) /\ Len(head[c]) = 3 /\ Len(b) = BodyLen
      BY <1>3, <1>16
    <3>2. /\ answer \in Seq(PtcUnits) /\ Len(answer) = Len(head[c]) + Len(b)
          /\ \A i \in 1 .. Len(head[c]) : answer[i] = head[c][i]
      BY <1>7, <3>1, PartsOfStream
    <3> QED
      BY <3>1, <3>2 DEF AnswerLen
  <2>2. /\ s \in Seq(PtcUnits) /\ Len(s) = Len(answer) + Len(line')
        /\ \A i \in 1 .. Len(answer) : s[i] = answer[i]
    BY <1>9, <2>1, PartsOfStream
  <2>3. s = Stream(c)
    BY <1>11, <1>13 DEF Stream, Read
  <2> HIDE DEF answer, s
  <2>4. AnswerLen \in Nat /\ AnswerLen >= 4
    BY <1>4 DEF AnswerLen
  <2>5. Len(line') \in Nat
    BY <1>9, LenProperties
  <2>6. Len(s) # 0 /\ s[1] = answer[1] /\ s[3] = answer[3]
    BY <2>1, <2>2, <2>4, <2>5
  <2>7. Whole(s) /\ (query[c] # 0 => Only(s, query[c]))
    BY <1>3, <2>3 DEF AnswerInv, FlowInv, Fresh
  <2>8. answer[1].part = "I0" /\ answer[3].ok /\ answer[3].cmd = call[c].cmd
    BY <1>3, <2>1
  <2>9. \A k \in 1 .. AnswerLen : s[k] = [s[1] EXCEPT !.part = Ptc!Parts[k]]
    BY <2>2, <2>6, <2>7, <2>8, StartOfAnswer
  <2>10. \A k \in 1 .. AnswerLen : answer[k] = [answer[1] EXCEPT !.part = Ptc!Parts[k]]
    BY <2>1, <2>2, <2>6, <2>9
  <2>11. DOMAIN answer = 1 .. AnswerLen /\ answer[1] \in PtcUnits
    BY <2>1, <2>4, LenProperties, ElementOfSeq
  <2>12. /\ answer[1].ok /\ answer[1].cmd = call[c].cmd
    <3>1. answer[3] = [answer[1] EXCEPT !.part = Ptc!Parts[3]]
      <4>1. 3 \in 1 .. AnswerLen
        BY <2>4
      <4> QED
        BY <2>10, <4>1
    <3>2. answer[3].ok = answer[1].ok /\ answer[3].cmd = answer[1].cmd
      BY <2>11, <3>1 DEF PtcUnits
    <3> QED
      BY <2>8, <3>2
  <2>13. query[c] # 0 => answer[1].q = query[c]
    <3>1. 1 \in DOMAIN s /\ s[1].part # "body"
      BY <2>2, <2>6, <2>8, <2>1, <2>4, <2>5, LenProperties
    <3> QED
      BY <2>6, <2>7, <3>1 DEF Only
  <2>14. \A k \in 1 .. AnswerLen :
           /\ answer[k].part = Ptc!Parts[k] /\ answer[k].q = answer[1].q
           /\ answer[k].cmd = answer[1].cmd /\ answer[k].ok = answer[1].ok
    BY <2>10, <2>11 DEF PtcUnits
  <2>15. [i \in DOMAIN answer |-> answer[i].part] = Ptc!Parts
    <3>1. [i \in DOMAIN answer |-> answer[i].part] = [i \in 1 .. AnswerLen |-> Ptc!Parts[i]]
      BY <2>11, <2>14
    <3> QED
      BY <3>1, PartsOfAnswer
  <2>16. \A i \in DOMAIN answer :
           /\ answer[i].q = answer[1].q /\ answer[i].cmd = call[c].cmd /\ answer[i].ok
           /\ query[c] \in {0, answer[i].q}
    BY <2>11, <2>12, <2>13, <2>14
  <2>17. head'[c] \o body'[c] = answer /\ call'[c] = call[c] /\ query'[c] = query[c]
    BY <1>1, <1>11 DEF answer
  <2> QED
    BY <2>15, <2>16, <2>17 DEF Ptc!Own
<1>17. PlaceInv(c)'
  <2>1. CASE Len(b) < BodyLen /\ UNCHANGED <<at, ret, holder>>
    BY <1>1, <1>3, <1>11, <2>1 DEF PlaceInv
  <2>2. CASE /\ Len(b) = BodyLen /\ at' = [at EXCEPT ![c] = "after"]
             /\ ret' = [ret EXCEPT ![c] = 0] /\ holder' = "none"
    <3>1. at'[c] = "after" /\ holder' # c /\ Ptc!Own(c)'
      BY <1>4, <1>16, <2>2 DEF PtcType
    <3> QED
      BY <3>1 DEF PlaceInv
  <2> QED
    BY <1>9, <2>1, <2>2
<1>18. ASSUME NEW e \in Callers, e # c PROVE PlaceInv(e)'
  <2>1. holder # e /\ holder' # e
    BY <1>3, <1>4, <1>9, <1>18
  <2>2. at'[e] = at[e] /\ ret'[e] = ret[e] /\ body'[e] = body[e]
    BY <1>9, <1>18 DEF PtcType
  <2> QED
    BY <1>1, <2>1, <2>2, OthersStay DEF AnswerInv
<1> QED
  BY <1>10, <1>15, <1>17, <1>18 DEF AnswerInv

-----------------------------------------------------------------------------
(* Whatever the steps, what QueryCommand returns is an answer of its own.   *)
LEMMA AnswersAtFirst ==
  ASSUME Ptc!Init PROVE PtcType /\ AnswerInv
<1>1. PtcType
  BY NothingStreams DEF Ptc!Init, PtcType, CallType, PtcCmds, PtcPlaces, Ptc!Idle
<1>2. "none" \notin Callers
  BY PtcParameters DEF Ptc!PtcAssumption
<1> QED
  BY <1>1, <1>2, NothingStreams DEF Ptc!Init, AnswerInv, FlowInv, PlaceInv

(* Every step keeps the invariant. *)
LEMMA NextKeepsAnswers ==
  ASSUME PtcType, AnswerInv, Ptc!Next \/ UNCHANGED Ptc!ptcVars
  PROVE  PtcType' /\ AnswerInv'
<1>1. CASE Ptc!Connect \/ Ptc!SetTimeouts \/ Ptc!Reset \/ UNCHANGED Ptc!ptcVars
  BY <1>1, ConnectionKeepsAnswers
<1>2. CASE Ptc!Silence
  BY <1>2, SilenceKeepsAnswers
<1>3. ASSUME NEW ok \in BOOLEAN, Ptc!Reply(ok) PROVE PtcType' /\ AnswerInv'
  BY <1>3, ReplyKeepsAnswers
<1>4. ASSUME NEW c \in Callers, NEW cmd \in Cmds, NEW long \in BOOLEAN, Ptc!Call(c, cmd, 1, long)
      PROVE  PtcType' /\ AnswerInv'
  <2>1. cmd \in Cmds \cup {Ptc!UpgradeCmd} /\ 1 \in Nat
    OBVIOUS
  <2> QED
    BY <1>4, <2>1, CallKeepsAnswers
<1>5. ASSUME NEW c \in Callers, Ptc!Call(c, Ptc!UpgradeCmd, Packages, TRUE)
      PROVE  PtcType' /\ AnswerInv'
  <2>1. Ptc!UpgradeCmd \in Cmds \cup {Ptc!UpgradeCmd} /\ Packages \in Nat /\ TRUE \in BOOLEAN
    BY PtcParameters DEF Ptc!PtcAssumption
  <2> QED
    BY <1>5, <2>1, CallKeepsAnswers
<1>6. ASSUME NEW c \in Callers, Ptc!Step(c) PROVE PtcType' /\ AnswerInv'
  BY <1>6, CheckKeepsAnswers, SendKeepsAnswers, ReceiveHeaderKeepsAnswers,
     ReceiveBodyKeepsAnswers, GivingUpKeepsAnswers, AfterKeepsAnswers DEF Ptc!Step
<1> QED
  BY <1>1, <1>2, <1>3, <1>4, <1>5, <1>6 DEF Ptc!Next

(* The invariant implies the property. *)
LEMMA AnswersSuffice ==
  ASSUME AnswerInv PROVE Ptc!AnswerIsOwn
BY DEF AnswerInv, PlaceInv, Ptc!AnswerIsOwn

(* A step of MCServices is one of PtcClient, or leaves it alone. *)
LEMMA PtcSteps ==
  ASSUME [Next]_vars, part' = "ptc"
  PROVE  part = "ptc" /\ (Ptc!Next \/ UNCHANGED Ptc!ptcVars)
<1>1. CASE UNCHANGED vars
  BY <1>1 DEF vars, varsAsked, varsPtc, varsAt, Ptc!ptcVars, Ptc!socket, Ptc!callers, Ptc!history
<1>2. CASE Next
  BY <1>2 DEF Next, OfSerial, OfPtc, OfWaits, OfSaver, OfLog
<1> QED
  BY <1>1, <1>2

(* Proves: what QueryCommand returns as an answer is one whole answer to    *)
(* the command it sent, and to this very query unless an earlier one        *)
(* stopped waiting (QueryCommand, TcpFlushIn).                              *)
PtcInv == part = "ptc" => PtcType /\ AnswerInv

(* PtcType and AnswerInv hold of every run. *)
LEMMA PtcInvariant == Spec => []PtcInv
<1>1. Init => PtcInv
  BY AnswersAtFirst DEF Init, PtcInv
<1>2. PtcInv /\ [Next]_vars => PtcInv'
  BY PtcSteps, NextKeepsAnswers DEF PtcInv
<1> QED
  BY <1>1, <1>2, PTL DEF Spec

(* Proves: what QueryCommand returns as an answer is one whole answer to    *)
(* the command it sent, and to this very query unless an earlier one        *)
(* stopped waiting (QueryCommand, TcpFlushIn).                              *)
THEOREM AnswersAreOwn == Spec => []AnswerIsOwn
<1>1. PtcInv => AnswerIsOwn
  BY AnswersSuffice DEF AnswerIsOwn, PtcInv
<1> QED
  BY <1>1, PtcInvariant, PTL

-----------------------------------------------------------------------------
(* The timeouts are those of the calls that are under way. *)
LEMMA TimeoutsAtFirst ==
  ASSUME Ptc!Init PROVE TimeoutInv
BY DEF Ptc!Init, TimeoutInv, Ptc!Idle

(* A step that changes neither timeouts nor calls. *)
LEMMA TimeoutsStay ==
  ASSUME TimeoutInv, UNCHANGED <<opening, timeout, call>>,
         conn' = conn \/ conn' = "closed" \/ (conn = "open" /\ conn' = "reset"),
         reopened => reopened', \A c \in Callers : at'[c] = "idle" => at[c] = "idle"
  PROVE  TimeoutInv'
BY DEF TimeoutInv

(* A call begins, perhaps with its own timeout. *)
LEMMA CallKeepsTimeouts ==
  ASSUME PtcType, TimeoutInv, NEW c \in Callers, NEW cmd, NEW n, NEW long \in BOOLEAN,
         Ptc!Call(c, cmd, n, long)
  PROVE  TimeoutInv'
<1>1. /\ at[c] = "idle" /\ at' = [at EXCEPT ![c] = "check"]
      /\ call' = [call EXCEPT ![c] = [cmd |-> cmd, todo |-> n, long |-> long]]
      /\ ~long => timeout' = timeout
      /\ UNCHANGED <<conn, opening, reopened>>
  BY DEF Ptc!Call, Ptc!history
<1>2. at'[c] = "check" /\ call'[c].long = long /\ ~call[c].long
  BY <1>1 DEF PtcType, CallType, TimeoutInv
<1>3. \A d \in Callers : d # c => at'[d] = at[d] /\ call'[d] = call[d]
  BY <1>1 DEF PtcType, CallType
<1>4. \A d \in Callers : at'[d] = "idle" => ~call'[d].long
  BY <1>2, <1>3 DEF TimeoutInv
<1>5. CASE long
  BY <1>1, <1>2, <1>4, <1>5 DEF TimeoutInv
<1>6. CASE ~long
  <2>1. (\E d \in Callers : call[d].long) => \E d \in Callers : call'[d].long
    BY <1>2, <1>3
  <2> QED
    BY <1>1, <1>4, <1>6, <2>1 DEF TimeoutInv
<1> QED
  BY <1>5, <1>6

(* Send may connect again, without timeouts. *)
LEMMA SendKeepsTimeouts ==
  ASSUME PtcType, TimeoutInv, NEW c \in Callers, Ptc!Send(c)
  PROVE  TimeoutInv'
<1>1. /\ at[c] = "lock" /\ UNCHANGED <<opening, call>>
      /\ at' = [at EXCEPT ![c] = "header"] \/ at' = [at EXCEPT ![c] = "after"]
      /\ \/ reopened'
         \/ /\ timeout' = timeout /\ (reopened => reopened')
            /\ conn' = conn \/ conn' = "closed"
  BY DEF Ptc!Send, Ptc!Closed
<1>2. \A d \in Callers : at'[d] = "idle" => at[d] = "idle"
  BY <1>1 DEF PtcType
<1>3. CASE reopened'
  BY <1>1, <1>2, <1>3 DEF TimeoutInv
<1>4. CASE timeout' = timeout /\ (reopened => reopened') /\ (conn' = conn \/ conn' = "closed")
  BY <1>1, <1>2, <1>4, TimeoutsStay
<1> QED
  BY <1>1, <1>3, <1>4

(* A call ends and restores the timeouts, or goes on. *)
LEMMA AfterKeepsTimeouts ==
  ASSUME PtcType, TimeoutInv, ~OldUpgrade, NEW c \in Callers, Ptc!After(c)
  PROVE  TimeoutInv'
<1>1. /\ at[c] = "after" /\ UNCHANGED <<conn, opening, reopened>>
      /\ \/ /\ call' = [call EXCEPT ![c].todo = @ - 1] /\ at' = [at EXCEPT ![c] = "check"]
            /\ UNCHANGED timeout
         \/ /\ call' = [call EXCEPT ![c] = Ptc!Idle] /\ at' = [at EXCEPT ![c] = "idle"]
            /\ timeout' = IF call[c].long /\ conn # "closed" THEN "default" ELSE timeout
  BY DEF Ptc!After, Ptc!Restore, Ptc!Timed, Ptc!history
<1>2. \A d \in Callers : d # c => call'[d] = call[d] /\ at'[d] = at[d]
  BY <1>1 DEF PtcType, CallType
<1>3. CASE /\ call' = [call EXCEPT ![c].todo = @ - 1] /\ at' = [at EXCEPT ![c] = "check"]
           /\ UNCHANGED timeout
  <2>1. call'[c].long = call[c].long /\ at'[c] = "check"
    BY <1>3 DEF PtcType, CallType
  <2>2. (\E d \in Callers : call[d].long) => \E d \in Callers : call'[d].long
    BY <1>2, <2>1
  <2> QED
    BY <1>1, <1>2, <1>3, <2>1, <2>2 DEF TimeoutInv
<1>4. CASE /\ call' = [call EXCEPT ![c] = Ptc!Idle] /\ at' = [at EXCEPT ![c] = "idle"]
           /\ timeout' = IF call[c].long /\ conn # "closed" THEN "default" ELSE timeout
  <2>1. ~call'[c].long
    BY <1>4 DEF PtcType, CallType, Ptc!Idle
  <2>2. ~call[c].long /\ (\E d \in Callers : call[d].long) => \E d \in Callers : call'[d].long
    BY <1>2
  <2> QED
    BY <1>1, <1>2, <1>4, <2>1, <2>2 DEF TimeoutInv
<1> QED
  BY <1>1, <1>3, <1>4

(* Every step keeps TimeoutInv. *)
LEMMA NextKeepsTimeouts ==
  ASSUME PtcType, TimeoutInv, ~OldUpgrade, Ptc!Next \/ UNCHANGED Ptc!ptcVars
  PROVE  TimeoutInv'
<1>1. CASE Ptc!Connect
  BY <1>1 DEF Ptc!Connect, TimeoutInv, Ptc!callers, Ptc!history
<1>2. CASE Ptc!SetTimeouts
  BY <1>2 DEF Ptc!SetTimeouts, Ptc!Timed, TimeoutInv, Ptc!callers, Ptc!history
<1>3. CASE Ptc!Silence \/ Ptc!Reset \/ UNCHANGED Ptc!ptcVars \/ \E ok \in BOOLEAN : Ptc!Reply(ok)
  <2>1. UNCHANGED <<opening, timeout, call, at, reopened>> /\ (conn' = conn \/ (conn = "open" /\ conn' = "reset"))
    BY <1>3 DEF Ptc!Silence, Ptc!Reset, Ptc!Reply, Ptc!ptcVars, Ptc!socket, Ptc!callers, Ptc!history
  <2> QED
    BY <2>1, TimeoutsStay
<1>4. ASSUME NEW c \in Callers, NEW cmd, NEW n, NEW long \in BOOLEAN, Ptc!Call(c, cmd, n, long)
      PROVE  TimeoutInv'
  BY <1>4, CallKeepsTimeouts
<1>5. ASSUME NEW c \in Callers,
             \/ Ptc!Check(c) \/ Ptc!ReceiveHeader(c) \/ Ptc!ReceiveBody(c)
             \/ Ptc!RecvTimesOut(c) \/ Ptc!RecvFails(c)
      PROVE  TimeoutInv'
  <2>1. /\ UNCHANGED <<opening, timeout, call, reopened>> /\ (conn' = conn \/ conn' = "closed")
        /\ \/ UNCHANGED at
           \/ \E p \in {"lock", "body", "after"} : at' = [at EXCEPT ![c] = p]
    BY <1>5 DEF Ptc!Check, Ptc!ReceiveHeader, Ptc!ReceiveBody, Ptc!RecvTimesOut, Ptc!RecvFails,
                Ptc!Leave, Ptc!Closed, Ptc!socket, Ptc!history
  <2>2. \A d \in Callers : at'[d] = "idle" => at[d] = "idle"
    BY <2>1 DEF PtcType
  <2> QED
    BY <2>1, <2>2, TimeoutsStay
<1>6. ASSUME NEW c \in Callers, Ptc!Step(c) PROVE TimeoutInv'
  BY <1>5, <1>6, SendKeepsTimeouts, AfterKeepsTimeouts DEF Ptc!Step
<1>7. TRUE \in BOOLEAN
  OBVIOUS
<1> QED
  BY <1>1, <1>2, <1>3, <1>4, <1>6, <1>7 DEF Ptc!Next

(* The invariant implies the property. *)
LEMMA TimeoutsSuffice ==
  ASSUME TimeoutInv PROVE Ptc!TimeoutsRestored
BY DEF TimeoutInv, Ptc!TimeoutsRestored

TimeoutsUndone == part = "ptc" => Ptc!TimeoutsRestored

(* The timeouts are put back, in every run. *)
LEMMA TimeoutsAreRestored == ~OldUpgrade => (Spec => []TimeoutsUndone)
<1> SUFFICES ASSUME ~OldUpgrade PROVE Spec => []TimeoutsUndone
  OBVIOUS
<1> DEFINE Inv == part = "ptc" => TimeoutInv
<1>1. Init => Inv
  BY TimeoutsAtFirst DEF Init
<1>2. PtcInv /\ Inv /\ [Next]_vars => Inv'
  BY PtcSteps, NextKeepsTimeouts DEF PtcInv
<1>3. Inv => TimeoutsUndone
  BY TimeoutsSuffice DEF TimeoutsUndone
<1> HIDE DEF Inv
<1> QED
  BY <1>1, <1>2, <1>3, PtcInvariant, PTL DEF Spec

-----------------------------------------------------------------------------
(* The serial port: what is on its way. *)
Steps == {"idle", "enter", "info", "leave", "pbl", "mode", "request", "ready", "block"}
Args == Serial!Modes \cup Queries \cup {"pbl", "app", "none"} \cup SUBSET (0 .. Blocks-1)
Commands == [cmd : {"mode", "get", "request", "pbl"}, arg : Args]
              \cup [cmd : {"block"}, arg : SUBSET (0 .. Blocks-1)]
Answers == [cmd : {"mode", "get", "request", "pbl", "ready", "done", "failed"},
            arg : Args, code : {"0", "1"}]

SerialType ==
  /\ toLidar \in Seq(Commands) /\ answers \in Seq(Answers) /\ acks \in Seq(Answers)
  /\ step \in Steps /\ query \in Queries /\ forPbl \in BOOLEAN
  /\ block \in SUBSET (0 .. Blocks-1) /\ accepted \in SUBSET (0 .. Blocks-1)
  /\ waiting \in BOOLEAN /\ unheeded \in BOOLEAN

(* The command of a step. *)
LEMMA CommandTyped ==
  ASSUME SerialType, step \notin {"idle", "ready"}
  PROVE  /\ Serial!CommandOf(step) \in Commands
         /\ Serial!CommandOf(step).cmd = "block" <=> step = "block"
         /\ step = "block" => Serial!CommandOf(step).arg = block
         /\ Serial!CommandOf(step).cmd = "mode" <=> step \in {"enter", "leave", "mode"}
         /\ step = "leave" => Serial!CommandOf(step).arg = Serial!NowMode
<1>1. step \in {"enter", "info", "leave", "pbl", "mode", "request", "block"}
  BY DEF SerialType, Steps
<1> QED
  BY <1>1 DEF SerialType, Commands, Args, Serial!CommandOf, Serial!Modes, Serial!NowMode

(* Types hold initially. *)
LEMMA SerialTypeInit == Serial!Init => SerialType
<1>1. {0} \in SUBSET (0 .. Blocks-1) /\ {} \in SUBSET (0 .. Blocks-1)
  BY SerialParameters DEF Serial!SerialClientAssumption
<1>2. <<>> \in Seq(Commands) /\ <<>> \in Seq(Answers)
  BY EmptySeq
<1> QED
  BY <1>1, <1>2 DEF Serial!Init, SerialType, Steps

(* Answers that the lidar gives at once: those that end a step of an upgrade *)
(* have the code the settings allow, and a "done" comes alone, for a block   *)
(* that has been accepted.                                                   *)
Coded(s) ==
  \A i \in DOMAIN s : s[i].cmd \in {"ready", "failed", "pbl"} => s[i].code \in Serial!OtherCodes
Said(s, c) ==
  /\ s \in Seq(Answers) /\ Coded(s)
  /\ \A i \in DOMAIN s :
       s[i].cmd = "done" => /\ Len(s) = 1 /\ c.cmd = "block" /\ accepted' = accepted \cup c.arg

(* A lidar that says nothing. *)
LEMMA SaidNothing == ASSUME NEW c PROVE Said(<<>>, c)
BY EmptySeq DEF Said, Coded

(* One answer. *)
LEMMA SaidOne ==
  ASSUME NEW c, NEW a \in Answers,
         a.cmd \in {"ready", "failed", "pbl"} => a.code \in Serial!OtherCodes,
         a.cmd = "done" => c.cmd = "block" /\ accepted' = accepted \cup c.arg
  PROVE  Said(<<a>>, c)
<1>1. <<a>> \in Seq(Answers) /\ Len(<<a>>) = 1 /\ DOMAIN <<a>> = {1} /\ <<a>>[1] = a
  OBVIOUS
<1> QED
  BY <1>1 DEF Said, Coded

(* An acknowledged request, and that it is ready. *)
LEMMA SaidTwo ==
  ASSUME NEW c, NEW a \in Answers, NEW b \in Answers,
         a.cmd = "request", b.cmd = "ready", b.code \in Serial!OtherCodes
  PROVE  Said(<<a, b>>, c)
<1>1. /\ <<a, b>> \in Seq(Answers) /\ DOMAIN <<a, b>> = {1, 2}
      /\ <<a, b>>[1] = a /\ <<a, b>>[2] = b
  OBVIOUS
<1> QED
  BY <1>1 DEF Said, Coded

(* What the lidar does with the first command on its way. *)
LEMMA HandleEffect ==
  ASSUME SerialType, Serial!Handle
  PROVE  LET c == Head(toLidar)
         IN /\ toLidar # <<>> /\ c \in Commands /\ toLidar' = Tail(toLidar)
            /\ c.cmd = "mode" \/ mode' = mode
            /\ unheeded' = (unheeded \/ (c.cmd = "mode" /\ mode' # c.arg))
            /\ \E s : answers' = answers \o s /\ Said(s, c)
            /\ accepted' \in SUBSET (0 .. Blocks-1)
            /\ c.cmd = "block" => accepted' \in {accepted, accepted \cup c.arg}
<1> DEFINE c == Head(toLidar)
           Effect == /\ \E s : answers' = answers \o s /\ Said(s, c)
                     /\ accepted' \in SUBSET (0 .. Blocks-1)
                     /\ c.cmd = "block" => accepted' \in {accepted, accepted \cup c.arg}
<1>1. toLidar # <<>> /\ c \in Commands /\ toLidar' = Tail(toLidar)
  BY HeadTailProperties DEF SerialType, Serial!Handle
<1>2. /\ c.cmd \in {"mode", "get", "request", "pbl", "block"} /\ c.arg \in Args
      /\ c.cmd = "block" => c.arg \in SUBSET (0 .. Blocks-1)
      /\ "none" \in Args
  BY <1>1 DEF Commands, Args
<1>3. \A a \in Args, o \in {"0", "1"},
         k \in {"mode", "get", "request", "pbl", "ready", "done", "failed"} :
        /\ Serial!Answer(k, a, o) \in Answers
        /\ Serial!Answer(k, a, o).cmd = k /\ Serial!Answer(k, a, o).code = o
  BY DEF Answers, Serial!Answer
<1>4. accepted \in SUBSET (0 .. Blocks-1) /\ answers \in Seq(Answers)
  BY DEF SerialType
<1>5. \A o \in Serial!OtherCodes : o \in {"0", "1"}
  BY DEF Serial!OtherCodes
<1>6. (c.cmd = "mode" \/ mode' = mode)
      /\ unheeded' = (unheeded \/ (c.cmd = "mode" /\ mode' # c.arg))
  BY <1>2 DEF Serial!Handle, Serial!lidar
<1>7. Effect
  <2>1. CASE \E a \in {"0", "1"} :
               /\ Serial!Say(<<Serial!Answer(c.cmd, c.arg, a)>>)
               /\ c.cmd \in {"mode", "get", "request"}
               /\ UNCHANGED accepted
    <3>1. PICK a \in {"0", "1"} : /\ Serial!Say(<<Serial!Answer(c.cmd, c.arg, a)>>)
                                  /\ c.cmd \in {"mode", "get", "request"}
                                  /\ UNCHANGED accepted
      BY <2>1
    <3>2. Said(<<Serial!Answer(c.cmd, c.arg, a)>>, c)
      BY <3>1, <1>2, <1>3, SaidOne
    <3> QED
      BY <3>1, <3>2, <1>4 DEF Serial!Say
  <2>2. CASE /\ c.cmd = "request" /\ accepted' = {}
             /\ \E o \in Serial!OtherCodes :
                  Serial!Say(<<Serial!Answer("request", c.arg, Serial!Ok),
                               Serial!Answer("ready", "none", o)>>)
    <3>1. PICK o \in Serial!OtherCodes :
            Serial!Say(<<Serial!Answer("request", c.arg, Serial!Ok),
                         Serial!Answer("ready", "none", o)>>)
      BY <2>2
    <3>2. Said(<<Serial!Answer("request", c.arg, Serial!Ok),
                 Serial!Answer("ready", "none", o)>>, c)
      BY <3>1, <1>2, <1>3, <1>5, SaidTwo DEF Serial!Ok
    <3> QED
      BY <2>2, <3>1, <3>2 DEF Serial!Say
  <2>3. CASE /\ c.cmd = "pbl" /\ accepted' = {}
             /\ \E o \in Serial!OtherCodes : Serial!Say(<<Serial!Answer("pbl", "none", o)>>)
    <3>1. PICK o \in Serial!OtherCodes : Serial!Say(<<Serial!Answer("pbl", "none", o)>>)
      BY <2>3
    <3>2. Said(<<Serial!Answer("pbl", "none", o)>>, c)
      BY <3>1, <1>2, <1>3, <1>5, SaidOne
    <3> QED
      BY <2>3, <3>1, <3>2 DEF Serial!Say
  <2>4. CASE /\ c.cmd = "block" /\ accepted' = accepted \cup c.arg
             /\ Serial!Say(<<Serial!Answer("done", "none", Serial!Ok)>>)
    <3>1. Said(<<Serial!Answer("done", "none", Serial!Ok)>>, c)
      BY <2>4, <1>2, <1>3, SaidOne DEF Serial!Ok
    <3>2. accepted' \in SUBSET (0 .. Blocks-1)
      BY <2>4, <1>2, <1>4
    <3> QED
      BY <2>4, <3>1, <3>2 DEF Serial!Say
  <2>5. CASE /\ c.cmd = "block" /\ UNCHANGED accepted
             /\ \E o \in Serial!OtherCodes : Serial!Say(<<Serial!Answer("failed", "none", o)>>)
    <3>1. PICK o \in Serial!OtherCodes : Serial!Say(<<Serial!Answer("failed", "none", o)>>)
      BY <2>5
    <3>2. Said(<<Serial!Answer("failed", "none", o)>>, c)
      BY <3>1, <1>2, <1>3, <1>5, SaidOne
    <3> QED
      BY <2>5, <3>1, <3>2, <1>4 DEF Serial!Say
  <2>6. CASE UNCHANGED <<accepted, answers>>
    <3>1. answers' = answers \o <<>>
      BY <2>6, <1>4, ConcatEmptySeq
    <3> QED
      BY <2>6, <3>1, <1>4, SaidNothing
  <2> HIDE DEF Effect
  <2> QED
    BY <2>1, <2>2, <2>3, <2>4, <2>5, <2>6
    DEF Serial!Handle, Serial!lidar, Serial!Ok
<1> QED
  BY <1>1, <1>6, <1>7

(* The steps of an upgrade before its blocks. *)
Probing == {"pbl", "mode", "request", "ready"}

(* What a call does with the verdict on its exchange. *)
LEMMA AfterEffect ==
  ASSUME SerialType, NEW v, NEW done, Serial!After(v, done)
  PROVE  \/ /\ step \in {"enter", "info"} /\ step' \in {"info", "leave"} /\ waiting' = FALSE
            /\ UNCHANGED <<opened, block, result>>
         \/ /\ step = "leave" /\ step' = "idle" /\ waiting' = FALSE
            /\ result'.call = "get" /\ UNCHANGED block
         \/ /\ step \in Probing /\ step' \in Probing \cup {"block"}
            /\ waiting' = (step' = "ready") /\ UNCHANGED <<opened, block, result>>
         \/ /\ step \in Probing /\ step' = "idle" /\ waiting' = FALSE /\ UNCHANGED block
            /\ step = "pbl" \/ v # Serial!Ok
            /\ result' = [call |-> "upgrade", ret |-> v]
         \/ /\ step = "block" /\ step' = "idle" /\ waiting' = FALSE /\ UNCHANGED block
            /\ v # Serial!Ok \/ Blocks-1 \in block
            /\ result' = [call |-> "upgrade", ret |-> v]
         \/ /\ step = "block" /\ step' = "block" /\ waiting' = FALSE /\ UNCHANGED <<opened, result>>
            /\ v = Serial!Ok /\ Blocks-1 \notin block
            /\ block' \in SUBSET (0 .. Blocks-1)
            /\ done => block' = {i + 1 : i \in block}
<1>1. CASE Serial!AfterQuery(v)
  <2>1. CASE step \in {"enter", "info"}
    BY <1>1, <2>1 DEF Serial!AfterQuery, Serial!Continue
  <2>2. CASE step = "leave"
    BY <1>1, <2>2 DEF Serial!AfterQuery, Serial!Return
  <2> QED
    BY <1>1, <2>1, <2>2 DEF Serial!AfterQuery
<1>2. CASE Serial!AfterProbe(v)
  BY <1>2 DEF Serial!AfterProbe, Serial!Continue, Serial!Return, Probing
<1>3. CASE Serial!AfterRequest(v)
  BY <1>3 DEF Serial!AfterRequest, Serial!Continue, Serial!Return, Probing
<1>4. CASE Serial!AfterBlock(v, done)
  <2>1. CASE v # Serial!Ok \/ Blocks-1 \in block
    BY <1>4, <2>1 DEF Serial!AfterBlock, Serial!Return
  <2>2. CASE v = Serial!Ok /\ Blocks-1 \notin block
    <3>1. /\ step = "block" /\ step' = "block" /\ waiting' = FALSE /\ UNCHANGED <<opened, result>>
          /\ block' = IF done THEN {i + 1 : i \in block} ELSE UNION {i .. Blocks-1 : i \in block}
      BY <1>4, <2>2 DEF Serial!AfterBlock, Serial!NextBlock
    <3>2. Blocks \in Nat \ {0} /\ block \in SUBSET (0 .. Blocks-1)
      BY SerialParameters DEF Serial!SerialClientAssumption, SerialType
    <3>3. {i + 1 : i \in block} \in SUBSET (0 .. Blocks-1)
      BY <2>2, <3>2
    <3>4. UNION {i .. Blocks-1 : i \in block} \in SUBSET (0 .. Blocks-1)
      BY <3>2
    <3> QED
      BY <2>2, <3>1, <3>3, <3>4
  <2> QED
    BY <2>1, <2>2
<1> QED
  BY <1>1, <1>2, <1>3, <1>4 DEF Serial!After

(* What clearing the ring between two exchanges leaves. *)
LEMMA ClearedEffect ==
  ASSUME NEW ring \in Seq(Answers), NEW rest \in Seq(Answers), Serial!Cleared(ring, rest)
  PROVE  /\ acks' \in Seq(Answers) /\ acks' \in {<<>>, ring}
         /\ answers' \in Seq(Answers) /\ Len(answers') <= Len(rest)
         /\ \A i \in 1 .. Len(answers') : answers'[i] = rest[i + Len(rest) - Len(answers')]
<1>0. Len(rest) \in Nat
  BY LenProperties
<1>1. CASE Serial!Reopens
  <2>1. PICK n \in 0 .. Len(rest) : answers' = SubSeq(rest, n+1, Len(rest))
    BY <1>1 DEF Serial!Cleared
  <2>2. \A i \in n+1 .. Len(rest) : rest[i] \in Answers
    BY <1>0, <2>1, ElementOfSeq
  <2>3. /\ answers' \in Seq(Answers)
        /\ Len(answers') = IF n+1 <= Len(rest) THEN Len(rest) - (n+1) + 1 ELSE 0
        /\ \A i \in 1 .. Len(rest) - (n+1) + 1 : answers'[i] = rest[(n+1) + i - 1]
    BY <1>0, <2>1, <2>2, SubSeqProperties
  <2>4. Len(answers') = Len(rest) - n
    BY <1>0, <2>3
  <2>5. acks' = <<>> /\ <<>> \in Seq(Answers)
    BY <1>1, EmptySeq DEF Serial!Cleared
  <2>6. ASSUME NEW i \in 1 .. Len(answers')
        PROVE  answers'[i] = rest[i + Len(rest) - Len(answers')]
    <3>1. /\ i \in 1 .. Len(rest) - (n+1) + 1
          /\ (n+1) + i - 1 = i + Len(rest) - Len(answers')
      BY <1>0, <2>4
    <3> QED
      BY <2>3, <3>1
  <2>7. Len(answers') <= Len(rest)
    BY <1>0, <2>4
  <2> QED
    BY <2>3, <2>5, <2>6, <2>7
<1>2. CASE ~Serial!Reopens
  BY <1>0, <1>2 DEF Serial!Cleared
<1> QED
  BY <1>1, <1>2

(* Every step keeps the types. *)
LEMMA SerialTypeKept ==
  ASSUME SerialType, Serial!Next PROVE SerialType'
<1>1. CASE Serial!Handle
  <2>1. toLidar' \in Seq(Commands)
    BY <1>1, HandleEffect, HeadTailProperties DEF SerialType
  <2>2. answers' \in Seq(Answers)
    <3>1. PICK s : answers' = answers \o s /\ Said(s, Head(toLidar))
      BY <1>1, HandleEffect
    <3>2. s \in Seq(Answers) /\ answers \in Seq(Answers)
      BY <3>1 DEF Said, SerialType
    <3> QED
      BY <3>1, <3>2, ConcatProperties
  <2>3. unheeded' \in BOOLEAN
    BY <1>1, HandleEffect DEF SerialType
  <2>4. accepted' \in SUBSET (0 .. Blocks-1)
    BY <1>1, HandleEffect
  <2> QED
    BY <1>1, <2>1, <2>2, <2>3, <2>4 DEF SerialType, Serial!Handle, Serial!client
<1>2. CASE Serial!LoseCommand
  <2>1. toLidar' \in Seq(Commands)
    BY <1>2, HeadTailProperties DEF SerialType, Serial!LoseCommand
  <2>2. unheeded' \in BOOLEAN
    BY <1>2 DEF Serial!LoseCommand
  <2> QED
    BY <1>2, <2>1, <2>2 DEF SerialType, Serial!LoseCommand, Serial!lidar, Serial!client
<1>3. CASE Serial!LoseAnswer
  BY <1>3, HeadTailProperties DEF SerialType, Serial!LoseAnswer, Serial!lidar, Serial!client
<1>4. CASE Serial!Arrive
  <2>1. answers' \in Seq(Answers) /\ Head(answers) \in Answers
    BY <1>4, HeadTailProperties DEF SerialType, Serial!Arrive
  <2>2. acks' \in Seq(Answers)
    BY <1>4, <2>1 DEF SerialType, Serial!Arrive
  <2> QED
    BY <1>4, <2>1, <2>2 DEF SerialType, Serial!Arrive, Serial!lidar, Serial!client
<1>5. CASE \E q \in Queries : Serial!GetInfo(q)
  BY <1>5 DEF SerialType, Steps, Serial!GetInfo, Serial!lidar, Serial!wire
<1>6. CASE \E pbl, opens \in BOOLEAN : Serial!UpgradeLidar(pbl, opens)
  <2>1. {0} \in SUBSET (0 .. Blocks-1)
    BY SerialParameters DEF Serial!SerialClientAssumption
  <2>2. <<>> \in Seq(Answers)
    BY EmptySeq
  <2> QED
    BY <1>6, <2>1, <2>2 DEF SerialType, Steps, Serial!UpgradeLidar, Serial!lidar, Serial!wire
<1>7. CASE Serial!Ask
  <2>1. toLidar' \in Seq(Commands)
    BY <1>7, CommandTyped DEF SerialType, Serial!Ask
  <2>2. acks' \in Seq(Answers)
    BY <1>7, EmptySeq DEF SerialType, Serial!Ask
  <2> QED
    BY <1>7, <2>1, <2>2 DEF SerialType, Serial!Ask, Serial!lidar
<1>8. ASSUME NEW v, NEW done, Serial!After(v, done)
      PROVE  step' \in Steps /\ waiting' \in BOOLEAN /\ block' \in SUBSET (0 .. Blocks-1)
  BY <1>8, AfterEffect DEF Steps, SerialType, Probing
<1>9. CASE Serial!Answered
  <2>1. Tail(acks) \in Seq(Answers) /\ answers \in Seq(Answers)
    BY <1>9, HeadTailProperties DEF SerialType, Serial!Answered
  <2>2. acks' \in Seq(Answers) /\ answers' \in Seq(Answers)
    BY <1>9, <2>1, ClearedEffect DEF Serial!Answered
  <2> QED
    BY <1>9, <1>8, <2>1, <2>2 DEF SerialType, Serial!Answered, Serial!lidar
<1>10. CASE Serial!TimedOut
  <2>1. acks' \in Seq(Answers) /\ answers' \in Seq(Answers)
    BY <1>10, ClearedEffect DEF SerialType, Serial!TimedOut
  <2> QED
    BY <1>10, <1>8, <2>1 DEF SerialType, Serial!TimedOut, Serial!lidar
<1> QED
  BY <1>1, <1>2, <1>3, <1>4, <1>5, <1>6, <1>7, <1>9, <1>10 DEF Serial!Next

(* So does a stutter. *)
LEMMA SerialVarsKeepType == ASSUME SerialType, UNCHANGED Serial!serialClientVars PROVE SerialType'
BY DEF SerialType, Serial!serialClientVars, Serial!lidar, Serial!wire, Serial!client

-----------------------------------------------------------------------------
(* The mode that the commands on their way leave the lidar in. *)
EndsIn(m) ==
  \/ \E i \in DOMAIN toLidar :
       /\ toLidar[i].cmd = "mode" /\ toLidar[i].arg = m
       /\ \A j \in DOMAIN toLidar : j > i => toLidar[j].cmd # "mode"
  \/ mode = m /\ \A i \in DOMAIN toLidar : toLidar[i].cmd # "mode"

(* Once GetX has asked for the old mode, the commands on their way end in it. *)
ModeInv ==
  ~unheeded /\ ((step = "idle" /\ result.call = "get") \/ (step = "leave" /\ waiting))
  => EndsIn(Serial!NowMode)

(* The mode the lidar ends in does not change when it handles a command. *)
LEMMA LastModeAfterTail ==
  ASSUME SerialType, toLidar # <<>>, toLidar' = Tail(toLidar), NEW m, EndsIn(m),
         mode' = IF Head(toLidar).cmd = "mode" THEN Head(toLidar).arg ELSE mode
  PROVE  EndsIn(m)'
<1>1. /\ toLidar \in Seq(Commands) /\ toLidar' \in Seq(Commands)
      /\ Len(toLidar) \in Nat \ {0} /\ Len(toLidar') = Len(toLidar) - 1
      /\ \A i \in 1 .. Len(toLidar') : toLidar'[i] = toLidar[i+1]
  BY HeadTailProperties, EmptySeq DEF SerialType
<1>2. DOMAIN toLidar = 1 .. Len(toLidar) /\ DOMAIN toLidar' = 1 .. Len(toLidar')
  BY <1>1, LenProperties
<1>3. Head(toLidar) = toLidar[1]
  BY <1>1
<1>4. CASE mode = m /\ \A i \in DOMAIN toLidar : toLidar[i].cmd # "mode"
  BY <1>1, <1>2, <1>3, <1>4 DEF EndsIn
<1>5. ASSUME NEW i \in DOMAIN toLidar, toLidar[i].cmd = "mode", toLidar[i].arg = m,
             \A j \in DOMAIN toLidar : j > i => toLidar[j].cmd # "mode"
      PROVE  EndsIn(m)'
  <2>1. CASE i = 1
    <3>1. mode' = m
      BY <1>3, <1>5, <2>1
    <3>2. \A j \in DOMAIN toLidar' : toLidar'[j].cmd # "mode"
      BY <1>1, <1>2, <1>5, <2>1
    <3> QED
      BY <3>1, <3>2 DEF EndsIn
  <2>2. CASE i > 1
    <3>1. i - 1 \in DOMAIN toLidar' /\ toLidar'[i-1] = toLidar[i]
      BY <1>1, <1>2, <2>2
    <3>2. \A j \in DOMAIN toLidar' : j > i-1 => toLidar'[j].cmd # "mode"
      BY <1>1, <1>2, <1>5, <2>2
    <3> QED
      BY <1>5, <3>1, <3>2 DEF EndsIn
  <2> QED
    BY <1>2, <2>1, <2>2
<1> QED
  BY <1>4, <1>5 DEF EndsIn

(* ModeInv holds initially. *)
LEMMA ModeInvInit == Serial!Init => ModeInv
BY DEF Serial!Init, ModeInv

(* Every step keeps ModeInv. *)
LEMMA ModeInvKept ==
  ASSUME SerialType, ModeInv, [Serial!Next]_Serial!serialClientVars
  PROVE  ModeInv'
<1> DEFINE Left == (step = "idle" /\ result.call = "get") \/ (step = "leave" /\ waiting)
<1>1. ASSUME Left, ~unheeded, UNCHANGED <<mode, toLidar>> PROVE ModeInv'
  BY <1>1 DEF ModeInv, EndsIn
<1>2. CASE UNCHANGED Serial!serialClientVars
  BY <1>2 DEF ModeInv, EndsIn, Serial!serialClientVars, Serial!lidar, Serial!wire, Serial!client
<1>3. CASE Serial!Handle
  <2> SUFFICES ASSUME ~unheeded', Left' PROVE EndsIn(Serial!NowMode)'
    BY DEF ModeInv
  <2>1. Left /\ ~unheeded
    BY <1>3, HandleEffect DEF Serial!Handle, Serial!client
  <2>2. /\ toLidar # <<>> /\ toLidar' = Tail(toLidar)
        /\ mode' = IF Head(toLidar).cmd = "mode" THEN Head(toLidar).arg ELSE mode
    BY <1>3, HandleEffect
  <2> QED
    BY <2>1, <2>2, LastModeAfterTail DEF ModeInv
<1>4. CASE Serial!LoseCommand
  <2> SUFFICES ASSUME ~unheeded', Left' PROVE EndsIn(Serial!NowMode)'
    BY DEF ModeInv
  <2>1. Left /\ ~unheeded
    BY <1>4 DEF Serial!LoseCommand, Serial!client
  <2>2. /\ toLidar # <<>> /\ toLidar' = Tail(toLidar)
        /\ mode' = IF Head(toLidar).cmd = "mode" THEN Head(toLidar).arg ELSE mode
    BY <1>4 DEF Serial!LoseCommand, Serial!lidar
  <2> QED
    BY <2>1, <2>2, LastModeAfterTail DEF ModeInv
<1>5. CASE Serial!LoseAnswer
  BY <1>1, <1>5 DEF ModeInv, Serial!LoseAnswer, Serial!lidar, Serial!client
<1>6. CASE Serial!Arrive
  BY <1>1, <1>6 DEF ModeInv, Serial!Arrive, Serial!lidar, Serial!client
<1>7. CASE \E q \in Queries : Serial!GetInfo(q)
  BY <1>7 DEF ModeInv, Serial!GetInfo
<1>8. CASE \E pbl, opens \in BOOLEAN : Serial!UpgradeLidar(pbl, opens)
  <2>1. step' = "pbl" \/ (step' = "idle" /\ result'.call = "upgrade")
    BY <1>8 DEF Serial!UpgradeLidar
  <2> QED
    BY <2>1 DEF ModeInv
<1>9. CASE Serial!Ask
  <2>1. CASE step = "leave"
    <3>1. toLidar' = Append(toLidar, Serial!CommandOf(step)) /\ Serial!CommandOf(step) \in Commands
          /\ Serial!CommandOf(step).cmd = "mode" /\ Serial!CommandOf(step).arg = Serial!NowMode
      BY <1>9, <2>1, CommandTyped DEF Serial!Ask
    <3>2. toLidar \in Seq(Commands)
      BY DEF SerialType
    <3>3. /\ DOMAIN toLidar' = 1 .. Len(toLidar) + 1
          /\ toLidar'[Len(toLidar) + 1] = Serial!CommandOf(step) /\ Len(toLidar) \in Nat
      BY <3>1, <3>2
    <3>4. EndsIn(Serial!NowMode)'
      BY <3>1, <3>3 DEF EndsIn
    <3> QED
      BY <3>4 DEF ModeInv
  <2>2. CASE step # "leave"
    BY <1>9, <2>2 DEF Serial!Ask, ModeInv
  <2> QED
    BY <2>1, <2>2
<1>10. ASSUME NEW v, NEW done, Serial!After(v, done), UNCHANGED <<mode, toLidar, unheeded>>,
              waiting
       PROVE  ModeInv'
  <2>1. CASE step' = "idle" /\ result'.call = "get"
    <3>1. [call |-> "upgrade", ret |-> v].call # "get"
      OBVIOUS
    <3>2. result' # [call |-> "upgrade", ret |-> v]
      BY <2>1, <3>1
    <3>3. step = "leave"
      BY <1>10, <2>1, <3>2, AfterEffect DEF Probing
    <3> QED
      BY <1>1, <1>10, <3>3 DEF ModeInv
  <2>2. step' # "leave" \/ ~waiting'
    BY <1>10, AfterEffect DEF Probing
  <2> QED
    BY <2>1, <2>2 DEF ModeInv
<1>11. CASE Serial!Answered
  BY <1>10, <1>11 DEF Serial!Answered, Serial!lidar
<1>12. CASE Serial!TimedOut
  BY <1>10, <1>12 DEF Serial!TimedOut, Serial!lidar
<1> QED
  BY <1>2, <1>3, <1>4, <1>5, <1>6, <1>7, <1>8, <1>9, <1>11, <1>12 DEF Serial!Next

(* Nothing on its way: the lidar is in the mode the commands end in. *)
LEMMA ModeInvSuffices == ModeInv => Serial!ModeRestored
BY DEF ModeInv, EndsIn, Serial!ModeRestored

-----------------------------------------------------------------------------
(* An upgrade: where its blocks and what the lidar says of them are. *)
NoDone(s) == \A i \in DOMAIN s : s[i].cmd # "done"
OneDone(s) == \A i, j \in DOMAIN s : s[i].cmd = "done" /\ s[j].cmd = "done" => i = j
NothingDone == NoDone(acks) /\ NoDone(answers)
FewDone == (NoDone(acks) /\ OneDone(answers)) \/ (OneDone(acks) /\ NoDone(answers))
NoBlocks == \A i \in DOMAIN toLidar : toLidar[i].cmd # "block"

(* Block b is to be sent; everything before it has been accepted. *)
ToSend(b) ==
  /\ ~waiting /\ NoBlocks /\ NothingDone
  /\ b > 0 => toLidar = <<>> /\ 0 .. b-1 \subseteq accepted
(* Block b is on its way, behind what the lidar has not read yet. *)
OnItsWay(b) ==
  /\ waiting /\ NothingDone /\ toLidar # <<>>
  /\ toLidar[Len(toLidar)].cmd = "block" /\ toLidar[Len(toLidar)].arg = {b}
  /\ \A i \in 1 .. Len(toLidar) - 1 : toLidar[i].cmd # "block"
  /\ b > 0 => Len(toLidar) = 1 /\ 0 .. b-1 \subseteq accepted
(* Block b has been lost, refused or ignored. *)
Missed == waiting /\ NoBlocks /\ NothingDone
(* Block b has been accepted, and at most one answer says so. *)
Taken(b) ==
  /\ waiting /\ toLidar = <<>> /\ 0 .. b \subseteq accepted
  /\ FewDone

BlockInv(b) ==
  block = {b} /\ (ToSend(b) \/ OnItsWay(b) \/ Missed \/ Taken(b))

UpgradeInv ==
  /\ Coded(acks) /\ Coded(answers)
  /\ step \in Probing => block = {0} /\ NoBlocks /\ NothingDone
  /\ step = "block" => \E b \in 0 .. Blocks-1 : BlockInv(b)
  /\ step = "idle" /\ result = [call |-> "upgrade", ret |-> Serial!Ok]
     => toLidar = <<>> /\ accepted = 0 .. Blocks-1
(* The answers behind the first. *)
LEMMA AnswersBehind ==
  ASSUME NEW s \in Seq(Answers), s # <<>>
  PROVE  /\ Coded(s) => Coded(Tail(s))
         /\ NoDone(s) => NoDone(Tail(s)) /\ Head(s).cmd # "done"
         /\ OneDone(s) => OneDone(Tail(s))
         /\ OneDone(s) /\ Head(s).cmd = "done" => NoDone(Tail(s))
         /\ Coded(s) /\ Head(s).cmd \in {"ready", "failed", "pbl"}
            => Head(s).code \in Serial!OtherCodes
         /\ Head(s) \in Answers /\ Tail(s) \in Seq(Answers)
<1>1. /\ Tail(s) \in Seq(Answers) /\ Len(s) \in Nat \ {0} /\ Len(Tail(s)) = Len(s) - 1
      /\ \A i \in 1 .. Len(Tail(s)) : Tail(s)[i] = s[i+1]
  BY HeadTailProperties, EmptySeq
<1>2. DOMAIN s = 1 .. Len(s) /\ DOMAIN Tail(s) = 1 .. Len(Tail(s))
  BY <1>1, LenProperties
<1>3. Head(s) = s[1] /\ 1 \in DOMAIN s
  BY <1>1, <1>2
<1>4. \A i \in DOMAIN Tail(s) : i+1 \in DOMAIN s /\ i+1 # 1 /\ Tail(s)[i] = s[i+1]
  BY <1>1, <1>2
<1>5. Coded(s) => Coded(Tail(s))
  BY <1>4 DEF Coded
<1>6. NoDone(s) => NoDone(Tail(s)) /\ Head(s).cmd # "done"
  BY <1>3, <1>4 DEF NoDone
<1>7. OneDone(s) => OneDone(Tail(s))
  BY <1>1, <1>2, <1>4 DEF OneDone
<1>8. OneDone(s) /\ Head(s).cmd = "done" => NoDone(Tail(s))
  BY <1>3, <1>4 DEF OneDone, NoDone
<1>9. Coded(s) /\ Head(s).cmd \in {"ready", "failed", "pbl"} => Head(s).code \in Serial!OtherCodes
  BY <1>3 DEF Coded
<1>10. Head(s) \in Answers
  BY <1>1, HeadTailProperties
<1> QED
  BY <1>1, <1>5, <1>6, <1>7, <1>8, <1>9, <1>10

(* The last answers of some. *)
LEMMA LastAnswers ==
  ASSUME NEW s \in Seq(Answers), NEW t \in Seq(Answers), Len(t) <= Len(s),
         \A i \in 1 .. Len(t) : t[i] = s[i + Len(s) - Len(t)]
  PROVE  (Coded(s) => Coded(t)) /\ (NoDone(s) => NoDone(t)) /\ (OneDone(s) => OneDone(t))
<1>1. /\ Len(s) \in Nat /\ Len(t) \in Nat
      /\ DOMAIN s = 1 .. Len(s) /\ DOMAIN t = 1 .. Len(t)
  BY LenProperties
<1>2. \A i \in DOMAIN t : i + Len(s) - Len(t) \in DOMAIN s
  BY <1>1
<1>3. Coded(s) => Coded(t)
  BY <1>1, <1>2 DEF Coded
<1>4. NoDone(s) => NoDone(t)
  BY <1>1, <1>2 DEF NoDone
<1>5. OneDone(s) => OneDone(t)
  <2> SUFFICES ASSUME OneDone(s), NEW i \in DOMAIN t, NEW j \in DOMAIN t,
                      t[i].cmd = "done", t[j].cmd = "done"
               PROVE  i = j
    BY DEF OneDone
  <2>1. i + Len(s) - Len(t) = j + Len(s) - Len(t)
    BY <1>1, <1>2 DEF OneDone
  <2> QED
    BY <1>1, <2>1
<1> QED
  BY <1>3, <1>4, <1>5

(* An answer arrives. *)
LEMMA AnswerArrives ==
  ASSUME NEW s \in Seq(Answers), NEW a \in Answers
  PROVE  /\ Coded(s) /\ (a.cmd \in {"ready", "failed", "pbl"} => a.code \in Serial!OtherCodes)
            => Coded(Append(s, a))
         /\ NoDone(s) /\ a.cmd # "done" => NoDone(Append(s, a))
         /\ OneDone(s) /\ a.cmd # "done" => OneDone(Append(s, a))
         /\ NoDone(s) => OneDone(Append(s, a))
<1>1. /\ Append(s, a) \in Seq(Answers) /\ Len(s) \in Nat /\ DOMAIN s = 1 .. Len(s)
      /\ DOMAIN Append(s, a) = 1 .. Len(s) + 1 /\ Append(s, a)[Len(s) + 1] = a
      /\ \A i \in 1 .. Len(s) : Append(s, a)[i] = s[i]
  OBVIOUS
<1>2. \A i \in DOMAIN Append(s, a) :
        (i \in DOMAIN s /\ Append(s, a)[i] = s[i]) \/ (i = Len(s) + 1 /\ Append(s, a)[i] = a)
  BY <1>1
<1> QED
  BY <1>2 DEF Coded, NoDone, OneDone

(* The lidar answers. *)
LEMMA LidarAnswers ==
  ASSUME NEW s \in Seq(Answers), NEW x, NEW c, Said(x, c)
  PROVE  /\ Coded(s) => Coded(s \o x)
         /\ NoDone(s) => \/ NoDone(s \o x)
                         \/ c.cmd = "block" /\ accepted' = accepted \cup c.arg /\ OneDone(s \o x)
<1>1. /\ x \in Seq(Answers) /\ s \o x \in Seq(Answers)
      /\ Len(s) \in Nat /\ Len(x) \in Nat /\ Len(s \o x) = Len(s) + Len(x)
      /\ \A i \in 1 .. Len(s) + Len(x) :
           (s \o x)[i] = IF i <= Len(s) THEN s[i] ELSE x[i - Len(s)]
  BY ConcatProperties, LenProperties DEF Said
<1>2. /\ DOMAIN s = 1 .. Len(s) /\ DOMAIN x = 1 .. Len(x)
      /\ DOMAIN (s \o x) = 1 .. Len(s) + Len(x)
  BY <1>1, LenProperties
<1>3. \A i \in DOMAIN (s \o x) :
        \/ i \in DOMAIN s /\ (s \o x)[i] = s[i]
        \/ i - Len(s) \in DOMAIN x /\ (s \o x)[i] = x[i - Len(s)]
  BY <1>1, <1>2
<1>4. Coded(s) => Coded(s \o x)
  BY <1>3 DEF Coded, Said
<1>5. CASE \A i \in DOMAIN x : x[i].cmd # "done"
  <2>1. NoDone(s) => NoDone(s \o x)
    BY <1>3, <1>5 DEF NoDone
  <2> QED
    BY <1>4, <2>1
<1>6. CASE \E i \in DOMAIN x : x[i].cmd = "done"
  <2>1. Len(x) = 1 /\ c.cmd = "block" /\ accepted' = accepted \cup c.arg
    BY <1>6 DEF Said
  <2>2. NoDone(s) => \A i \in DOMAIN (s \o x) : (s \o x)[i].cmd = "done" => i = Len(s) + 1
    BY <1>1, <1>2, <1>3, <2>1 DEF NoDone
  <2>3. NoDone(s) => OneDone(s \o x)
    BY <2>2 DEF OneDone
  <2> QED
    BY <1>4, <2>1, <2>3
<1> QED
  BY <1>5, <1>6

(* The first command on its way is read or lost. *)
LEMMA CommandsBehind ==
  ASSUME SerialType, toLidar # <<>>, toLidar' = Tail(toLidar)
  PROVE  /\ NoBlocks => NoBlocks' /\ Head(toLidar).cmd # "block"
         /\ (\A i \in 1 .. Len(toLidar) - 1 : toLidar[i].cmd # "block")
            => \/ Len(toLidar) = 1 /\ toLidar' = <<>> /\ Head(toLidar) = toLidar[1]
               \/ /\ Len(toLidar) > 1 /\ Head(toLidar).cmd # "block" /\ toLidar' # <<>>
                  /\ Len(toLidar') = Len(toLidar) - 1
                  /\ toLidar'[Len(toLidar')] = toLidar[Len(toLidar)]
                  /\ \A i \in 1 .. Len(toLidar') - 1 : toLidar'[i].cmd # "block"
<1>1. /\ toLidar' \in Seq(Commands) /\ Len(toLidar) \in Nat \ {0}
      /\ Len(toLidar') = Len(toLidar) - 1
      /\ \A i \in 1 .. Len(toLidar') : toLidar'[i] = toLidar[i+1]
  BY HeadTailProperties, EmptySeq DEF SerialType
<1>2. /\ DOMAIN toLidar = 1 .. Len(toLidar) /\ DOMAIN toLidar' = 1 .. Len(toLidar')
  BY <1>1, LenProperties DEF SerialType
<1>3. Head(toLidar) = toLidar[1]
  BY <1>1 DEF SerialType
<1>4. NoBlocks => NoBlocks' /\ Head(toLidar).cmd # "block"
  BY <1>1, <1>2, <1>3 DEF NoBlocks
<1>5. CASE Len(toLidar) = 1
  <2>1. toLidar' = <<>>
    BY <1>1, <1>5, EmptySeq
  <2> QED
    BY <1>3, <1>4, <1>5, <2>1
<1>6. CASE Len(toLidar) > 1
  <2>1. Len(toLidar') \in 1 .. Len(toLidar') /\ toLidar' # <<>>
    BY <1>1, <1>6, EmptySeq
  <2>2. toLidar'[Len(toLidar')] = toLidar[Len(toLidar)]
    BY <1>1, <2>1
  <2>3. (\A i \in 1 .. Len(toLidar) - 1 : toLidar[i].cmd # "block")
        => /\ Head(toLidar).cmd # "block"
           /\ \A i \in 1 .. Len(toLidar') - 1 : toLidar'[i].cmd # "block"
    BY <1>1, <1>3, <1>6
  <2> QED
    BY <1>1, <1>4, <1>6, <2>1, <2>2, <2>3
<1> QED
  BY <1>1, <1>5, <1>6

(* UpgradeInv holds initially. *)
LEMMA UpgradeInvInit == Serial!Init => UpgradeInv
<1>1. DOMAIN <<>> = {}
  OBVIOUS
<1> QED
  BY <1>1 DEF Serial!Init, UpgradeInv, Coded, Probing

(* Lidar and wire, while the client does nothing. *)
LEMMA HandleKeepsUpgrade ==
  ASSUME SerialType, UpgradeInv, Serial!Handle PROVE UpgradeInv'
<1> DEFINE c == Head(toLidar)
<1>1. /\ toLidar # <<>> /\ c \in Commands /\ toLidar' = Tail(toLidar)
      /\ accepted' \in SUBSET (0 .. Blocks-1)
      /\ c.cmd = "block" => accepted' \in {accepted, accepted \cup c.arg}
      /\ \E s : answers' = answers \o s /\ Said(s, c)
  BY HandleEffect
<1>2. PICK s : answers' = answers \o s /\ Said(s, c)
  BY <1>1
<1>3. UNCHANGED <<acks, opened, step, query, forPbl, block, waiting, ret, result, calls>>
  BY DEF Serial!Handle, Serial!client
<1>4. answers \in Seq(Answers)
  BY DEF SerialType
<1>5. Coded(acks)' /\ Coded(answers)'
  BY <1>2, <1>3, <1>4, LidarAnswers DEF UpgradeInv
<1>6. ASSUME NothingDone, c.cmd # "block" PROVE NothingDone'
  <2>1. NoDone(answers')
    BY <1>2, <1>4, <1>6, LidarAnswers DEF NothingDone
  <2> QED
    BY <1>3, <1>6, <2>1 DEF NothingDone
<1>7. ASSUME NoBlocks, NothingDone PROVE NoBlocks' /\ NothingDone'
  BY <1>1, <1>6, <1>7, CommandsBehind
<1>8. ASSUME NEW b \in 0 .. Blocks-1, BlockInv(b) PROVE BlockInv(b)'
  <2>1. block' = {b} /\ waiting' = waiting
    BY <1>3, <1>8 DEF BlockInv
  <2>2. CASE ToSend(b)
    <3>1. b = 0
      BY <1>1, <1>8, <2>2 DEF ToSend
    <3>2. ToSend(b)'
      BY <1>7, <2>1, <2>2, <3>1 DEF ToSend
    <3> QED
      BY <2>1, <3>2 DEF BlockInv
  <2>3. CASE OnItsWay(b) /\ Len(toLidar) = 1
    <3>1. toLidar' = <<>> /\ c = toLidar[1] /\ c.cmd = "block" /\ c.arg = {b} /\ NothingDone
      BY <1>1, <2>3, CommandsBehind DEF OnItsWay
    <3>2. NoBlocks'
      BY <3>1 DEF NoBlocks
    <3>3. CASE NoDone(answers')
      BY <1>3, <2>1, <2>3, <3>1, <3>2, <3>3 DEF BlockInv, Missed, NothingDone, OnItsWay
    <3>4. CASE ~NoDone(answers')
      <4>1. accepted' = accepted \cup {b} /\ OneDone(answers')
        BY <1>2, <1>4, <3>1, <3>4, LidarAnswers DEF NothingDone
      <4>2. 0 .. b \subseteq accepted'
        BY <2>3, <4>1 DEF OnItsWay
      <4> QED
        BY <1>3, <2>1, <2>3, <3>1, <4>1, <4>2
        DEF BlockInv, Taken, FewDone, NothingDone, OnItsWay
    <3> QED
      BY <3>3, <3>4
  <2>4. CASE OnItsWay(b) /\ Len(toLidar) # 1
    <3>1. b = 0
      BY <1>8, <2>4 DEF OnItsWay
    <3>2. /\ c.cmd # "block" /\ toLidar' # <<>>
          /\ toLidar'[Len(toLidar')] = toLidar[Len(toLidar)]
          /\ \A i \in 1 .. Len(toLidar') - 1 : toLidar'[i].cmd # "block"
      BY <1>1, <2>4, CommandsBehind DEF OnItsWay
    <3>3. OnItsWay(b)'
      BY <1>6, <2>1, <2>4, <3>1, <3>2 DEF OnItsWay
    <3> QED
      BY <2>1, <3>3 DEF BlockInv
  <2>5. CASE Missed
    BY <1>7, <2>1, <2>5 DEF BlockInv, Missed
  <2>6. ~Taken(b)
    BY <1>1 DEF Taken
  <2> QED
    BY <1>8, <2>2, <2>3, <2>4, <2>5, <2>6 DEF BlockInv
<1>9. step \in Probing => block' = {0} /\ NoBlocks' /\ NothingDone'
  BY <1>3, <1>7 DEF UpgradeInv
<1>10. step = "block" => \E b \in 0 .. Blocks-1 : BlockInv(b)'
  BY <1>8 DEF UpgradeInv
<1>11. ~(step = "idle" /\ result = [call |-> "upgrade", ret |-> Serial!Ok])
  BY <1>1 DEF UpgradeInv
<1> QED
  BY <1>3, <1>5, <1>9, <1>10, <1>11 DEF UpgradeInv

(* A command is lost. *)
LEMMA LoseCommandKeepsUpgrade ==
  ASSUME SerialType, UpgradeInv, Serial!LoseCommand PROVE UpgradeInv'
<1>1. /\ toLidar # <<>> /\ toLidar' = Tail(toLidar)
      /\ UNCHANGED <<accepted, answers, acks, step, block, waiting, result>>
  BY DEF Serial!LoseCommand, Serial!lidar, Serial!client
<1>2. NoBlocks => NoBlocks'
  BY <1>1, CommandsBehind
<1>3. NothingDone => NothingDone'
  BY <1>1 DEF NothingDone
<1>4. ASSUME NEW b \in 0 .. Blocks-1, BlockInv(b) PROVE BlockInv(b)'
  <2>1. block' = {b} /\ waiting' = waiting
    BY <1>1, <1>4 DEF BlockInv
  <2>2. CASE ToSend(b)
    <3>1. b = 0
      BY <1>1, <1>4, <2>2 DEF ToSend
    <3>2. ToSend(b)'
      BY <1>2, <1>3, <2>1, <2>2, <3>1 DEF ToSend
    <3> QED
      BY <2>1, <3>2 DEF BlockInv
  <2>3. CASE OnItsWay(b) /\ Len(toLidar) = 1
    <3>1. toLidar' = <<>>
      BY <1>1, <2>3, CommandsBehind DEF OnItsWay
    <3>2. Missed'
      BY <1>3, <2>1, <2>3, <3>1 DEF OnItsWay, Missed, NoBlocks
    <3> QED
      BY <2>1, <3>2 DEF BlockInv
  <2>4. CASE OnItsWay(b) /\ Len(toLidar) # 1
    <3>1. b = 0
      BY <1>4, <2>4 DEF OnItsWay
    <3>2. /\ toLidar' # <<>>
          /\ toLidar'[Len(toLidar')] = toLidar[Len(toLidar)]
          /\ \A i \in 1 .. Len(toLidar') - 1 : toLidar'[i].cmd # "block"
      BY <1>1, <2>4, CommandsBehind DEF OnItsWay
    <3>3. OnItsWay(b)'
      BY <1>3, <2>1, <2>4, <3>1, <3>2 DEF OnItsWay
    <3> QED
      BY <2>1, <3>3 DEF BlockInv
  <2>5. CASE Missed
    BY <1>2, <1>3, <2>1, <2>5 DEF BlockInv, Missed
  <2>6. ~Taken(b)
    BY <1>1 DEF Taken
  <2> QED
    BY <1>4, <2>2, <2>3, <2>4, <2>5, <2>6 DEF BlockInv
<1>5. step = "block" => \E b \in 0 .. Blocks-1 : BlockInv(b)'
  BY <1>4 DEF UpgradeInv
<1>6. ~(step = "idle" /\ result = [call |-> "upgrade", ret |-> Serial!Ok])
  BY <1>1 DEF UpgradeInv
<1>7. Coded(acks)' /\ Coded(answers)'
  BY <1>1 DEF UpgradeInv
<1>8. step \in Probing => block' = {0} /\ NoBlocks' /\ NothingDone'
  BY <1>1, <1>2, <1>3 DEF UpgradeInv
<1> QED
  BY <1>1, <1>5, <1>6, <1>7, <1>8 DEF UpgradeInv

(* Only answers move, or get lost. *)
LEMMA AnswersMove ==
  ASSUME UpgradeInv, UNCHANGED <<toLidar, accepted, step, block, waiting, result>>,
         Coded(acks'), Coded(answers'),
         NothingDone => NothingDone', FewDone => FewDone'
  PROVE  UpgradeInv'
<1>1. NoBlocks => NoBlocks'
  BY DEF NoBlocks
<1>3. ASSUME NEW b \in 0 .. Blocks-1, BlockInv(b) PROVE BlockInv(b)'
  <2>1. ToSend(b) => ToSend(b)'
    BY <1>1 DEF ToSend
  <2>2. OnItsWay(b) => OnItsWay(b)'
    BY DEF OnItsWay
  <2>3. Missed => Missed'
    BY <1>1 DEF Missed
  <2>4. Taken(b) => Taken(b)'
    BY DEF Taken
  <2> QED
    BY <1>3, <2>1, <2>2, <2>3, <2>4 DEF BlockInv
<1>4. step = "block" => \E b \in 0 .. Blocks-1 : BlockInv(b)'
  BY <1>3 DEF UpgradeInv
<1>5. step \in Probing => block' = {0} /\ NoBlocks' /\ NothingDone'
  BY <1>1 DEF UpgradeInv
<1>6. step = "idle" /\ result = [call |-> "upgrade", ret |-> Serial!Ok]
      => toLidar' = <<>> /\ accepted' = 0 .. Blocks-1
  BY DEF UpgradeInv
<1> QED
  BY <1>4, <1>5, <1>6 DEF UpgradeInv

(* An answer is lost. *)
LEMMA LoseAnswerKeepsUpgrade ==
  ASSUME SerialType, UpgradeInv, Serial!LoseAnswer PROVE UpgradeInv'
<1>1. /\ answers # <<>> /\ answers' = Tail(answers)
      /\ UNCHANGED <<toLidar, accepted, acks, step, block, waiting, result>>
  BY DEF Serial!LoseAnswer, Serial!lidar, Serial!client
<1>2. answers \in Seq(Answers) /\ Coded(answers) /\ Coded(acks)
  BY DEF SerialType, UpgradeInv
<1>3. /\ Coded(answers') /\ Coded(acks')
      /\ NoDone(answers) => NoDone(answers')
      /\ OneDone(answers) => OneDone(answers')
  BY <1>1, <1>2, AnswersBehind
<1>4. (NothingDone => NothingDone') /\ (FewDone => FewDone')
  BY <1>1, <1>3 DEF NothingDone, FewDone
<1> QED
  BY <1>1, <1>3, <1>4, AnswersMove

(* An answer reaches the acknowledgement ring. *)
LEMMA ArriveKeepsUpgrade ==
  ASSUME SerialType, UpgradeInv, Serial!Arrive PROVE UpgradeInv'
<1> DEFINE a == Head(answers)
<1>1. /\ answers # <<>> /\ answers' = Tail(answers)
      /\ acks' = acks \/ acks' = Append(acks, a)
      /\ UNCHANGED <<toLidar, accepted, step, block, waiting, result>>
  BY DEF Serial!Arrive, Serial!lidar, Serial!client
<1>2. answers \in Seq(Answers) /\ acks \in Seq(Answers) /\ Coded(answers) /\ Coded(acks)
  BY DEF SerialType, UpgradeInv
<1>3. /\ a \in Answers /\ Coded(answers')
      /\ a.cmd \in {"ready", "failed", "pbl"} => a.code \in Serial!OtherCodes
      /\ NoDone(answers) => NoDone(answers') /\ a.cmd # "done"
      /\ OneDone(answers) => OneDone(answers')
      /\ OneDone(answers) /\ a.cmd = "done" => NoDone(answers')
  BY <1>1, <1>2, AnswersBehind
<1> HIDE DEF a
<1>4. /\ Coded(acks')
      /\ NoDone(acks) /\ a.cmd # "done" => NoDone(acks')
      /\ OneDone(acks) /\ a.cmd # "done" => OneDone(acks')
      /\ NoDone(acks) => OneDone(acks')
  <2>1. NoDone(acks) => OneDone(acks)
    BY DEF NoDone, OneDone
  <2> QED
    BY <1>1, <1>2, <1>3, <2>1, AnswerArrives
<1>5. NothingDone => NothingDone'
  BY <1>3, <1>4 DEF NothingDone
<1>6. FewDone => FewDone'
  BY <1>3, <1>4 DEF FewDone
<1> QED
  BY <1>1, <1>3, <1>4, <1>5, <1>6, AnswersMove

-----------------------------------------------------------------------------
(* The calls, and what they send. *)
LEMMA CallsKeepUpgrade ==
  ASSUME SerialType, UpgradeInv, Settled,
         \/ \E q \in Queries : Serial!GetInfo(q)
         \/ \E pbl, opens \in BOOLEAN : Serial!UpgradeLidar(pbl, opens)
  PROVE  UpgradeInv'
<1>0. DOMAIN <<>> = {}
  OBVIOUS
<1>1. CASE \E q \in Queries : Serial!GetInfo(q)
  <2>1. step' = "enter" /\ UNCHANGED <<acks, answers>>
    BY <1>1 DEF Serial!GetInfo, Serial!wire
  <2> QED
    BY <2>1 DEF UpgradeInv, Probing
<1>2. CASE \E pbl, opens \in BOOLEAN : Serial!UpgradeLidar(pbl, opens)
  <2>1. /\ toLidar' = <<>> /\ answers' = <<>> /\ acks' = <<>> /\ block' = {0}
        /\ \/ step' = "pbl"
           \/ step' = "idle" /\ result' = [call |-> "upgrade", ret |-> "openError"]
    BY <1>2 DEF Serial!UpgradeLidar, Serial!wire
  <2>2. Coded(acks)' /\ Coded(answers)' /\ NoBlocks' /\ NothingDone'
    BY <1>0, <2>1 DEF Coded, NoBlocks, NothingDone, NoDone
  <2>3. [call |-> "upgrade", ret |-> "openError"] # [call |-> "upgrade", ret |-> Serial!Ok]
    BY DEF Serial!Ok
  <2> QED
    BY <2>1, <2>2, <2>3 DEF UpgradeInv, Probing
<1> QED
  BY <1>1, <1>2

(* The client sends a command. *)
LEMMA AskKeepsUpgrade ==
  ASSUME SerialType, UpgradeInv, Serial!Ask PROVE UpgradeInv'
<1> DEFINE c == Serial!CommandOf(step)
<1>1. /\ step \notin {"idle", "ready"} /\ ~waiting /\ waiting' = TRUE
      /\ toLidar' = Append(toLidar, c) /\ acks' \in {acks, <<>>}
      /\ UNCHANGED <<accepted, answers, step, block, result>>
  BY DEF Serial!Ask, Serial!lidar
<1>2. /\ c \in Commands
      /\ c.cmd = "block" <=> step = "block"
      /\ step = "block" => c.arg = block
  BY <1>1, CommandTyped
<1> HIDE DEF c
<1>3. /\ toLidar \in Seq(Commands) /\ Len(toLidar) \in Nat /\ DOMAIN toLidar = 1 .. Len(toLidar)
      /\ toLidar' \in Seq(Commands) /\ Len(toLidar') = Len(toLidar) + 1
      /\ DOMAIN toLidar' = 1 .. Len(toLidar) + 1 /\ toLidar'[Len(toLidar) + 1] = c
      /\ \A i \in 1 .. Len(toLidar) : toLidar'[i] = toLidar[i]
  BY <1>1, <1>2 DEF SerialType
<1>4. Coded(acks)' /\ Coded(answers)' /\ (NothingDone => NothingDone')
  <2>1. Coded(<<>>) /\ NoDone(<<>>)
    BY DEF Coded, NoDone
  <2> QED
    BY <1>1, <2>1 DEF UpgradeInv, NothingDone
<1>5. step \in Probing => block' = {0} /\ NoBlocks' /\ NothingDone'
  BY <1>1, <1>2, <1>3, <1>4 DEF UpgradeInv, NoBlocks, Probing
<1>6. ASSUME NEW b \in 0 .. Blocks-1, step = "block", BlockInv(b) PROVE BlockInv(b)'
  <2>1. ToSend(b) /\ block = {b}
    BY <1>1, <1>6 DEF BlockInv, OnItsWay, Missed, Taken
  <2>2. c.cmd = "block" /\ c.arg = {b}
    BY <1>2, <1>6, <2>1
  <2>3. b > 0 => Len(toLidar') = 1 /\ 0 .. b-1 \subseteq accepted'
    <3>1. toLidar = <<>> => Len(toLidar) = 0
      BY EmptySeq
    <3> QED
      BY <1>1, <1>3, <2>1, <3>1 DEF ToSend
  <2>4. toLidar' # <<>>
    BY <1>3, EmptySeq
  <2>5. \A i \in 1 .. Len(toLidar') - 1 : toLidar'[i].cmd # "block"
    BY <1>3, <2>1 DEF ToSend, NoBlocks
  <2>6. OnItsWay(b)'
    BY <1>1, <1>3, <1>4, <2>1, <2>2, <2>3, <2>4, <2>5 DEF OnItsWay, ToSend
  <2> QED
    BY <1>1, <2>1, <2>6 DEF BlockInv
<1>7. step = "block" => \E b \in 0 .. Blocks-1 : BlockInv(b)'
  BY <1>6 DEF UpgradeInv
<1> QED
  BY <1>1, <1>4, <1>5, <1>7 DEF UpgradeInv

-----------------------------------------------------------------------------
(* The verdicts. *)
LEMMA VerdictKeepsUpgrade ==
  ASSUME SerialType, UpgradeInv, waiting, NEW v, NEW done, Serial!After(v, done),
         UNCHANGED <<toLidar, accepted>>, Coded(acks'), Coded(answers'),
         NothingDone => NothingDone', step = "pbl" => v # Serial!Ok,
         step = "block" /\ v = Serial!Ok => /\ done /\ ~NothingDone
                                            /\ FewDone => NothingDone'
  PROVE  UpgradeInv'
<1>1. Blocks \in Nat \ {0}
  BY SerialParameters DEF Serial!SerialClientAssumption
<1>2. NoBlocks => NoBlocks'
  BY DEF NoBlocks
<1>3. ASSUME step = "block", v = Serial!Ok
      PROVE  \E b \in 0 .. Blocks-1 : /\ block = {b} /\ toLidar = <<>> /\ 0 .. b \subseteq accepted
                                      /\ NothingDone' /\ done
  <2>1. PICK b \in 0 .. Blocks-1 : BlockInv(b)
    BY <1>3 DEF UpgradeInv
  <2>2. Taken(b)
    BY <1>3, <2>1 DEF BlockInv, ToSend, OnItsWay, Missed
  <2> QED
    BY <1>3, <2>1, <2>2 DEF BlockInv, Taken
<1>4. CASE step' \in {"info", "leave"}
  BY <1>4 DEF UpgradeInv, Probing
<1>5. CASE step' = "idle" /\ (step = "leave" \/ v # Serial!Ok)
  <2>1. [call |-> "upgrade", ret |-> Serial!Ok].call = "upgrade"
        /\ [call |-> "upgrade", ret |-> Serial!Ok].ret = Serial!Ok
        /\ [call |-> "upgrade", ret |-> v].ret = v
    OBVIOUS
  <2>2. result'.call = "get" \/ result' = [call |-> "upgrade", ret |-> v]
    BY <1>5, AfterEffect DEF Probing
  <2>3. step = "leave" => result'.call = "get"
    BY <1>5, AfterEffect DEF Probing
  <2>4. result' # [call |-> "upgrade", ret |-> Serial!Ok]
    BY <1>5, <2>1, <2>2, <2>3
  <2> QED
    BY <1>5, <2>4 DEF UpgradeInv, Probing
<1>6. CASE step \in Probing /\ step' \in Probing \cup {"block"}
  <2>1. block' = {0} /\ NoBlocks' /\ NothingDone'
    BY <1>2, <1>6, AfterEffect DEF UpgradeInv, Probing
  <2>2. step' = "block" => waiting' = FALSE
    BY <1>6, AfterEffect DEF Probing
  <2>3. step' = "block" => BlockInv(0)'
    BY <2>1, <2>2 DEF BlockInv, ToSend
  <2>4. 0 \in 0 .. Blocks-1
    BY <1>1
  <2>5. step' = "block" => \E b \in 0 .. Blocks-1 : BlockInv(b)'
    BY <2>3, <2>4
  <2>6. step' # "idle"
    BY <1>6 DEF Probing
  <2> QED
    BY <2>1, <2>5, <2>6 DEF UpgradeInv
<1>7. CASE step = "block" /\ v = Serial!Ok /\ step' = "idle"
  <2>1. PICK b \in 0 .. Blocks-1 : block = {b} /\ toLidar = <<>> /\ 0 .. b \subseteq accepted
    BY <1>3, <1>7
  <2>2. Blocks-1 \in block
    BY <1>7, AfterEffect DEF Probing
  <2>3. accepted \in SUBSET (0 .. Blocks-1) /\ b = Blocks-1
    BY <2>1, <2>2 DEF SerialType
  <2>4. toLidar' = <<>> /\ accepted' = 0 .. Blocks-1
    BY <2>1, <2>3
  <2> QED
    BY <1>7, <2>4 DEF UpgradeInv, Probing
<1>8. CASE step = "block" /\ v = Serial!Ok /\ step' = "block"
  <2>1. PICK b \in 0 .. Blocks-1 : /\ block = {b} /\ toLidar = <<>> /\ 0 .. b \subseteq accepted
                                   /\ NothingDone' /\ done
    BY <1>3, <1>8
  <2>2. waiting' = FALSE /\ Blocks-1 \notin block /\ block' = {i + 1 : i \in block}
    BY <1>8, <2>1, AfterEffect DEF Probing
  <2>3. b+1 \in 0 .. Blocks-1 /\ block' = {b+1} /\ (b+1) - 1 = b
    BY <1>1, <2>1, <2>2
  <2>4. NoBlocks'
    BY <2>1 DEF NoBlocks
  <2>5. BlockInv(b+1)'
    BY <2>1, <2>2, <2>3, <2>4 DEF BlockInv, ToSend
  <2>6. \E x \in 0 .. Blocks-1 : BlockInv(x)'
    BY <2>3, <2>5
  <2> QED
    BY <1>8, <2>6 DEF UpgradeInv, Probing
<1> QED
  BY <1>4, <1>5, <1>6, <1>7, <1>8, AfterEffect DEF Probing

(* The client takes an answer. *)
LEMMA AnsweredKeepsUpgrade ==
  ASSUME SerialType, UpgradeInv, OnlyDoneIsZero, Serial!Answered PROVE UpgradeInv'
<1> DEFINE a == Head(acks)
<1>1. /\ waiting /\ acks # <<>> /\ Serial!After(Serial!Verdict(a), Serial!Done(a))
      /\ Serial!Cleared(Tail(acks), answers) /\ UNCHANGED <<toLidar, accepted>>
  BY DEF Serial!Answered, Serial!lidar
<1>2. answers \in Seq(Answers) /\ acks \in Seq(Answers) /\ Coded(answers) /\ Coded(acks)
  BY DEF SerialType, UpgradeInv
<1>3. /\ a \in Answers /\ Tail(acks) \in Seq(Answers) /\ Coded(Tail(acks))
      /\ a.cmd \in {"ready", "failed", "pbl"} => a.code \in Serial!OtherCodes
      /\ NoDone(acks) => NoDone(Tail(acks)) /\ a.cmd # "done"
      /\ OneDone(acks) => OneDone(Tail(acks))
      /\ OneDone(acks) /\ a.cmd = "done" => NoDone(Tail(acks))
  BY <1>1, <1>2, AnswersBehind
<1> HIDE DEF a
<1>4. /\ acks' \in {<<>>, Tail(acks)} /\ answers' \in Seq(Answers) /\ Len(answers') <= Len(answers)
      /\ \A i \in 1 .. Len(answers') : answers'[i] = answers[i + Len(answers) - Len(answers')]
  BY <1>1, <1>2, <1>3, ClearedEffect
<1>5. Coded(answers') /\ (NoDone(answers) => NoDone(answers'))
  BY <1>2, <1>4, LastAnswers
<1>6. Coded(acks') /\ (NoDone(Tail(acks)) => NoDone(acks'))
  <2>1. Coded(<<>>) /\ NoDone(<<>>)
    BY DEF Coded, NoDone
  <2> QED
    BY <1>3, <1>4, <2>1
<1>7. NothingDone => NothingDone'
  BY <1>3, <1>5, <1>6 DEF NothingDone
<1>8. step = "pbl" => Serial!Verdict(a) # Serial!Ok
  BY DEF Serial!Verdict, Serial!Ok
<1>9. ASSUME step = "block", Serial!Verdict(a) = Serial!Ok
      PROVE  Serial!Done(a) /\ ~NothingDone /\ (FewDone => NothingDone')
  <2>1. Serial!IsOta(a) /\ a.cmd \notin {"ready", "failed", "pbl"}
    BY <1>3, <1>9 DEF Serial!Verdict, Serial!Ok, Serial!OtherCodes, Serial!IsOta
  <2>2. a.cmd = "done"
    BY <2>1 DEF Serial!IsOta
  <2>3. ~NothingDone /\ (FewDone => NothingDone')
    BY <1>3, <1>5, <1>6, <2>2 DEF NothingDone, FewDone
  <2> QED
    BY <2>2, <2>3 DEF Serial!Done
<1> QED
  BY <1>1, <1>5, <1>6, <1>7, <1>8, <1>9, VerdictKeepsUpgrade

(* The client stops waiting. *)
LEMMA TimedOutKeepsUpgrade ==
  ASSUME SerialType, UpgradeInv, Serial!TimedOut PROVE UpgradeInv'
<1>1. /\ waiting /\ Serial!After("timeout", FALSE)
      /\ Serial!Cleared(acks, answers) /\ UNCHANGED <<toLidar, accepted>>
  BY DEF Serial!TimedOut, Serial!lidar
<1>2. answers \in Seq(Answers) /\ acks \in Seq(Answers) /\ Coded(answers) /\ Coded(acks)
  BY DEF SerialType, UpgradeInv
<1>3. /\ acks' \in {<<>>, acks} /\ answers' \in Seq(Answers) /\ Len(answers') <= Len(answers)
      /\ \A i \in 1 .. Len(answers') : answers'[i] = answers[i + Len(answers) - Len(answers')]
  BY <1>1, <1>2, ClearedEffect
<1>4. Coded(answers') /\ (NoDone(answers) => NoDone(answers'))
  BY <1>2, <1>3, LastAnswers
<1>5. Coded(acks') /\ (NoDone(acks) => NoDone(acks'))
  <2>1. Coded(<<>>) /\ NoDone(<<>>)
    BY DEF Coded, NoDone
  <2> QED
    BY <1>2, <1>3, <2>1
<1>6. NothingDone => NothingDone'
  BY <1>4, <1>5 DEF NothingDone
<1>7. "timeout" # Serial!Ok
  BY DEF Serial!Ok
<1> QED
  BY <1>1, <1>4, <1>5, <1>6, <1>7, VerdictKeepsUpgrade

(* Every step keeps UpgradeInv. *)
LEMMA UpgradeInvKept ==
  ASSUME SerialType, UpgradeInv, OnlyDoneIsZero, Settled,
         [Serial!Next]_Serial!serialClientVars
  PROVE  UpgradeInv'
<1>1. CASE UNCHANGED Serial!serialClientVars
  <2>1. UNCHANGED <<toLidar, answers, acks, accepted, step, block, waiting, result>>
    BY <1>1 DEF Serial!serialClientVars, Serial!lidar, Serial!wire, Serial!client
  <2>2. (NothingDone => NothingDone') /\ (FewDone => FewDone')
    BY <2>1 DEF NothingDone, FewDone
  <2>3. Coded(acks') /\ Coded(answers')
    BY <2>1 DEF UpgradeInv
  <2> QED
    BY <2>1, <2>2, <2>3, AnswersMove
<1>2. CASE Serial!Next
  BY <1>2, HandleKeepsUpgrade, LoseCommandKeepsUpgrade, LoseAnswerKeepsUpgrade,
     ArriveKeepsUpgrade, CallsKeepUpgrade, AskKeepsUpgrade, AnsweredKeepsUpgrade,
     TimedOutKeepsUpgrade DEF Serial!Next
<1> QED
  BY <1>1, <1>2

(* The invariant implies the property. *)
LEMMA UpgradeInvSuffices == UpgradeInv => Serial!UpgradeSound
BY DEF UpgradeInv, Serial!UpgradeSound

-----------------------------------------------------------------------------
(* A step is one of the part that runs. *)
LEMMA SerialSteps ==
  ASSUME [Next]_vars, part' = "serial"
  PROVE  part = "serial" /\ [Serial!Next]_Serial!serialClientVars
<1>1. CASE UNCHANGED vars
  BY <1>1 DEF vars, varsSerial, varsAsked, Serial!serialClientVars, Serial!lidar, Serial!wire,
              Serial!client
<1>2. CASE Next
  BY <1>2 DEF Next, OfSerial, OfPtc, OfWaits, OfSaver, OfLog
<1> QED
  BY <1>1, <1>2

SerialInv == part = "serial" => SerialType /\ ModeInv

(* SerialType and ModeInv hold of every run. *)
LEMMA SerialInvariant == Spec => []SerialInv
<1>1. Init => SerialInv
  BY SerialTypeInit, ModeInvInit DEF Init, SerialInv
<1>2. SerialInv /\ [Next]_vars => SerialInv'
  BY SerialSteps, SerialTypeKept, SerialVarsKeepType, ModeInvKept DEF SerialInv
<1> QED
  BY <1>1, <1>2, PTL DEF Spec

(* UpgradeLidar returns 0 only when the lidar has accepted every block. *)
THEOREM UpgradeIsSound == OnlyDoneIsZero /\ Settled => (Spec => []UpgradeSound)
<1> SUFFICES ASSUME OnlyDoneIsZero, Settled PROVE Spec => []UpgradeSound
  OBVIOUS
<1> DEFINE Inv == part = "serial" => UpgradeInv
<1>1. Init => Inv
  BY UpgradeInvInit DEF Init
<1>2. SerialInv /\ Inv /\ [Next]_vars => Inv'
  BY SerialSteps, UpgradeInvKept DEF SerialInv
<1>3. Inv => UpgradeSound
  BY UpgradeInvSuffices DEF UpgradeSound
<1> HIDE DEF Inv
<1> QED
  BY <1>1, <1>2, <1>3, SerialInvariant, PTL DEF Spec

(* Proves: a serial lidar is put back into its mode, and a connection that  *)
(* was never lost has its timeouts again, as long as upgrades name their    *)
(* command (SerialClient, SetSocketTimeout).                                *)
THEOREM ChangesAreUndone == ~OldUpgrade => (Spec => []ChangesUndone)
<1> SUFFICES ASSUME ~OldUpgrade PROVE Spec => []ChangesUndone
  OBVIOUS
<1>1. Spec => []TimeoutsUndone
  BY TimeoutsAreRestored
<1>2. SerialInv /\ TimeoutsUndone => ChangesUndone
  BY ModeInvSuffices DEF SerialInv, TimeoutsUndone, ChangesUndone
<1> QED
  BY <1>1, <1>2, SerialInvariant, PTL

-----------------------------------------------------------------------------
(* The recording: files, and what is in them. *)
(* Packets are numbered. *)
Saved == Nat
SaverWrites == [part : {"file", "record", "data"}, packet : Saved]

(* Halves of even and odd numbers. *)
LEMMA Halves ==
  /\ \A k \in Nat : (2 * k) \div 2 = k /\ (2 * k) % 2 = 0
  /\ \A k \in Nat : (2 * k + 1) \div 2 = k /\ (2 * k + 1) % 2 = 1
  /\ \A i \in Nat : \E k \in Nat : i = 2 * k \/ i = 2 * k + 1
<1>1. \A k \in Nat : (2 * k) \div 2 = k /\ (2 * k) % 2 = 0
  OBVIOUS
<1>2. \A k \in Nat : (2 * k + 1) \div 2 = k /\ (2 * k + 1) % 2 = 1
  OBVIOUS
<1>3. ASSUME NEW i \in Nat PROVE \E k \in Nat : i = 2 * k \/ i = 2 * k + 1
  <2>1. i \div 2 \in Nat /\ (i = 2 * (i \div 2) \/ i = 2 * (i \div 2) + 1)
    OBVIOUS
  <2> QED
    BY <2>1
<1> QED
  BY <1>1, <1>2, <1>3

(* The two writes of a record. *)
LEMMA RecordOfPacket ==
  ASSUME NEW p \in Saved
  PROVE  /\ Saver!Record(p) \in Seq(SaverWrites) /\ Len(Saver!Record(p)) = 2
         /\ Saver!Record(p)[1] \in SaverWrites /\ Saver!Record(p)[2] \in SaverWrites
         /\ Saver!Record(p)[2].packet = p
         /\ Saver!Record(p) = <<Saver!Record(p)[1]>> \o <<Saver!Record(p)[2]>>
<1> DEFINE x == [part |-> "record", packet |-> p]
           y == [part |-> "data", packet |-> p]
<1>1. x \in SaverWrites /\ y \in SaverWrites /\ y.packet = p
  BY DEF SaverWrites
<1>2. Saver!Record(p) = <<x, y>>
  BY DEF Saver!Record
<1> HIDE DEF x, y
<1>3. <<x>> \o <<y>> = <<x, y>>
  <2>1. <<x>> \in Seq(SaverWrites)
    BY <1>1
  <2>2. Append(<<x>>, y) = <<x>> \o <<y>>
    BY <1>1, <2>1, AppendIsConcat
  <2>3. Len(<<x>>) = 1 /\ <<x>>[1] = x
    OBVIOUS
  <2>4. Len(<<x, y>>) = 2 /\ <<x, y>>[1] = x /\ <<x, y>>[2] = y /\ <<x, y>> \in Seq(SaverWrites)
    BY <1>1
  <2>5. /\ Append(<<x>>, y) \in Seq(SaverWrites) /\ Len(Append(<<x>>, y)) = Len(<<x>>) + 1
        /\ \A i \in 1 .. Len(<<x>>) : Append(<<x>>, y)[i] = <<x>>[i]
        /\ Append(<<x>>, y)[Len(<<x>>) + 1] = y
    BY <1>1, <2>1, AppendProperties
  <2>6. Len(Append(<<x>>, y)) = 2 /\ Append(<<x>>, y)[1] = x /\ Append(<<x>>, y)[2] = y
    BY <2>3, <2>5
  <2>7. Append(<<x>>, y) = <<x, y>>
    <3>1. \A i \in 1 .. Len(Append(<<x>>, y)) : Append(<<x>>, y)[i] = <<x, y>>[i]
      BY <2>4, <2>6
    <3> QED
      BY <2>4, <2>5, <2>6, <3>1, SeqEqual
  <2> QED
    BY <2>2, <2>7
<1>4. <<x, y>>[1] = x /\ <<x, y>>[2] = y /\ Len(<<x, y>>) = 2 /\ <<x, y>> \in Seq(SaverWrites)
  BY <1>1
<1> HIDE DEF Saver!Record
<1> QED
  BY <1>1, <1>2, <1>3, <1>4

(* A file's writes are writes, two per packet and the header. *)
LEMMA WritesOfFile ==
  ASSUME NEW ps \in Seq(Saved)
  PROVE  /\ Saver!FileOf(ps) \in Seq(SaverWrites) /\ Len(Saver!FileOf(ps)) = 2 * Len(ps) + 1
         /\ Saver!FileOf(ps)[1] = Saver!FileHeader
         /\ \A i \in 1 .. Len(ps) : /\ Saver!FileOf(ps)[2 * i] = Saver!Record(ps[i])[1]
                                    /\ Saver!FileOf(ps)[2 * i + 1] = Saver!Record(ps[i])[2]
<1> DEFINE n == Len(ps)
           e(i) == IF i = 1 THEN Saver!FileHeader ELSE Saver!Record(ps[i \div 2])[1 + (i % 2)]
           f == [i \in 1 .. 2 * n + 1 |-> e(i)]
<1>1. n \in Nat /\ \A i \in 1 .. n : ps[i] \in Saved
  BY LenProperties, ElementOfSeq
<1>2. f = Saver!FileOf(ps)
  BY DEF Saver!FileOf
<1>3. ASSUME NEW k \in 1 .. n
      PROVE  e(2 * k) = Saver!Record(ps[k])[1] /\ e(2 * k + 1) = Saver!Record(ps[k])[2]
  <2>1. k \in Nat /\ 2 * k # 1 /\ 2 * k + 1 # 1
    BY <1>1
  <2>2. (2 * k) \div 2 = k /\ (2 * k) % 2 = 0 /\ (2 * k + 1) \div 2 = k /\ (2 * k + 1) % 2 = 1
    BY <2>1, Halves
  <2> QED
    BY <2>1, <2>2
<1>4. \A i \in 1 .. 2 * n + 1 : i = 1 \/ \E k \in 1 .. n : i = 2 * k \/ i = 2 * k + 1
  <2> SUFFICES ASSUME NEW i \in 1 .. 2 * n + 1, i # 1
               PROVE  \E k \in 1 .. n : i = 2 * k \/ i = 2 * k + 1
    OBVIOUS
  <2>1. i \in Nat
    BY <1>1
  <2>2. PICK k \in Nat : i = 2 * k \/ i = 2 * k + 1
    BY <2>1, Halves
  <2>3. k \in 1 .. n
    BY <1>1, <2>2
  <2> QED
    BY <2>2, <2>3
<1>5. ASSUME NEW i \in 1 .. 2 * n + 1 PROVE e(i) \in SaverWrites
  <2>1. CASE i = 1
    BY <2>1 DEF Saver!FileHeader, SaverWrites, Saved
  <2>2. CASE \E k \in 1 .. n : i = 2 * k \/ i = 2 * k + 1
    <3>1. PICK k \in 1 .. n : i = 2 * k \/ i = 2 * k + 1
      BY <2>2
    <3>2. /\ Saver!Record(ps[k])[1] \in SaverWrites /\ Saver!Record(ps[k])[2] \in SaverWrites
      BY <1>1, RecordOfPacket
    <3>3. e(i) = Saver!Record(ps[k])[1] \/ e(i) = Saver!Record(ps[k])[2]
      BY <1>3, <3>1
    <3> QED
      BY <3>2, <3>3
  <2> QED
    BY <1>4, <2>1, <2>2
<1> HIDE DEF e
<1>6. f \in [1 .. 2 * n + 1 -> SaverWrites] /\ 2 * n + 1 \in Nat
  BY <1>1, <1>5
<1>7. f \in Seq(SaverWrites) /\ Len(f) = 2 * n + 1
  BY <1>6
<1>8. f[1] = Saver!FileHeader
  <2>1. 1 \in 1 .. 2 * n + 1 /\ e(1) = Saver!FileHeader
    BY <1>1 DEF e
  <2> QED
    BY <2>1
<1>9. ASSUME NEW k \in 1 .. n
      PROVE  f[2 * k] = Saver!Record(ps[k])[1] /\ f[2 * k + 1] = Saver!Record(ps[k])[2]
  <2>1. 2 * k \in 1 .. 2 * n + 1 /\ 2 * k + 1 \in 1 .. 2 * n + 1
    BY <1>1
  <2> QED
    BY <1>3, <2>1
<1> HIDE DEF f
<1> QED
  BY <1>2, <1>7, <1>8, <1>9

(* PacketsIn is the inverse of FileOf. *)
LEMMA PacketsOfFile ==
  ASSUME NEW ps \in Seq(Saved)
  PROVE  Saver!PacketsIn(Saver!FileOf(ps)) = ps
<1>1. Len(ps) \in Nat /\ ps \in [1 .. Len(ps) -> Saved]
  BY LenProperties
<1>2. (Len(Saver!FileOf(ps)) - 1) \div 2 = Len(ps)
  <2>1. Len(Saver!FileOf(ps)) - 1 = 2 * Len(ps)
    BY <1>1, WritesOfFile
  <2> QED
    BY <1>1, <2>1, Halves
<1>3. \A i \in 1 .. Len(ps) : Saver!FileOf(ps)[2 * i + 1].packet = ps[i]
  BY <1>1, WritesOfFile, RecordOfPacket
<1>4. Saver!PacketsIn(Saver!FileOf(ps)) = [i \in 1 .. Len(ps) |-> ps[i]]
  BY <1>2, <1>3 DEF Saver!PacketsIn
<1> QED
  BY <1>1, <1>4

(* An empty file has no packets. *)
LEMMA PacketsOfNothing == Saver!PacketsIn(<<>>) = <<>>
<1>1. (0 - 1) \div 2 < 1 /\ (0 - 1) \div 2 \in Int
  OBVIOUS
<1>2. Len(<<>>) = 0
  BY EmptySeq
<1>3. 1 .. (Len(<<>>) - 1) \div 2 = {}
  BY <1>1, <1>2
<1>4. Saver!PacketsIn(<<>>) = [i \in {} |-> <<>>[2 * i + 1].packet]
  BY <1>3 DEF Saver!PacketsIn
<1> QED
  BY <1>4

(* A record behind a file is the file of one packet more. *)
LEMMA FileGrows ==
  ASSUME NEW ps \in Seq(Saved), NEW p \in Saved
  PROVE  Saver!FileOf(ps) \o Saver!Record(p) = Saver!FileOf(Append(ps, p))
<1> DEFINE n == Len(ps)
           f == Saver!FileOf(ps)
           r == Saver!Record(p)
           qs == Append(ps, p)
           g == Saver!FileOf(qs)
<1>1. /\ n \in Nat /\ qs \in Seq(Saved) /\ Len(qs) = n + 1
      /\ \A i \in 1 .. n : qs[i] = ps[i]
      /\ qs[n+1] = p
  BY LenProperties, AppendProperties
<1>2. /\ f \in Seq(SaverWrites) /\ Len(f) = 2 * n + 1 /\ f[1] = Saver!FileHeader
      /\ \A i \in 1 .. n : f[2 * i] = Saver!Record(ps[i])[1] /\ f[2 * i + 1] = Saver!Record(ps[i])[2]
  BY WritesOfFile
<1>3. /\ g \in Seq(SaverWrites) /\ Len(g) = 2 * Len(qs) + 1 /\ g[1] = Saver!FileHeader
      /\ \A i \in 1 .. Len(qs) :
           g[2 * i] = Saver!Record(qs[i])[1] /\ g[2 * i + 1] = Saver!Record(qs[i])[2]
  BY <1>1, WritesOfFile
<1>4. r \in Seq(SaverWrites) /\ Len(r) = 2
  BY RecordOfPacket
<1> HIDE DEF qs, f, g
<1>5. /\ f \o r \in Seq(SaverWrites) /\ Len(f \o r) = 2 * n + 1 + 2
      /\ \A i \in 1 .. 2 * n + 1 + 2 :
           (f \o r)[i] = IF i <= 2 * n + 1 THEN f[i] ELSE r[i - (2 * n + 1)]
  <2>1. /\ f \o r \in Seq(SaverWrites) /\ Len(f \o r) = Len(f) + Len(r)
        /\ \A i \in 1 .. Len(f) + Len(r) :
             (f \o r)[i] = IF i <= Len(f) THEN f[i] ELSE r[i - Len(f)]
    BY <1>2, <1>4, ConcatProperties
  <2> QED
    BY <1>2, <1>4, <2>1
<1> HIDE DEF r
<1>6. ASSUME NEW i \in 1 .. 2 * n + 1 + 2 PROVE (f \o r)[i] = g[i]
  <2>1. i \in Nat /\ i # 0
    BY <1>1
  <2>2. PICK k \in Nat : i = 2 * k \/ i = 2 * k + 1
    BY <2>1, Halves
  <2>3. CASE i = 1
    <3>1. i <= 2 * n + 1
      BY <1>1, <2>3
    <3> QED
      BY <1>2, <1>3, <1>5, <2>3, <3>1
  <2>4. CASE k \in 1 .. n
    <3>1. i <= 2 * n + 1 /\ k \in 1 .. Len(qs)
      BY <1>1, <2>2, <2>4
    <3>2. (f \o r)[i] = f[i]
      BY <1>5, <3>1
    <3>3. qs[k] = ps[k]
      BY <1>1, <2>4
    <3>4. f[2 * k] = g[2 * k] /\ f[2 * k + 1] = g[2 * k + 1]
      BY <1>2, <1>3, <2>4, <3>1, <3>3
    <3> QED
      BY <2>2, <3>2, <3>4
  <2>5. CASE k = n + 1
    <3>1. k \in 1 .. Len(qs) /\ qs[k] = p
      BY <1>1, <2>5
    <3>2. g[2 * k] = r[1] /\ g[2 * k + 1] = r[2]
      BY <1>3, <3>1 DEF r
    <3>3. ~(2 * k <= 2 * n + 1) /\ 2 * k - (2 * n + 1) = 1 /\ 2 * k \in 1 .. 2 * n + 1 + 2
      BY <1>1, <2>5
    <3>4. /\ ~(2 * k + 1 <= 2 * n + 1) /\ (2 * k + 1) - (2 * n + 1) = 2
          /\ 2 * k + 1 \in 1 .. 2 * n + 1 + 2
      BY <1>1, <2>5
    <3>5. (f \o r)[2 * k] = r[1] /\ (f \o r)[2 * k + 1] = r[2]
      BY <1>5, <3>3, <3>4
    <3> QED
      BY <2>2, <3>2, <3>5
  <2>6. i = 1 \/ k \in 1 .. n \/ k = n + 1
    BY <1>1, <2>1, <2>2
  <2> QED
    BY <2>3, <2>4, <2>5, <2>6
<1>7. Len(f \o r) = Len(g)
  BY <1>1, <1>3, <1>5
<1>8. \A i \in 1 .. Len(f \o r) : (f \o r)[i] = g[i]
  BY <1>5, <1>6
<1>9. f \o r = g
  BY <1>3, <1>5, <1>7, <1>8, SeqEqual
<1> QED
  BY <1>9 DEF f, r, g, qs

-----------------------------------------------------------------------------
(* What was written is what the file and the buffer hold together. *)
Contents == file \o buffer

SaverType ==
  /\ received \in Nat
  /\ at \in [Receivers -> {"receive", "dump", "create", "push"}]
  /\ holds \in [Receivers -> Saved]
  /\ cache \in Seq(Saved) /\ earlier \in Seq(Saved) /\ pushed \in Seq(Saved)
  /\ file \in Seq(SaverWrites) /\ buffer \in Seq(SaverWrites)
  /\ thread \in {"none", "while", "write", "sleep", "exited"}
  /\ user \in {"idle", "start", "stop"} /\ owed \in Nat

(* One receiver creates the cache, and only when there is none. *)
CacheInv ==
  /\ ~created => cache = <<>> /\ \A t \in Receivers : at[t] # "push"
  /\ \A t \in Receivers : at[t] = "create" => ~created
  /\ \A t, u \in Receivers : at[t] = "create" /\ at[u] = "create" => t = u

(* Every packet is in an earlier file, written, or in the cache. *)
FilesInv ==
  \E written \in Seq(Saved) :
    /\ earlier \o (written \o cache) = pushed
    /\ \/ Contents = Saver!FileOf(written)
       \/ thread = "none" /\ Contents = <<>> /\ written = <<>>

(* What close waits for. *)
CloseInv ==
  /\ thread \in {"none", "exited"} => buffer = <<>> /\ Len(pushed) - Len(cache) >= owed
  /\ thread = "exited" => user # "idle"
  /\ thread # "none" /\ user = "idle" => dumping /\ isOpen
  /\ owed <= Len(pushed)

SaverInv == SaverType /\ CacheInv /\ FilesInv /\ CloseInv

(* SaverInv holds initially. *)
LEMMA SaverInvInit == Saver!Init => SaverInv
<1> SUFFICES ASSUME Saver!Init PROVE SaverInv
  OBVIOUS
<1>1. <<>> \in Seq(Saved) /\ <<>> \in Seq(SaverWrites) /\ Len(<<>>) = 0
  BY EmptySeq
<1>2. <<>> \o <<>> = <<>> /\ <<>> \o (<<>> \o <<>>) = <<>>
  BY <1>1, ConcatEmptySeq
<1>3. SaverType
  BY <1>1 DEF Saver!Init, SaverType, Saved
<1>4. CacheInv
  BY DEF Saver!Init, CacheInv
<1>5. FilesInv
  BY <1>1, <1>2 DEF Saver!Init, FilesInv, Contents
<1>6. CloseInv
  BY <1>1 DEF Saver!Init, CloseInv
<1> QED
  BY <1>3, <1>4, <1>5, <1>6 DEF SaverInv

(* A step that leaves the receivers and the cache alone. *)
LEMMA CacheStays ==
  ASSUME CacheInv, UNCHANGED <<at, created>>, created \/ cache' = cache
  PROVE  CacheInv'
BY DEF CacheInv

(* A step that leaves what is written alone. *)
LEMMA FilesStay ==
  ASSUME FilesInv, UNCHANGED <<earlier, cache, pushed>>, Contents' = Contents,
         thread = "none" => thread' = "none"
  PROVE  FilesInv'
BY DEF FilesInv

(* A packet goes through the cache to what is written. *)
LEMMA PacketTaken ==
  ASSUME NEW S, NEW w \in Seq(S), NEW c \in Seq(S), c # <<>>
  PROVE  /\ Head(c) \in S /\ Tail(c) \in Seq(S) /\ Append(w, Head(c)) \in Seq(S)
         /\ Append(w, Head(c)) \o Tail(c) = w \o c
<1> DEFINE h == <<Head(c)>>
           r == Tail(c)
<1>1. /\ Head(c) \in S /\ Tail(c) \in Seq(S) /\ Len(c) \in Nat \ {0}
      /\ Head(c) = c[1]
  BY HeadTailProperties, EmptySeq
<1>2. c = h \o Tail(c)
  <2>1. SubSeq(c, 1, Len(c)) = <<c[1]>> \o SubSeq(c, 1+1, Len(c))
    <3>1. 1 \in 1 .. Len(c) /\ Len(c) \in 1 .. Len(c)
      BY <1>1
    <3> QED
      BY <3>1, SubSeqRecursiveFirst
  <2>2. Tail(c) = SubSeq(c, 2, Len(c)) /\ SubSeq(c, 1, Len(c)) = c
    BY TailIsSubSeq, SubSeqFull
  <2>3. 1+1 = 2
    OBVIOUS
  <2> QED
    BY <1>1, <2>1, <2>2, <2>3
<1>3. h \in Seq(S)
  BY <1>1
<1>4. Append(w, Head(c)) = w \o h /\ Append(w, Head(c)) \in Seq(S)
  BY <1>1, AppendIsConcat, AppendProperties
<1>5. r \in Seq(S)
  BY <1>1
<1> HIDE DEF h, r
<1>6. (w \o h) \o r = w \o (h \o r)
  BY <1>3, <1>5, ThreeParts
<1> QED
  BY <1>1, <1>2, <1>4, <1>6 DEF r

(* The receivers. *)
LEMMA ReceiversKeepFiles ==
  ASSUME SaverInv, CreationIsAtomic, NEW t \in Receivers,
         Saver!Receive(t) \/ Saver!Dump(t) \/ Saver!Create(t) \/ Saver!Push(t)
  PROVE  SaverInv'
<1>1. CASE Saver!Receive(t)
  <2>1. /\ received' = received + 1
        /\ \/ at[t] = "receive" /\ at' = [at EXCEPT ![t] = "dump"] /\ holds' = [holds EXCEPT ![t] = received']
           \/ UNCHANGED <<at, holds>>
        /\ UNCHANGED <<created, pushed, cache, thread, buffer, file, isOpen, earlier, user, owed, dumping>>
    BY <1>1 DEF Saver!Receive, Saver!dumper, Saver!control
  <2>2. SaverType'
    <3>1. received' \in Nat
      BY <2>1 DEF SaverInv, SaverType
    <3>2. holds' \in [Receivers -> Saved]
      BY <2>1, <3>1 DEF SaverInv, SaverType, Saved
    <3>3. at' \in [Receivers -> {"receive", "dump", "create", "push"}]
      BY <2>1 DEF SaverInv, SaverType
    <3> QED
      BY <2>1, <3>1, <3>2, <3>3 DEF SaverInv, SaverType
  <2>3. CacheInv'
    BY <2>1 DEF SaverInv, SaverType, CacheInv
  <2>4. FilesInv' /\ CloseInv'
    BY <2>1, FilesStay DEF SaverInv, CloseInv, Contents
  <2> QED
    BY <2>2, <2>3, <2>4 DEF SaverInv
<1>2. CASE Saver!Dump(t)
  <2>1. /\ at[t] = "dump" /\ \A u \in Receivers : at[u] # "create"
        /\ at' = [at EXCEPT ![t] = IF created THEN "push" ELSE "create"]
        /\ UNCHANGED <<received, holds, created, pushed, cache, thread, buffer, file, isOpen, earlier,
                       user, owed, dumping>>
    BY <1>2 DEF Saver!Dump, Saver!dumper, Saver!control
  <2>2. SaverType'
    BY <2>1 DEF SaverInv, SaverType
  <2>3. CacheInv'
    BY <2>1 DEF SaverInv, SaverType, CacheInv
  <2>4. FilesInv' /\ CloseInv'
    BY <2>1, FilesStay DEF SaverInv, CloseInv, Contents
  <2> QED
    BY <2>2, <2>3, <2>4 DEF SaverInv
<1>3. CASE Saver!Create(t)
  <2>1. /\ at[t] = "create" /\ created' = TRUE /\ cache' = <<>>
        /\ at' = [at EXCEPT ![t] = "push"]
        /\ UNCHANGED <<received, holds, pushed, thread, buffer, file, isOpen, earlier, user, owed, dumping>>
    BY <1>3 DEF Saver!Create, Saver!dumper, Saver!control
  <2>2. cache' = cache
    BY <2>1 DEF SaverInv, CacheInv
  <2>3. SaverType'
    BY <2>1, <2>2 DEF SaverInv, SaverType
  <2>4. CacheInv'
    BY <2>1 DEF SaverInv, SaverType, CacheInv
  <2>5. FilesInv' /\ CloseInv'
    BY <2>1, <2>2, FilesStay DEF SaverInv, CloseInv, Contents
  <2> QED
    BY <2>3, <2>4, <2>5 DEF SaverInv
<1>4. CASE Saver!Push(t)
  <2>1. /\ at[t] = "push" /\ cache' = Append(cache, holds[t]) /\ pushed' = Append(pushed, holds[t])
        /\ at' = [at EXCEPT ![t] = "receive"]
        /\ UNCHANGED <<received, holds, created, thread, buffer, file, isOpen, earlier, user, owed, dumping>>
    BY <1>4 DEF Saver!Push, Saver!dumper, Saver!control
  <2>2. holds[t] \in Saved /\ cache \in Seq(Saved) /\ pushed \in Seq(Saved) /\ earlier \in Seq(Saved)
    BY DEF SaverInv, SaverType
  <2>3. /\ cache' \in Seq(Saved) /\ pushed' \in Seq(Saved)
        /\ Len(cache') = Len(cache) + 1 /\ Len(pushed') = Len(pushed) + 1
        /\ Len(cache) \in Nat /\ Len(pushed) \in Nat
    BY <2>1, <2>2, AppendProperties, LenProperties
  <2>4. SaverType'
    BY <2>1, <2>3 DEF SaverInv, SaverType
  <2>5. CacheInv'
    BY <2>1 DEF SaverInv, SaverType, CacheInv
  <2>6. FilesInv'
    <3>1. PICK written \in Seq(Saved) :
            /\ earlier \o (written \o cache) = pushed
            /\ \/ Contents = Saver!FileOf(written)
               \/ thread = "none" /\ Contents = <<>> /\ written = <<>>
      BY DEF SaverInv, FilesInv
    <3>6. earlier' \o (written \o cache') = pushed'
      <4> DEFINE h == <<holds[t]>>
      <4>1. h \in Seq(Saved)
        BY <2>2
      <4>2. cache' = cache \o h
        BY <2>1, <2>2, AppendIsConcat
      <4>3. pushed' = pushed \o h
        BY <2>1, <2>2, AppendIsConcat
      <4> HIDE DEF h
      <4> DEFINE read == written \o cache
                 e == earlier
                 c == cache
      <4>4. c \in Seq(Saved)
        BY <2>2
      <4>a. e \in Seq(Saved)
        BY <2>2
      <4>b. read \in Seq(Saved)
        BY <2>2, ConcatProperties
      <4>5. read = written \o c
        OBVIOUS
      <4> HIDE DEF read, e, c
      <4>6. (written \o c) \o h = written \o (c \o h)
        BY <4>1, <4>4, ThreeParts
      <4>7. (e \o read) \o h = e \o (read \o h)
        BY <4>1, <4>a, <4>b, ThreeParts
      <4>8. (e \o read) \o h = e \o (written \o (c \o h))
        BY <4>5, <4>6, <4>7
      <4> QED
        BY <2>1, <3>1, <4>2, <4>3, <4>8 DEF read, e, c
    <3>7. Contents' = Contents /\ thread' = thread
      BY <2>1 DEF Contents
    <3> QED
      BY <3>1, <3>6, <3>7 DEF FilesInv
  <2>7. CloseInv'
    <3>1. owed \in Nat
      BY DEF SaverInv, SaverType
    <3> QED
      BY <2>1, <2>3, <3>1 DEF SaverInv, CloseInv
  <2> QED
    BY <2>4, <2>5, <2>6, <2>7 DEF SaverInv
<1> QED
  BY <1>1, <1>2, <1>3, <1>4

-----------------------------------------------------------------------------
(* The dumping thread. *)
LEMMA BufferTakes ==
  ASSUME NEW f \in Seq(SaverWrites), NEW b \in Seq(SaverWrites), NEW w \in SaverWrites
  PROVE  LET after == Saver!Writes([file |-> f, buffer |-> b], w)
         IN /\ after = [file |-> after.file, buffer |-> after.buffer]
            /\ after.file \in Seq(SaverWrites) /\ after.buffer \in Seq(SaverWrites)
            /\ after.file \o after.buffer = (f \o b) \o <<w>>
<1> DEFINE after == Saver!Writes([file |-> f, buffer |-> b], w)
           h == <<w>>
<1>1. h \in Seq(SaverWrites)
  OBVIOUS
<1>2. f \o b \in Seq(SaverWrites)
  BY ConcatProperties
<1>3. Append(b, w) \in Seq(SaverWrites) /\ Append(b, w) = b \o h
  BY AppendProperties, AppendIsConcat
<1>4. \/ after = [file |-> f \o b, buffer |-> h]
      \/ after = [file |-> f, buffer |-> Append(b, w)]
  BY DEF Saver!Writes
<1> HIDE DEF after, h
<1>5. (f \o b) \o h = f \o (b \o h)
  BY <1>1, ThreeParts
<1>6. CASE after = [file |-> f \o b, buffer |-> h]
  <2>1. after.file = f \o b /\ after.buffer = h
    BY <1>6
  <2> QED
    BY <1>1, <1>2, <1>6, <2>1 DEF after, h
<1>7. CASE after = [file |-> f, buffer |-> Append(b, w)]
  <2>1. after.file = f /\ after.buffer = Append(b, w)
    BY <1>7
  <2>2. after.file \o after.buffer = (f \o b) \o h
    BY <1>3, <1>5, <2>1
  <2>3. after.file \in Seq(SaverWrites) /\ after.buffer \in Seq(SaverWrites)
    BY <1>3, <2>1
  <2> QED
    BY <1>7, <2>1, <2>2, <2>3 DEF after, h
<1> QED
  BY <1>4, <1>6, <1>7

(* What the two writes of a record do to file and buffer. *)
LEMMA RecordWritten ==
  ASSUME NEW f \in Seq(SaverWrites), NEW b \in Seq(SaverWrites), NEW p \in Saved
  PROVE  LET record == Saver!Record(p)
             after == Saver!Writes(Saver!Writes([file |-> f, buffer |-> b], record[1]), record[2])
         IN /\ after.file \in Seq(SaverWrites) /\ after.buffer \in Seq(SaverWrites)
            /\ after.file \o after.buffer = (f \o b) \o record
<1> DEFINE record == Saver!Record(p)
           half == Saver!Writes([file |-> f, buffer |-> b], record[1])
           after == Saver!Writes(half, record[2])
           x == record[1]
           y == record[2]
           s == f \o b
<1>1. x \in SaverWrites /\ y \in SaverWrites /\ record = <<x>> \o <<y>>
  BY RecordOfPacket
<1>2. /\ half = [file |-> half.file, buffer |-> half.buffer]
      /\ half.file \in Seq(SaverWrites) /\ half.buffer \in Seq(SaverWrites)
      /\ half.file \o half.buffer = s \o <<x>>
  BY <1>1, BufferTakes
<1>3. /\ after.file \in Seq(SaverWrites) /\ after.buffer \in Seq(SaverWrites)
      /\ after.file \o after.buffer = (half.file \o half.buffer) \o <<y>>
  <2> DEFINE hf == half.file
             hb == half.buffer
  <2>1. hf \in Seq(SaverWrites) /\ hb \in Seq(SaverWrites) /\ y \in SaverWrites
    BY <1>1, <1>2
  <2>2. after = Saver!Writes([file |-> hf, buffer |-> hb], y)
    BY <1>2
  <2> HIDE DEF hf, hb, y
  <2>3. LET a == Saver!Writes([file |-> hf, buffer |-> hb], y)
        IN /\ a.file \in Seq(SaverWrites) /\ a.buffer \in Seq(SaverWrites)
           /\ a.file \o a.buffer = (hf \o hb) \o <<y>>
    BY <2>1, BufferTakes
  <2> HIDE DEF after
  <2>4. /\ after.file \in Seq(SaverWrites) /\ after.buffer \in Seq(SaverWrites)
        /\ after.file \o after.buffer = (hf \o hb) \o <<y>>
    BY <2>2, <2>3
  <2> QED
    BY <2>4 DEF hf, hb, y
<1>4. s \in Seq(SaverWrites)
  BY ConcatProperties
<1>5. <<x>> \in Seq(SaverWrites) /\ <<y>> \in Seq(SaverWrites)
  BY <1>1
<1> HIDE DEF after, half, s, x, y, record
<1>6. (s \o <<x>>) \o <<y>> = s \o (<<x>> \o <<y>>)
  BY <1>4, <1>5, ThreeParts
<1>7. after.file \o after.buffer = s \o record
  BY <1>1, <1>2, <1>3, <1>6
<1> QED
  BY <1>3, <1>7 DEF after, half, s, x, y, record

(* Flushing: what was in the buffer is in the file. *)
LEMMA WrittenIsMoved ==
  ASSUME SaverType, file' = Contents, buffer' = <<>>
  PROVE  Contents' = Contents /\ file' \in Seq(SaverWrites) /\ buffer' \in Seq(SaverWrites)
<1>1. Contents \in Seq(SaverWrites) /\ <<>> \in Seq(SaverWrites)
  BY ConcatProperties, EmptySeq DEF SaverType, Contents
<1>2. Contents' = Contents \o <<>>
  BY DEF Contents
<1>3. Contents \o <<>> = Contents
  BY <1>1, ConcatEmptySeq
<1> QED
  BY <1>1, <1>2, <1>3

(* Nothing is lost: what was pushed is written or in the cache. *)
LEMMA AllPushed ==
  ASSUME SaverType, NEW written \in Seq(Saved), earlier \o (written \o cache) = pushed
  PROVE  /\ Len(earlier) + Len(written) + Len(cache) = Len(pushed)
         /\ Len(earlier) \in Nat /\ Len(written) \in Nat /\ Len(cache) \in Nat /\ Len(pushed) \in Nat
         /\ Len(earlier \o written) = Len(earlier) + Len(written)
<1>1. earlier \in Seq(Saved) /\ cache \in Seq(Saved) /\ pushed \in Seq(Saved)
  BY DEF SaverType
<1>2. written \o cache \in Seq(Saved) /\ Len(written \o cache) = Len(written) + Len(cache)
  BY <1>1, ConcatProperties
<1>3. /\ Len(earlier \o (written \o cache)) = Len(earlier) + Len(written \o cache)
      /\ Len(earlier \o written) = Len(earlier) + Len(written)
  BY <1>1, <1>2, ConcatProperties
<1>4. Len(earlier) \in Nat /\ Len(written) \in Nat /\ Len(cache) \in Nat /\ Len(pushed) \in Nat
  BY <1>1, LenProperties
<1> QED
  BY <1>2, <1>3, <1>4

(* The dumping thread keeps the files whole. *)
LEMMA DumperKeepsFiles ==
  ASSUME SaverInv, Saver!Look \/ Saver!Write \/ Saver!Drained \/ Saver!Flush
  PROVE  SaverInv'
<1>0. PICK written \in Seq(Saved) :
        /\ earlier \o (written \o cache) = pushed
        /\ \/ Contents = Saver!FileOf(written)
           \/ thread = "none" /\ Contents = <<>> /\ written = <<>>
  BY DEF SaverInv, FilesInv
<1>1. CASE Saver!Look
  <2>1. /\ thread = "while"
        /\ \/ /\ ~dumping /\ cache = <<>> /\ thread' = "exited" /\ file' = Contents /\ buffer' = <<>>
           \/ thread' = "write" /\ UNCHANGED <<file, buffer>>
        /\ UNCHANGED <<received, at, holds, created, pushed, cache, isOpen, earlier, user, owed, dumping>>
    BY <1>1 DEF Saver!Look, Saver!HasEnded, Saver!receivers, Saver!control, Contents
  <2>2. Contents' = Contents /\ file' \in Seq(SaverWrites) /\ buffer' \in Seq(SaverWrites)
    BY <2>1, WrittenIsMoved DEF SaverInv, SaverType, Contents
  <2>3. SaverType' /\ CacheInv' /\ FilesInv'
    BY <2>1, <2>2, FilesStay DEF SaverInv, SaverType, CacheInv
  <2>4. CloseInv'
    <3>1. CASE ~dumping /\ cache = <<>> /\ thread' = "exited" /\ buffer' = <<>>
      <4>1. user # "idle"
        BY <2>1, <3>1 DEF SaverInv, CloseInv
      <4>2. Len(pushed) - Len(cache) >= owed
        <5>1. Len(cache) = 0 /\ Len(pushed) \in Nat /\ owed \in Nat /\ owed <= Len(pushed)
          BY <1>0, <3>1, AllPushed, EmptySeq DEF SaverInv, SaverType, CloseInv
        <5> QED
          BY <5>1
      <4> QED
        BY <2>1, <3>1, <4>1, <4>2 DEF SaverInv, CloseInv
    <3>2. CASE thread' = "write"
      BY <2>1, <3>2 DEF SaverInv, CloseInv
    <3> QED
      BY <2>1, <3>1, <3>2
  <2> QED
    BY <2>3, <2>4 DEF SaverInv
<1>2. CASE Saver!Write
  <2> DEFINE p == Head(cache)
             record == Saver!Record(p)
             after == Saver!Writes(Saver!Writes([file |-> file, buffer |-> buffer], record[1]), record[2])
  <2>1. /\ thread = "write" /\ cache # <<>> /\ cache' = Tail(cache)
        /\ file' = after.file /\ buffer' = after.buffer
        /\ UNCHANGED <<received, at, holds, created, pushed, thread, isOpen, earlier, user, owed, dumping>>
    BY <1>2 DEF Saver!Write, Saver!receivers, Saver!control
  <2>2. file \in Seq(SaverWrites) /\ buffer \in Seq(SaverWrites) /\ cache \in Seq(Saved)
    BY DEF SaverInv, SaverType
  <2>3. /\ p \in Saved /\ Tail(cache) \in Seq(Saved) /\ Append(written, p) \in Seq(Saved)
        /\ Append(written, p) \o Tail(cache) = written \o cache
    BY <2>1, <2>2, PacketTaken
  <2> HIDE DEF p
  <2>4. /\ after.file \in Seq(SaverWrites) /\ after.buffer \in Seq(SaverWrites)
        /\ after.file \o after.buffer = (file \o buffer) \o record
    BY <2>2, <2>3, RecordWritten
  <2> HIDE DEF after
  <2>5. Contents' = Saver!FileOf(Append(written, p))
    <3>1. Contents' = Contents \o record /\ Contents = Saver!FileOf(written)
      BY <1>0, <2>1, <2>4 DEF Contents
    <3> QED
      BY <2>3, <3>1, FileGrows
  <2>6. FilesInv'
    BY <1>0, <2>1, <2>3, <2>5 DEF FilesInv
  <2>7. SaverType'
    BY <2>1, <2>3, <2>4 DEF SaverInv, SaverType
  <2>8. CacheInv'
    BY <2>1 DEF SaverInv, CacheInv
  <2>9. CloseInv'
    BY <2>1 DEF SaverInv, CloseInv
  <2> QED
    BY <2>6, <2>7, <2>8, <2>9 DEF SaverInv
<1>3. CASE Saver!Drained
  <2>1. /\ thread = "write" /\ thread' = "sleep"
        /\ UNCHANGED <<received, at, holds, created, pushed, cache, buffer, file, isOpen, earlier, user,
                       owed, dumping>>
    BY <1>3 DEF Saver!Drained, Saver!receivers, Saver!control
  <2>2. SaverType' /\ CacheInv' /\ FilesInv' /\ CloseInv'
    BY <2>1, FilesStay DEF SaverInv, SaverType, CacheInv, CloseInv, Contents
  <2> QED
    BY <2>2 DEF SaverInv
<1>4. CASE Saver!Flush
  <2>1. /\ thread = "sleep" /\ thread' = "while"
        /\ (file' = Contents /\ buffer' = <<>>) \/ UNCHANGED <<file, buffer>>
        /\ UNCHANGED <<received, at, holds, created, pushed, cache, isOpen, earlier, user, owed, dumping>>
    BY <1>4 DEF Saver!Flush, Saver!receivers, Saver!control, Contents
  <2>2. Contents' = Contents /\ file' \in Seq(SaverWrites) /\ buffer' \in Seq(SaverWrites)
    BY <2>1, WrittenIsMoved DEF SaverInv, SaverType, Contents
  <2>3. SaverType' /\ CacheInv' /\ FilesInv' /\ CloseInv'
    BY <2>1, <2>2, FilesStay DEF SaverInv, SaverType, CacheInv, CloseInv
  <2> QED
    BY <2>3 DEF SaverInv
<1> QED
  BY <1>1, <1>2, <1>3, <1>4

(* The user. *)
LEMMA UserKeepsFiles ==
  ASSUME SaverInv, \/ Saver!StartRecordPcap \/ Saver!StopRecordPcap \/ Saver!Stopped
                   \/ \E opens \in BOOLEAN : Saver!Started(opens)
  PROVE  SaverInv'
<1>0. PICK written \in Seq(Saved) :
        /\ earlier \o (written \o cache) = pushed
        /\ \/ Contents = Saver!FileOf(written)
           \/ thread = "none" /\ Contents = <<>> /\ written = <<>>
  BY DEF SaverInv, FilesInv
<1>1. CASE Saver!StartRecordPcap \/ Saver!StopRecordPcap
  <2>1. /\ user = "idle" /\ user' \in {"start", "stop"}
        /\ owed' = IF thread = "none" THEN owed ELSE Len(pushed)
        /\ UNCHANGED <<received, at, holds, created, pushed, cache, thread, buffer, file, isOpen, earlier>>
    BY <1>1 DEF Saver!StartRecordPcap, Saver!StopRecordPcap, Saver!Owes, Saver!receivers, Saver!dumper
  <2>2. Len(pushed) \in Nat
    BY LenProperties DEF SaverInv, SaverType
  <2>3. SaverType'
    BY <2>1, <2>2 DEF SaverInv, SaverType
  <2>4. CacheInv' /\ FilesInv'
    BY <2>1, FilesStay DEF SaverInv, CacheInv, Contents
  <2>5. CloseInv'
    <3>1. thread # "exited" /\ user' # "idle" /\ owed' <= Len(pushed)
      BY <2>1, <2>2 DEF SaverInv, CloseInv
    <3> QED
      BY <2>1, <3>1 DEF SaverInv, CloseInv
  <2> QED
    BY <2>3, <2>4, <2>5 DEF SaverInv
<1>2. CASE Saver!Stopped
  <2>1. /\ thread \in {"none", "exited"} /\ file' = Contents /\ buffer' = <<>>
        /\ thread' = "none" /\ user' = "idle"
        /\ UNCHANGED <<received, at, holds, created, pushed, cache, earlier, owed>>
    BY <1>2 DEF Saver!Stopped, Saver!Joined, Saver!receivers, Contents
  <2>2. Contents' = Contents /\ file' \in Seq(SaverWrites) /\ buffer' \in Seq(SaverWrites)
    BY <2>1, WrittenIsMoved DEF SaverInv
  <2>3. SaverType' /\ CacheInv' /\ FilesInv'
    BY <2>1, <2>2, FilesStay DEF SaverInv, SaverType, CacheInv
  <2>4. CloseInv'
    BY <2>1 DEF SaverInv, CloseInv
  <2> QED
    BY <2>3, <2>4 DEF SaverInv
<1>3. ASSUME NEW opens \in BOOLEAN, Saver!Started(opens) PROVE SaverInv'
  <2>1. /\ thread \in {"none", "exited"} /\ earlier' = earlier \o Saver!PacketsIn(Contents)
        /\ file' = <<>> /\ isOpen' = opens /\ dumping' = opens
        /\ thread' = IF opens THEN "while" ELSE "none"
        /\ buffer' = IF opens THEN <<Saver!FileHeader>> ELSE <<>>
        /\ user' = "idle"
        /\ UNCHANGED <<received, at, holds, created, pushed, cache, owed>>
    BY <1>3 DEF Saver!Started, Saver!Joined, Saver!receivers, Contents
  <2>2. Saver!PacketsIn(Contents) = written
    BY <1>0, PacketsOfFile, PacketsOfNothing
  <2>3. Saver!FileHeader \in SaverWrites
    BY DEF Saver!FileHeader, SaverWrites, Saved
  <2>4. <<>> \in Seq(SaverWrites) /\ <<>> \in Seq(Saved) /\ Len(<<>>) = 0
    BY EmptySeq
  <2>5. earlier \in Seq(Saved) /\ cache \in Seq(Saved) /\ file \in Seq(SaverWrites)
    BY DEF SaverInv, SaverType
  <2>6. earlier' \in Seq(Saved)
    BY <2>1, <2>2, <2>5, ConcatProperties
  <2>7. buffer' \in Seq(SaverWrites) /\ file' \in Seq(SaverWrites)
    BY <2>1, <2>3, <2>4
  <2>8. SaverType'
    BY <2>1, <2>6, <2>7 DEF SaverInv, SaverType
  <2>9. CacheInv'
    BY <2>1 DEF SaverInv, CacheInv
  <2>10. FilesInv'
    <3>1. earlier' \o (<<>> \o cache') = pushed'
      <4>1. <<>> \o cache = cache
        BY <2>5, ConcatEmptySeq
      <4> DEFINE e == earlier
                 c == cache
      <4>2. e \in Seq(Saved) /\ c \in Seq(Saved)
        BY <2>5
      <4> HIDE DEF e, c
      <4>3. (e \o written) \o c = e \o (written \o c)
        BY <4>2, ThreeParts
      <4> QED
        BY <1>0, <2>1, <2>2, <4>1, <4>3 DEF e, c
    <3>2. Contents' = buffer'
      BY <2>1, <2>7, ConcatEmptySeq DEF Contents
    <3>3. Saver!FileOf(<<>>) = <<Saver!FileHeader>>
      <4>1. Saver!FileOf(<<>>) \in Seq(SaverWrites) /\ Len(Saver!FileOf(<<>>)) = 1
            /\ Saver!FileOf(<<>>)[1] = Saver!FileHeader
        <5> DEFINE ps == <<>>
        <5>1. ps \in Seq(Saved) /\ Len(ps) = 0
          BY <2>4
        <5> HIDE DEF ps
        <5>2. Saver!FileOf(ps) \in Seq(SaverWrites) /\ Len(Saver!FileOf(ps)) = 2 * Len(ps) + 1
              /\ Saver!FileOf(ps)[1] = Saver!FileHeader
          BY <5>1, WritesOfFile
        <5> QED
          BY <5>1, <5>2 DEF ps
      <4>2. /\ <<Saver!FileHeader>> \in Seq(SaverWrites) /\ Len(<<Saver!FileHeader>>) = 1
            /\ <<Saver!FileHeader>>[1] = Saver!FileHeader
        BY <2>3
      <4>3. \A i \in 1 .. Len(Saver!FileOf(<<>>)) : Saver!FileOf(<<>>)[i] = <<Saver!FileHeader>>[i]
        BY <4>1, <4>2
      <4> QED
        BY <4>1, <4>2, <4>3, SeqEqual
    <3>4. CASE opens
      BY <2>1, <2>4, <3>1, <3>2, <3>3, <3>4 DEF FilesInv
    <3>5. CASE ~opens
      BY <2>1, <2>4, <3>1, <3>2, <3>5 DEF FilesInv
    <3> QED
      BY <3>4, <3>5
  <2>11. CloseInv'
    <3>1. CASE opens
      BY <2>1, <3>1 DEF SaverInv, CloseInv
    <3>2. CASE ~opens
      BY <2>1, <3>2 DEF SaverInv, CloseInv
    <3> QED
      BY <3>1, <3>2
  <2> QED
    BY <2>8, <2>9, <2>10, <2>11 DEF SaverInv
<1> QED
  BY <1>1, <1>2, <1>3

(* Every step keeps SaverInv. *)
LEMMA SaverInvKept ==
  ASSUME SaverInv, CreationIsAtomic, Saver!Next \/ UNCHANGED Saver!saverVars
  PROVE  SaverInv'
<1>1. CASE UNCHANGED Saver!saverVars
  <2>1. UNCHANGED <<received, at, holds, created, pushed, cache, thread, buffer, file, dumping, isOpen,
                    earlier, user, owed>>
    BY <1>1 DEF Saver!saverVars, Saver!receivers, Saver!dumper, Saver!control
  <2>2. SaverType' /\ CacheInv' /\ FilesInv' /\ CloseInv'
    BY <2>1, FilesStay DEF SaverInv, SaverType, CacheInv, CloseInv, Contents
  <2> QED
    BY <2>2 DEF SaverInv
<1>2. CASE Saver!Next
  BY <1>2, ReceiversKeepFiles, DumperKeepsFiles, UserKeepsFiles DEF Saver!Next
<1> QED
  BY <1>1, <1>2

(* The invariant implies the property. *)
LEMMA SaverInvSuffices == SaverInv => Saver!RecordingComplete
<1> SUFFICES ASSUME SaverInv PROVE Saver!RecordingComplete
  OBVIOUS
<1>1. PICK written \in Seq(Saved) :
        /\ earlier \o (written \o cache) = pushed
        /\ \/ Contents = Saver!FileOf(written)
           \/ thread = "none" /\ Contents = <<>> /\ written = <<>>
  BY DEF SaverInv, FilesInv
<1>2. Saver!PacketsIn(Contents) = written
  BY <1>1, PacketsOfFile, PacketsOfNothing
<1>3. Contents = <<>> \/ Saver!IsWhole(Contents)
  BY <1>1, <1>2 DEF Saver!IsWhole
<1>4. (earlier \o written) \o cache = pushed
  <2> DEFINE e == earlier
             c == cache
  <2>1. e \in Seq(Saved) /\ c \in Seq(Saved)
    BY DEF SaverInv, SaverType
  <2> HIDE DEF e, c
  <2>2. (e \o written) \o c = e \o (written \o c)
    BY <2>1, ThreeParts
  <2> QED
    BY <1>1, <2>2 DEF e, c
<1>5. ASSUME user = "idle", ~isOpen
      PROVE  /\ file = <<>> \/ Saver!IsWhole(file)
             /\ Len(earlier \o Saver!PacketsIn(file)) >= owed
  <2>1. thread = "none" /\ buffer = <<>> /\ Len(pushed) - Len(cache) >= owed
    BY <1>5 DEF SaverInv, CloseInv
  <2>2. file \in Seq(SaverWrites) /\ SaverType /\ owed \in Nat
    BY DEF SaverInv, SaverType
  <2>3. Contents = file
    BY <2>1, <2>2, ConcatEmptySeq DEF Contents
  <2>4. Len(earlier \o written) >= owed
    <3>1. /\ Len(earlier) + Len(written) + Len(cache) = Len(pushed)
          /\ Len(earlier) \in Nat /\ Len(written) \in Nat /\ Len(cache) \in Nat /\ Len(pushed) \in Nat
          /\ Len(earlier \o written) = Len(earlier) + Len(written)
      BY <1>1, <2>2, AllPushed
    <3> QED
      BY <2>1, <2>2, <3>1
  <2> QED
    BY <1>2, <1>3, <2>3, <2>4
<1> QED
  BY <1>2, <1>3, <1>4, <1>5 DEF Saver!RecordingComplete, Contents

(* A step of the whole, while the saver runs, is one of the saver. *)
LEMMA SaverSteps ==
  ASSUME [Next]_vars, part' = "saver"
  PROVE  part = "saver" /\ (Saver!Next \/ UNCHANGED Saver!saverVars)
<1>1. CASE UNCHANGED vars
  BY <1>1 DEF vars, varsSaver, varsFiles, varsAt, Saver!saverVars, Saver!receivers, Saver!dumper,
              Saver!control
<1>2. CASE Next
  BY <1>2 DEF Next, OfSerial, OfPtc, OfWaits, OfSaver, OfLog
<1> QED
  BY <1>1, <1>2

(* Proves: what the receivers put into the cache is written once, in order, *)
(* in whole records, and is in the file when it is closed, as long as they  *)
(* do not create the cache both at once (PcapSaver::close, Lidar::Dump).    *)
THEOREM RecordingsAreComplete == CreationIsAtomic => (Spec => []RecordingComplete)
<1> SUFFICES ASSUME CreationIsAtomic PROVE Spec => []RecordingComplete
  OBVIOUS
<1> DEFINE Inv == part = "saver" => SaverInv
<1>1. Init => Inv
  BY SaverInvInit DEF Init
<1>2. Inv /\ [Next]_vars => Inv'
  BY SaverSteps, SaverInvKept
<1>3. Inv => RecordingComplete
  BY SaverInvSuffices DEF RecordingComplete
<1> HIDE DEF Inv
<1> QED
  BY <1>1, <1>2, <1>3, PTL DEF Spec
=============================================================================
