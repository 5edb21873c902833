---------------------------- MODULE RpcCallProofs ----------------------------
(***************************************************************************)
(* Proofs about RpcCall, for strings, buffers and results of any kind and  *)
(* any size.  The tables of the stubs are what they are; what has to be    *)
(* true of two copies of a table for a call to be carried exactly is named *)
(* (Alike, Fits), checked of every entry, and the walk of the runtime over *)
(* the parameters is proved once for all tables that have it.              *)
(***************************************************************************)
EXTENDS RpcCall, TLAPS, FiniteSetTheorems

-----------------------------------------------------------------------------
(* The walk over the parameters.  P is a list of L parameters, those with  *)
(* a direction in D have an item in the message.                           *)

\* How many of the parameters before j have one.
Rank(P, D, j) == Cardinality({m \in 1 .. j - 1 : P[m].dir \in D})

\* body holds the items of the parameters before j, It[m] being that of m.
Packed(body, P, D, It, j) ==
  /\ \E S : body \in Seq(S)
  /\ Len(body) = Rank(P, D, j)
  /\ \A m \in 1 .. j - 1 : P[m].dir \in D => body[Rank(P, D, m) + 1] = It[m]

\* body holds those of the parameters from j on.
ToUnpack(body, P, D, It, j, L) ==
  /\ \E S : body \in Seq(S)
  /\ Len(body) = Rank(P, D, L + 1) - Rank(P, D, j)
  /\ \A m \in j .. L : P[m].dir \in D => body[Rank(P, D, m) - Rank(P, D, j) + 1] = It[m]

LEMMA RankType ==
  ASSUME NEW P, NEW D, NEW j \in Nat
  PROVE  Rank(P, D, j) \in Nat
<1> DEFINE M == {m \in 1 .. j - 1 : P[m].dir \in D}
<1>1. IsFiniteSet(1 .. j - 1)
  BY FS_Interval
<1>2. M \in SUBSET (1 .. j - 1)
  OBVIOUS
<1> HIDE DEF M
<1>3. IsFiniteSet(M)
  BY <1>1, <1>2, FS_Subset
<1>4. Cardinality(M) \in Nat
  BY <1>3, FS_CardinalityType
<1> QED
  BY <1>4 DEF M, Rank

LEMMA RankFirst ==
  ASSUME NEW P, NEW D
  PROVE  Rank(P, D, 1) = 0
<1>1. {m \in 1 .. 1 - 1 : P[m].dir \in D} = {}
  OBVIOUS
<1> QED
  BY <1>1, FS_EmptySet DEF Rank

LEMMA RankNext ==
  ASSUME NEW P, NEW D, NEW j \in Nat \ {0}
  PROVE  Rank(P, D, j + 1) = IF P[j].dir \in D THEN Rank(P, D, j) + 1 ELSE Rank(P, D, j)
<1> DEFINE M == {m \in 1 .. j - 1 : P[m].dir \in D}
           N == {m \in 1 .. (j + 1) - 1 : P[m].dir \in D}
<1>1. IsFiniteSet(M)
  <2>1. IsFiniteSet(1 .. j - 1)
    BY FS_Interval
  <2>2. M \in SUBSET (1 .. j - 1)
    OBVIOUS
  <2> HIDE DEF M
  <2> QED
    BY <2>1, <2>2, FS_Subset
<1>2. j \notin M
  OBVIOUS
<1>3. P[j].dir \in D => N = M \cup {j}
  OBVIOUS
<1>4. P[j].dir \notin D => N = M
  OBVIOUS
<1>5. Cardinality(M \cup {j}) = Cardinality(M) + 1
  <2> HIDE DEF M
  <2> QED
    BY <1>1, <1>2, FS_AddElement
<1>6. Rank(P, D, j) = Cardinality(M) /\ Rank(P, D, j + 1) = Cardinality(N)
  BY DEF Rank
<1> HIDE DEF M, N
<1> QED
  BY <1>3, <1>4, <1>5, <1>6

LEMMA RankGrows ==
  ASSUME NEW P, NEW D, NEW j \in Nat, NEW m \in Nat, m <= j
  PROVE  Rank(P, D, m) <= Rank(P, D, j)
<1> DEFINE M == {q \in 1 .. m - 1 : P[q].dir \in D}
           J == {q \in 1 .. j - 1 : P[q].dir \in D}
<1>1. IsFiniteSet(J)
  <2>1. IsFiniteSet(1 .. j - 1)
    BY FS_Interval
  <2>2. J \in SUBSET (1 .. j - 1)
    OBVIOUS
  <2> HIDE DEF J
  <2> QED
    BY <2>1, <2>2, FS_Subset
<1>2. M \in SUBSET J
  OBVIOUS
<1>3. Cardinality(M) <= Cardinality(J)
  <2> HIDE DEF M, J
  <2> QED
    BY <1>1, <1>2, FS_Subset
<1> QED
  BY <1>3 DEF Rank

\* Parameters in front of others with items have smaller ranks.
LEMMA RankBefore ==
  ASSUME NEW P, NEW D, NEW j \in Nat, NEW m \in Nat \ {0}, m < j, P[m].dir \in D
  PROVE  Rank(P, D, m) + 1 <= Rank(P, D, j)
<1>1. Rank(P, D, m + 1) = Rank(P, D, m) + 1
  BY RankNext
<1>2. m + 1 \in Nat /\ m + 1 <= j
  OBVIOUS
<1>3. Rank(P, D, m + 1) <= Rank(P, D, j)
  BY <1>2, RankGrows
<1> QED
  BY <1>1, <1>3

LEMMA NothingPacked ==
  ASSUME NEW P, NEW D, NEW It
  PROVE  Packed(<<>>, P, D, It, 1)
<1>1. <<>> \in Seq({}) /\ Len(<<>>) = 0
  OBVIOUS
<1> QED
  BY <1>1, RankFirst DEF Packed

\* An item is packed.
LEMMA PackItem ==
  ASSUME NEW body, NEW P, NEW D, NEW It, NEW j \in Nat \ {0},
         Packed(body, P, D, It, j), P[j].dir \in D
  PROVE  Packed(Append(body, It[j]), P, D, It, j + 1)
<1> DEFINE x == It[j]
           u == Append(body, x)
           n == Rank(P, D, j)
<1>1. PICK S : body \in Seq(S)
  BY DEF Packed
<1>2. Len(body) = n /\ n \in Nat
  BY RankType DEF Packed
<1>3. Rank(P, D, j + 1) = n + 1
  BY RankNext
<1> HIDE DEF x, n
<1>4. u \in Seq(S \cup {x}) /\ Len(u) = n + 1 /\ u[n + 1] = x
  BY <1>1, <1>2
<1>5. \A i \in 1 .. n : u[i] = body[i]
  BY <1>1, <1>2
<1> HIDE DEF u
<1>6. ASSUME NEW m \in 1 .. (j + 1) - 1, P[m].dir \in D
      PROVE  u[Rank(P, D, m) + 1] = It[m]
  <2>1. CASE m = j
    BY <1>4, <2>1 DEF x, n
  <2>2. CASE m # j
    <3>1. m \in 1 .. j - 1 /\ m \in Nat \ {0} /\ m < j
      BY <2>2
    <3>2. Rank(P, D, m) + 1 <= n /\ Rank(P, D, m) \in Nat
      BY <1>6, <3>1, RankBefore, RankType DEF n
    <3>3. body[Rank(P, D, m) + 1] = It[m]
      BY <1>6, <3>1 DEF Packed
    <3> QED
      BY <1>2, <1>5, <3>2, <3>3
  <2> QED
    BY <2>1, <2>2
<1> QED
  BY <1>3, <1>4, <1>6 DEF Packed, u, x

\* A parameter without an item is passed over.
LEMMA PackNothing ==
  ASSUME NEW body, NEW P, NEW D, NEW It, NEW j \in Nat \ {0},
         Packed(body, P, D, It, j), P[j].dir \notin D
  PROVE  Packed(body, P, D, It, j + 1)
<1>1. Rank(P, D, j + 1) = Rank(P, D, j)
  BY RankNext
<1>2. \A m \in 1 .. (j + 1) - 1 : P[m].dir \in D => m \in 1 .. j - 1
  OBVIOUS
<1> QED
  BY <1>1, <1>2 DEF Packed

\* What was packed is there to unpack.
LEMMA AllPacked ==
  ASSUME NEW body, NEW P, NEW D, NEW It, NEW L \in Nat, Packed(body, P, D, It, L + 1)
  PROVE  ToUnpack(body, P, D, It, 1, L)
<1>1. Rank(P, D, 1) = 0 /\ Rank(P, D, L + 1) \in Nat
  BY RankFirst, RankType
<1>2. \A m \in 1 .. L : Rank(P, D, m) \in Nat /\ m \in 1 .. (L + 1) - 1
  BY RankType
<1>3. Len(body) = Rank(P, D, L + 1) - Rank(P, D, 1)
  BY <1>1 DEF Packed
<1>4. ASSUME NEW m \in 1 .. L, P[m].dir \in D
      PROVE  body[Rank(P, D, m) - Rank(P, D, 1) + 1] = It[m]
  <2>1. Rank(P, D, m) - Rank(P, D, 1) + 1 = Rank(P, D, m) + 1
    BY <1>1, <1>2
  <2> QED
    BY <1>2, <1>4, <2>1 DEF Packed
<1> QED
  BY <1>3, <1>4 DEF Packed, ToUnpack

\* The next item is unpacked.
LEMMA UnpackItem ==
  ASSUME NEW body, NEW P, NEW D, NEW It, NEW L \in Nat, NEW j \in 1 .. L,
         ToUnpack(body, P, D, It, j, L), P[j].dir \in D
  PROVE  /\ body # <<>> /\ Head(body) = It[j]
         /\ ToUnpack(Tail(body), P, D, It, j + 1, L)
<1> DEFINE n == Rank(P, D, j)
           a == Rank(P, D, L + 1)
           u == Tail(body)
<1>1. PICK S : body \in Seq(S)
  BY DEF ToUnpack
<1>2. n \in Nat /\ a \in Nat /\ n + 1 <= a
  BY RankType, RankBefore
<1>3. Rank(P, D, j + 1) = n + 1
  BY RankNext
<1>4. Len(body) = a - n
  BY DEF ToUnpack
<1> HIDE DEF n, a
<1>5. body # <<>> /\ Head(body) = body[1]
  BY <1>1, <1>2, <1>4
<1>6. u \in Seq(S) /\ Len(u) = a - (n + 1) /\ \A i \in 1 .. a - (n + 1) : u[i] = body[i + 1]
  BY <1>1, <1>2, <1>4
<1> HIDE DEF u
<1>7. body[1] = It[j]
  <2>1. body[Rank(P, D, j) - Rank(P, D, j) + 1] = It[j]
    BY DEF ToUnpack
  <2>2. Rank(P, D, j) - Rank(P, D, j) + 1 = 1
    BY <1>2 DEF n
  <2> QED
    BY <2>1, <2>2
<1>8. ASSUME NEW m \in j + 1 .. L, P[m].dir \in D
      PROVE  u[Rank(P, D, m) - (n + 1) + 1] = It[m]
  <2>1. m \in j .. L /\ m \in Nat \ {0} /\ j < m /\ m < L + 1
    OBVIOUS
  <2>2. body[Rank(P, D, m) - n + 1] = It[m]
    BY <1>8, <2>1 DEF ToUnpack, n
  <2>3. Rank(P, D, m) + 1 <= a /\ Rank(P, D, m) \in Nat
    BY <1>8, <2>1, RankBefore, RankType DEF a
  <2>4. n + 1 <= Rank(P, D, m)
    BY <2>1, RankBefore DEF n
  <2>5. Rank(P, D, m) - (n + 1) + 1 \in 1 .. a - (n + 1)
    BY <1>2, <2>3, <2>4
  <2>6. (Rank(P, D, m) - (n + 1) + 1) + 1 = Rank(P, D, m) - n + 1
    BY <1>2, <2>3
  <2> QED
    BY <1>6, <2>2, <2>5, <2>6
<1>9. ToUnpack(u, P, D, It, j + 1, L)
  BY <1>3, <1>6, <1>8 DEF ToUnpack, a
<1> QED
  BY <1>5, <1>7, <1>9 DEF u

LEMMA UnpackNothing ==
  ASSUME NEW body, NEW P, NEW D, NEW It, NEW L \in Nat, NEW j \in 1 .. L,
         ToUnpack(body, P, D, It, j, L), P[j].dir \notin D
  PROVE  ToUnpack(body, P, D, It, j + 1, L)
<1>1. Rank(P, D, j + 1) = Rank(P, D, j)
  BY RankNext
<1>2. \A m \in j + 1 .. L : m \in j .. L
  OBVIOUS
<1> QED
  BY <1>1, <1>2 DEF ToUnpack

-----------------------------------------------------------------------------
(* The tables.                                                             *)

Client(sys) == IF sys = "file" THEN FileClient ELSE InfoClient
Server(sys) == IF sys = "file" THEN FileServerStub ELSE InfoServerStub

\* The entry client c calls routine r with, and that of server s for number n.
CProc(c, r) == Client(c).format[Client(c).calls[r]]
SProc(s, n) == Server(s).format[Server(s).offsets[n + 1]]

\* Parameter p carries an argument of the prototype there and back.
GoesIn(p, proto) ==
  /\ p.dir = "in"
  /\ \E i \in DOMAIN proto :
       /\ p.at = Offset(i)
       /\ \/ proto[i] = "text" /\ p.type = TextType
          \/ proto[i] = "size" /\ p.type = NoType
          \/ proto[i] = "bytes" /\ p.type = ArrayType
ComesOut(p, proto) ==
  /\ p.dir = "out" /\ p.type = ArrayType
  /\ \E i \in DOMAIN proto : p.at = Offset(i) /\ proto[i] = "room"
IsReturned(p) == p.dir = "return" /\ p.type = NoType

\* The parameters P of an entry are those of the C prototype: each carries an
\* argument, no argument is forgotten, a result is returned when there is one, and
\* arrays are as long as an argument that is a size.
Fits(P, proto, returns, corr) ==
  /\ \E S : P \in Seq(S)
  /\ Len(P) \in Nat \ {0}
  /\ \A m \in 1 .. Len(P) :
       GoesIn(P[m], proto) \/ ComesOut(P[m], proto) \/ (IsReturned(P[m]) /\ returns)
  /\ \A i \in DOMAIN proto :
       /\ i \in Nat \ {0} /\ proto[i] \in {"text", "size", "bytes", "room"}
       /\ \E m \in 1 .. Len(P) :
            P[m].at = Offset(i) /\ P[m].dir = (IF proto[i] = "room" THEN "out" ELSE "in")
  /\ returns => \E m \in 1 .. Len(P) : P[m].dir = "return"
  /\ (\E m \in 1 .. Len(P) : P[m].type = ArrayType) =>
       \E i \in DOMAIN proto : proto[i] = "size" /\ corr = Offset(i)

\* A call of routine r by client c reaches the same routine of server s, whose
\* entry has the same parameters.
Alike(c, s, r) ==
  LET C == CProc(c, r)
  IN  /\ r \in DOMAIN Prototypes(c) /\ r \in DOMAIN Prototypes(s)
      /\ Prototypes(s)[r] = Prototypes(c)[r] /\ (r \in Returns(c) <=> r \in Returns(s))
      /\ C.num < Server(s).count /\ Server(s).routines[C.num + 1] = r
      /\ SProc(s, C.num).params = C.params
      /\ Fits(C.params, Prototypes(c)[r], r \in Returns(c), Client(c).types.array)
      /\ (\E m \in 1 .. Len(C.params) : C.params[m].type = ArrayType) =>
           Server(s).types.array = Client(c).types.array

\* The six lists of parameters there are.
LoginParams    == <<InText(0), InText(4), Return(8)>>
PathParams     == <<InText(0), Return(4)>>
DownloadParams == <<InText(0), OutArray(4), InLong(8), Return(12)>>
UploadParams   == <<InText(0), InArray(4), InLong(8), Return(12)>>
ReportParams   == <<InLong(0), OutArray(4)>>
FileParams     == <<InLong(0), OutArray(4), InText(8)>>

LEMMA FitsLogin ==
  ASSUME NEW corr
  PROVE  Fits(LoginParams, <<"text", "text">>, TRUE, corr) /\ \A m \in 1 .. 3 : LoginParams[m].type # ArrayType
<1> DEFINE P == LoginParams
           proto == <<"text", "text">>
<1>1. P[1] = InText(0) /\ P[2] = InText(4) /\ P[3] = Return(8) /\ Len(P) = 3
  BY DEF LoginParams
<1>2. \E S : P \in Seq(S)
  <2>1. P \in Seq({InText(0), InText(4), Return(8)})
    BY DEF LoginParams
  <2> QED
    BY <2>1
<1>3. DOMAIN proto = {1, 2} /\ proto[1] = "text" /\ proto[2] = "text"
  OBVIOUS
<1>4. Offset(1) = 0 /\ Offset(2) = 4
  BY DEF Offset
<1> HIDE DEF P, proto
<1>5. GoesIn(P[1], proto) /\ GoesIn(P[2], proto) /\ IsReturned(P[3])
  BY <1>1, <1>3, <1>4 DEF GoesIn, IsReturned, InText, Return, Param
<1>6. \A m \in 1 .. 3 : m = 1 \/ m = 2 \/ m = 3
  OBVIOUS
<1>7. \A m \in 1 .. 3 : P[m].type # ArrayType
  BY <1>1, <1>6 DEF InText, Return, Param, ArrayType, TextType, NoType
<1>8. P[1].at = 0 /\ P[1].dir = "in" /\ P[2].at = 4 /\ P[2].dir = "in" /\ P[3].dir = "return"
  BY <1>1 DEF InText, Return, Param
<1>9. \A i \in DOMAIN proto : \E m \in 1 .. 3 :
        P[m].at = Offset(i) /\ P[m].dir = (IF proto[i] = "room" THEN "out" ELSE "in")
  BY <1>3, <1>4, <1>8
<1>10. Fits(P, proto, TRUE, corr)
  BY <1>1, <1>2, <1>3, <1>5, <1>6, <1>7, <1>8, <1>9 DEF Fits
<1> QED
  BY <1>7, <1>10 DEF P, proto

LEMMA FitsPath ==
  ASSUME NEW corr
  PROVE  Fits(PathParams, <<"text">>, TRUE, corr) /\ \A m \in 1 .. 2 : PathParams[m].type # ArrayType
<1> DEFINE P == PathParams
           proto == <<"text">>
<1>1. P[1] = InText(0) /\ P[2] = Return(4) /\ Len(P) = 2
  BY DEF PathParams
<1>2. \E S : P \in Seq(S)
  <2>1. P \in Seq({InText(0), Return(4)})
    BY DEF PathParams
  <2> QED
    BY <2>1
<1>3. DOMAIN proto = {1} /\ proto[1] = "text"
  OBVIOUS
<1>4. Offset(1) = 0
  BY DEF Offset
<1> HIDE DEF P, proto
<1>5. GoesIn(P[1], proto) /\ IsReturned(P[2])
  BY <1>1, <1>3, <1>4 DEF GoesIn, ComesOut, IsReturned, InText, Return, Param
<1>6. \A m \in 1 .. 2 : m = 1 \/ m = 2
  OBVIOUS
<1>7. \A m \in 1 .. 2 : P[m].type # ArrayType
  BY <1>1, <1>6 DEF InText, Return, Param, ArrayType, TextType, NoType
<1>8. /\ P[1].at = 0 /\ P[1].dir = "in"
      /\ P[2].at = 4 /\ P[2].dir = "return"
  BY <1>1 DEF InText, Return, Param
<1>9. \A i \in DOMAIN proto : \E m \in 1 .. 2 :
        P[m].at = Offset(i) /\ P[m].dir = (IF proto[i] = "room" THEN "out" ELSE "in")
  BY <1>3, <1>4, <1>8
<1>10. Fits(P, proto, TRUE, corr)
  BY <1>1, <1>2, <1>3, <1>5, <1>6, <1>7, <1>8, <1>9 DEF Fits
<1> QED
  BY <1>7, <1>10 DEF P, proto

LEMMA FitsDownload ==
  Fits(DownloadParams, <<"text", "room", "size">>, TRUE, 8)
<1> DEFINE P == DownloadParams
           proto == <<"text", "room", "size">>
<1>1. P[1] = InText(0) /\ P[2] = OutArray(4) /\ P[3] = InLong(8) /\ P[4] = Return(12) /\ Len(P) = 4
  BY DEF DownloadParams
<1>2. \E S : P \in Seq(S)
  <2>1. P \in Seq({InText(0), OutArray(4), InLong(8), Return(12)})
    BY DEF DownloadParams
  <2> QED
    BY <2>1
<1>3. DOMAIN proto = {1, 2, 3} /\ proto[1] = "text" /\ proto[2] = "room" /\ proto[3] = "size"
  OBVIOUS
<1>4. Offset(1) = 0 /\ Offset(2) = 4 /\ Offset(3) = 8
  BY DEF Offset
<1> HIDE DEF P, proto
<1>5. GoesIn(P[1], proto) /\ ComesOut(P[2], proto) /\ GoesIn(P[3], proto) /\ IsReturned(P[4])
  BY <1>1, <1>3, <1>4 DEF GoesIn, ComesOut, IsReturned, InLong, InText, OutArray, Return, Param
<1>6. \A m \in 1 .. 4 : m = 1 \/ m = 2 \/ m = 3 \/ m = 4
  OBVIOUS
<1>7. 3 \in DOMAIN proto /\ proto[3] = "size" /\ 8 = Offset(3)
  BY <1>3, <1>4
<1>8. /\ P[1].at = 0 /\ P[1].dir = "in"
      /\ P[2].at = 4 /\ P[2].dir = "out"
      /\ P[3].at = 8 /\ P[3].dir = "in"
      /\ P[4].at = 12 /\ P[4].dir = "return"
  BY <1>1 DEF InLong, InText, OutArray, Return, Param
<1>9. \A i \in DOMAIN proto : \E m \in 1 .. 4 :
        P[m].at = Offset(i) /\ P[m].dir = (IF proto[i] = "room" THEN "out" ELSE "in")
  BY <1>3, <1>4, <1>8
<1>10. Fits(P, proto, TRUE, 8)
  BY <1>1, <1>2, <1>3, <1>5, <1>6, <1>7, <1>8, <1>9 DEF Fits
<1> QED
  BY <1>10 DEF P, proto

LEMMA FitsUpload ==
  Fits(UploadParams, <<"text", "bytes", "size">>, TRUE, 8)
<1> DEFINE P == UploadParams
           proto == <<"text", "bytes", "size">>
<1>1. P[1] = InText(0) /\ P[2] = InArray(4) /\ P[3] = InLong(8) /\ P[4] = Return(12) /\ Len(P) = 4
  BY DEF UploadParams
<1>2. \E S : P \in Seq(S)
  <2>1. P \in Seq({InText(0), InArray(4), InLong(8), Return(12)})
    BY DEF UploadParams
  <2> QED
    BY <2>1
<1>3. DOMAIN proto = {1, 2, 3} /\ proto[1] = "text" /\ proto[2] = "bytes" /\ proto[3] = "size"
  OBVIOUS
<1>4. Offset(1) = 0 /\ Offset(2) = 4 /\ Offset(3) = 8
  BY DEF Offset
<1> HIDE DEF P, proto
<1>5. GoesIn(P[1], proto) /\ GoesIn(P[2], proto) /\ GoesIn(P[3], proto) /\ IsReturned(P[4])
  BY <1>1, <1>3, <1>4 DEF GoesIn, ComesOut, IsReturned, InArray, InLong, InText, Return, Param
<1>6. \A m \in 1 .. 4 : m = 1 \/ m = 2 \/ m = 3 \/ m = 4
  OBVIOUS
<1>7. 3 \in DOMAIN proto /\ proto[3] = "size" /\ 8 = Offset(3)
  BY <1>3, <1>4
<1>8. /\ P[1].at = 0 /\ P[1].dir = "in"
      /\ P[2].at = 4 /\ P[2].dir = "in"
      /\ P[3].at = 8 /\ P[3].dir = "in"
      /\ P[4].at = 12 /\ P[4].dir = "return"
  BY <1>1 DEF InArray, InLong, InText, Return, Param
<1>9. \A i \in DOMAIN proto : \E m \in 1 .. 4 :
        P[m].at = Offset(i) /\ P[m].dir = (IF proto[i] = "room" THEN "out" ELSE "in")
  BY <1>3, <1>4, <1>8
<1>10. Fits(P, proto, TRUE, 8)
  BY <1>1, <1>2, <1>3, <1>5, <1>6, <1>7, <1>8, <1>9 DEF Fits
<1> QED
  BY <1>10 DEF P, proto

LEMMA FitsReport ==
  Fits(ReportParams, <<"size", "room">>, FALSE, 0)
<1> DEFINE P == ReportParams
           proto == <<"size", "room">>
<1>1. P[1] = InLong(0) /\ P[2] = OutArray(4) /\ Len(P) = 2
  BY DEF ReportParams
<1>2. \E S : P \in Seq(S)
  <2>1. P \in Seq({InLong(0), OutArray(4)})
    BY DEF ReportParams
  <2> QED
    BY <2>1
<1>3. DOMAIN proto = {1, 2} /\ proto[1] = "size" /\ proto[2] = "room"
  OBVIOUS
<1>4. Offset(1) = 0 /\ Offset(2) = 4
  BY DEF Offset
<1> HIDE DEF P, proto
<1>5. GoesIn(P[1], proto) /\ ComesOut(P[2], proto)
  BY <1>1, <1>3, <1>4 DEF GoesIn, ComesOut, IsReturned, InLong, OutArray, Param
<1>6. \A m \in 1 .. 2 : m = 1 \/ m = 2
  OBVIOUS
<1>7. 1 \in DOMAIN proto /\ proto[1] = "size" /\ 0 = Offset(1)
  BY <1>3, <1>4
<1>8. /\ P[1].at = 0 /\ P[1].dir = "in"
      /\ P[2].at = 4 /\ P[2].dir = "out"
  BY <1>1 DEF InLong, OutArray, Param
<1>9. \A i \in DOMAIN proto : \E m \in 1 .. 2 :
        P[m].at = Offset(i) /\ P[m].dir = (IF proto[i] = "room" THEN "out" ELSE "in")
  BY <1>3, <1>4, <1>8
<1>10. Fits(P, proto, FALSE, 0)
  BY <1>1, <1>2, <1>3, <1>5, <1>6, <1>7, <1>8, <1>9 DEF Fits
<1> QED
  BY <1>10 DEF P, proto

LEMMA FitsFile ==
  Fits(FileParams, <<"size", "room", "text">>, FALSE, 0)
<1> DEFINE P == FileParams
           proto == <<"size", "room", "text">>
<1>1. P[1] = InLong(0) /\ P[2] = OutArray(4) /\ P[3] = InText(8) /\ Len(P) = 3
  BY DEF FileParams
<1>2. \E S : P \in Seq(S)
  <2>1. P \in Seq({InLong(0), OutArray(4), InText(8)})
    BY DEF FileParams
  <2> QED
    BY <2>1
<1>3. DOMAIN proto = {1, 2, 3} /\ proto[1] = "size" /\ proto[2] = "room" /\ proto[3] = "text"
  OBVIOUS
<1>4. Offset(1) = 0 /\ Offset(2) = 4 /\ Offset(3) = 8
  BY DEF Offset
<1> HIDE DEF P, proto
<1>5. GoesIn(P[1], proto) /\ ComesOut(P[2], proto) /\ GoesIn(P[3], proto)
  BY <1>1, <1>3, <1>4 DEF GoesIn, ComesOut, IsReturned, InLong, InText, OutArray, Param
<1>6. \A m \in 1 .. 3 : m = 1 \/ m = 2 \/ m = 3
  OBVIOUS
<1>7. 1 \in DOMAIN proto /\ proto[1] = "size" /\ 0 = Offset(1)
  BY <1>3, <1>4
<1>8. /\ P[1].at = 0 /\ P[1].dir = "in"
      /\ P[2].at = 4 /\ P[2].dir = "out"
      /\ P[3].at = 8 /\ P[3].dir = "in"
  BY <1>1 DEF InLong, InText, OutArray, Param
<1>9. \A i \in DOMAIN proto : \E m \in 1 .. 3 :
        P[m].at = Offset(i) /\ P[m].dir = (IF proto[i] = "room" THEN "out" ELSE "in")
  BY <1>3, <1>4, <1>8
<1>10. Fits(P, proto, FALSE, 0)
  BY <1>1, <1>2, <1>3, <1>5, <1>6, <1>7, <1>8, <1>9 DEF Fits
<1> QED
  BY <1>10 DEF P, proto

\* What the entries say.
LEMMA FileClientEntries ==
  /\ CProc("file", "serv_login").num = 0 /\ CProc("file", "serv_login").params = LoginParams
  /\ CProc("file", "serv_remove").num = 1 /\ CProc("file", "serv_remove").params = PathParams
  /\ CProc("file", "serv_download").num = 2 /\ CProc("file", "serv_download").params = DownloadParams
  /\ CProc("file", "serv_upload").num = 3 /\ CProc("file", "serv_upload").params = UploadParams
  /\ CProc("file", "serv_get_file_size").num = 4 /\ CProc("file", "serv_get_file_size").params = PathParams
<1>1. CProc("file", "serv_login") = FileClientLogin
  BY DEF CProc, Client, FileClient, FileClientCalls
<1>2. FileClientLogin.num = 0 /\ FileClientLogin.params = LoginParams
  BY DEF FileClientLogin, Proc, LoginParams
<1>3. CProc("file", "serv_remove") = FileClientRemove
  BY DEF CProc, Client, FileClient, FileClientCalls
<1>4. FileClientRemove.num = 1 /\ FileClientRemove.params = PathParams
  BY DEF FileClientRemove, Proc, PathParams
<1>5. CProc("file", "serv_download") = FileClientDownload
  BY DEF CProc, Client, FileClient, FileClientCalls
<1>6. FileClientDownload.num = 2 /\ FileClientDownload.params = DownloadParams
  BY DEF FileClientDownload, Proc, DownloadParams
<1>7. CProc("file", "serv_upload") = FileClientUpload
  BY DEF CProc, Client, FileClient, FileClientCalls
<1>8. FileClientUpload.num = 3 /\ FileClientUpload.params = UploadParams
  BY DEF FileClientUpload, Proc, UploadParams
<1>9. CProc("file", "serv_get_file_size") = FileClientSize
  BY DEF CProc, Client, FileClient, FileClientCalls
<1>10. FileClientSize.num = 4 /\ FileClientSize.params = PathParams
  BY DEF FileClientSize, Proc, PathParams
<1> QED
  BY <1>1, <1>3, <1>5, <1>7, <1>9,
     <1>2, <1>4, <1>6, <1>8, <1>10

LEMMA FileServerEntries ==
  /\ SProc("file", 0).params = LoginParams /\ Server("file").routines[0 + 1] = "serv_login"
  /\ SProc("file", 1).params = PathParams /\ Server("file").routines[1 + 1] = "serv_remove"
  /\ SProc("file", 2).params = DownloadParams /\ Server("file").routines[2 + 1] = "serv_download"
  /\ SProc("file", 3).params = UploadParams /\ Server("file").routines[3 + 1] = "serv_upload"
  /\ SProc("file", 4).params = PathParams /\ Server("file").routines[4 + 1] = "serv_get_file_size"
<1>1. SProc("file", 0) = FileServerLogin
  BY DEF SProc, Server, FileServerStub, FileServerOffsets
<1>2. FileServerLogin.params = LoginParams
  BY DEF FileServerLogin, Proc, LoginParams
<1>3. Server("file").routines[0 + 1] = "serv_login"
  BY DEF Server, FileServerStub, FileServerRoutines
<1>4. SProc("file", 1) = FileServerRemove
  BY DEF SProc, Server, FileServerStub, FileServerOffsets
<1>5. FileServerRemove.params = PathParams
  BY DEF FileServerRemove, Proc, PathParams
<1>6. Server("file").routines[1 + 1] = "serv_remove"
  BY DEF Server, FileServerStub, FileServerRoutines
<1>7. SProc("file", 2) = FileServerDownload
  BY DEF SProc, Server, FileServerStub, FileServerOffsets
<1>8. FileServerDownload.params = DownloadParams
  BY DEF FileServerDownload, Proc, DownloadParams
<1>9. Server("file").routines[2 + 1] = "serv_download"
  BY DEF Server, FileServerStub, FileServerRoutines
<1>10. SProc("file", 3) = FileServerUpload
  BY DEF SProc, Server, FileServerStub, FileServerOffsets
<1>11. FileServerUpload.params = UploadParams
  BY DEF FileServerUpload, Proc, UploadParams
<1>12. Server("file").routines[3 + 1] = "serv_upload"
  BY DEF Server, FileServerStub, FileServerRoutines
<1>13. SProc("file", 4) = FileServerSize
  BY DEF SProc, Server, FileServerStub, FileServerOffsets
<1>14. FileServerSize.params = PathParams
  BY DEF FileServerSize, Proc, PathParams
<1>15. Server("file").routines[4 + 1] = "serv_get_file_size"
  BY DEF Server, FileServerStub, FileServerRoutines
<1> QED
  BY <1>1, <1>4, <1>7, <1>10, <1>13,
     <1>2, <1>5, <1>8, <1>11, <1>14,
     <1>3, <1>6, <1>9, <1>12, <1>15

LEMMA InfoClientEntries ==
  /\ CProc("info", "serv_login").num = 0 /\ CProc("info", "serv_login").params = LoginParams
  /\ CProc("info", "serv_os_version").num = 1 /\ CProc("info", "serv_os_version").params = ReportParams
  /\ CProc("info", "serv_current_time").num = 2 /\ CProc("info", "serv_current_time").params = ReportParams
  /\ CProc("info", "serv_os_time").num = 3 /\ CProc("info", "serv_os_time").params = ReportParams
  /\ CProc("info", "serv_memory_status").num = 4 /\ CProc("info", "serv_memory_status").params = ReportParams
  /\ CProc("info", "serv_disks_types").num = 5 /\ CProc("info", "serv_disks_types").params = ReportParams
  /\ CProc("info", "serv_free_space").num = 6 /\ CProc("info", "serv_free_space").params = ReportParams
  /\ CProc("info", "serv_file_owner").num = 7 /\ CProc("info", "serv_file_owner").params = FileParams
  /\ CProc("info", "serv_file_access_right").num = 8 /\ CProc("info", "serv_file_access_right").params = FileParams
<1>1. CProc("info", "serv_login") = InfoClientLogin
  BY DEF CProc, Client, InfoClient, InfoClientCalls
<1>2. InfoClientLogin.num = 0 /\ InfoClientLogin.params = LoginParams
  BY DEF InfoClientLogin, Proc, LoginParams
<1>3. CProc("info", "serv_os_version") = InfoClientVersion
  BY DEF CProc, Client, InfoClient, InfoClientCalls
<1>4. InfoClientVersion.num = 1 /\ InfoClientVersion.params = ReportParams
  BY DEF InfoClientVersion, Proc, ReportParams
<1>5. CProc("info", "serv_current_time") = InfoClientTime
  BY DEF CProc, Client, InfoClient, InfoClientCalls
<1>6. InfoClientTime.num = 2 /\ InfoClientTime.params = ReportParams
  BY DEF InfoClientTime, Proc, ReportParams
<1>7. CProc("info", "serv_os_time") = InfoClientUptime
  BY DEF CProc, Client, InfoClient, InfoClientCalls
<1>8. InfoClientUptime.num = 3 /\ InfoClientUptime.params = ReportParams
  BY DEF InfoClientUptime, Proc, ReportParams
<1>9. CProc("info", "serv_memory_status") = InfoClientMemory
  BY DEF CProc, Client, InfoClient, InfoClientCalls
<1>10. InfoClientMemory.num = 4 /\ InfoClientMemory.params = ReportParams
  BY DEF InfoClientMemory, Proc, ReportParams
<1>11. CProc("info", "serv_disks_types") = InfoClientDisks
  BY DEF CProc, Client, InfoClient, InfoClientCalls
<1>12. InfoClientDisks.num = 5 /\ InfoClientDisks.params = ReportParams
  BY DEF InfoClientDisks, Proc, ReportParams
<1>13. CProc("info", "serv_free_space") = InfoClientSpace
  BY DEF CProc, Client, InfoClient, InfoClientCalls
<1>14. InfoClientSpace.num = 6 /\ InfoClientSpace.params = ReportParams
  BY DEF InfoClientSpace, Proc, ReportParams
<1>15. CProc("info", "serv_file_owner") = InfoClientOwner
  BY DEF CProc, Client, InfoClient, InfoClientCalls
<1>16. InfoClientOwner.num = 7 /\ InfoClientOwner.params = FileParams
  BY DEF InfoClientOwner, Proc, FileParams
<1>17. CProc("info", "serv_file_access_right") = InfoClientRights
  BY DEF CProc, Client, InfoClient, InfoClientCalls
<1>18. InfoClientRights.num = 8 /\ InfoClientRights.params = FileParams
  BY DEF InfoClientRights, Proc, FileParams
<1> QED
  BY <1>1, <1>3, <1>5, <1>7, <1>9, <1>11, <1>13, <1>15, <1>17,
     <1>2, <1>4, <1>6, <1>8, <1>10, <1>12, <1>14, <1>16, <1>18

LEMMA InfoServerEntries ==
  /\ SProc("info", 0).params = LoginParams /\ Server("info").routines[0 + 1] = "serv_login"
  /\ SProc("info", 1).params = ReportParams /\ Server("info").routines[1 + 1] = "serv_os_version"
  /\ SProc("info", 2).params = ReportParams /\ Server("info").routines[2 + 1] = "serv_current_time"
  /\ SProc("info", 3).params = ReportParams /\ Server("info").routines[3 + 1] = "serv_os_time"
  /\ SProc("info", 4).params = ReportParams /\ Server("info").routines[4 + 1] = "serv_memory_status"
  /\ SProc("info", 5).params = ReportParams /\ Server("info").routines[5 + 1] = "serv_disks_types"
  /\ SProc("info", 6).params = ReportParams /\ Server("info").routines[6 + 1] = "serv_free_space"
  /\ SProc("info", 7).params = FileParams /\ Server("info").routines[7 + 1] = "serv_file_owner"
  /\ SProc("info", 8).params = FileParams /\ Server("info").routines[8 + 1] = "serv_file_access_right"
<1>1. SProc("info", 0) = InfoServerLogin
  BY DEF SProc, Server, InfoServerStub, InfoServerOffsets
<1>2. InfoServerLogin.params = LoginParams
  BY DEF InfoServerLogin, Proc, LoginParams
<1>3. Server("info").routines[0 + 1] = "serv_login"
  BY DEF Server, InfoServerStub, InfoServerRoutines
<1>4. SProc("info", 1) = InfoServerVersion
  BY DEF SProc, Server, InfoServerStub, InfoServerOffsets
<1>5. InfoServerVersion.params = ReportParams
  BY DEF InfoServerVersion, Proc, ReportParams
<1>6. Server("info").routines[1 + 1] = "serv_os_version"
  BY DEF Server, InfoServerStub, InfoServerRoutines
<1>7. SProc("info", 2) = InfoServerTime
  BY DEF SProc, Server, InfoServerStub, InfoServerOffsets
<1>8. InfoServerTime.params = ReportParams
  BY DEF InfoServerTime, Proc, ReportParams
<1>9. Server("info").routines[2 + 1] = "serv_current_time"
  BY DEF Server, InfoServerStub, InfoServerRoutines
<1>10. SProc("info", 3) = InfoServerUptime
  BY DEF SProc, Server, InfoServerStub, InfoServerOffsets
<1>11. InfoServerUptime.params = ReportParams
  BY DEF InfoServerUptime, Proc, ReportParams
<1>12. Server("info").routines[3 + 1] = "serv_os_time"
  BY DEF Server, InfoServerStub, InfoServerRoutines
<1>13. SProc("info", 4) = InfoServerMemory
  BY DEF SProc, Server, InfoServerStub, InfoServerOffsets
<1>14. InfoServerMemory.params = ReportParams
  BY DEF InfoServerMemory, Proc, ReportParams
<1>15. Server("info").routines[4 + 1] = "serv_memory_status"
  BY DEF Server, InfoServerStub, InfoServerRoutines
<1>16. SProc("info", 5) = InfoServerDisks
  BY DEF SProc, Server, InfoServerStub, InfoServerOffsets
<1>17. InfoServerDisks.params = ReportParams
  BY DEF InfoServerDisks, Proc, ReportParams
<1>18. Server("info").routines[5 + 1] = "serv_disks_types"
  BY DEF Server, InfoServerStub, InfoServerRoutines
<1>19. SProc("info", 6) = InfoServerSpace
  BY DEF SProc, Server, InfoServerStub, InfoServerOffsets
<1>20. InfoServerSpace.params = ReportParams
  BY DEF InfoServerSpace, Proc, ReportParams
<1>21. Server("info").routines[6 + 1] = "serv_free_space"
  BY DEF Server, InfoServerStub, InfoServerRoutines
<1>22. SProc("info", 7) = InfoServerOwner
  BY DEF SProc, Server, InfoServerStub, InfoServerOffsets
<1>23. InfoServerOwner.params = FileParams
  BY DEF InfoServerOwner, Proc, FileParams
<1>24. Server("info").routines[7 + 1] = "serv_file_owner"
  BY DEF Server, InfoServerStub, InfoServerRoutines
<1>25. SProc("info", 8) = InfoServerRights
  BY DEF SProc, Server, InfoServerStub, InfoServerOffsets
<1>26. InfoServerRights.params = FileParams
  BY DEF InfoServerRights, Proc, FileParams
<1>27. Server("info").routines[8 + 1] = "serv_file_access_right"
  BY DEF Server, InfoServerStub, InfoServerRoutines
<1> QED
  BY <1>1, <1>4, <1>7, <1>10, <1>13, <1>16, <1>19, <1>22, <1>25,
     <1>2, <1>5, <1>8, <1>11, <1>14, <1>17, <1>20, <1>23, <1>26,
     <1>3, <1>6, <1>9, <1>12, <1>15, <1>18, <1>21, <1>24, <1>27

\* Two copies of an entry with the same parameters, which fit the prototype.
LEMMA AlikeFrom ==
  ASSUME NEW s, NEW r \in DOMAIN Prototypes(s), NEW P, NEW n, NEW proto, NEW ret \in BOOLEAN, NEW corr,
         CProc(s, r).num = n, CProc(s, r).params = P, SProc(s, n).params = P,
         n < Server(s).count, Server(s).routines[n + 1] = r,
         Server(s).types.array = corr, Client(s).types.array = corr,
         Prototypes(s)[r] = proto, r \in Returns(s) <=> ret, Fits(P, proto, ret, corr)
  PROVE  Alike(s, s, r)
<1>1. Fits(P, proto, r \in Returns(s), corr)
  BY DEF Fits
<1> QED
  BY <1>1 DEF Alike

\* The two copies of the file server's tables agree.
LEMMA FileAlike ==
  ASSUME NEW r \in DOMAIN FilePrototypes
  PROVE  Alike("file", "file", r)
<1>1. /\ Prototypes("file") = FilePrototypes /\ Returns("file") = DOMAIN FilePrototypes
      /\ Server("file").count = 5 /\ Server("file").types.array = 8 /\ Client("file").types.array = 8
  BY DEF Prototypes, Returns, FileReturns, Server, Client, FileServerStub, FileServerCount, FileClient,
         FileServerTypes, FileClientTypes, Types
<1>2. r \in {"serv_login", "serv_remove", "serv_download", "serv_upload", "serv_get_file_size"}
  BY DEF FilePrototypes
<1>3. r \in Returns("file") <=> TRUE
  BY <1>1
<1>4. CASE r = "serv_login"
  <2>1. /\ CProc("file", r).num = 0 /\ CProc("file", r).params = LoginParams
        /\ SProc("file", 0).params = LoginParams /\ Server("file").routines[0 + 1] = r
    BY <1>4, FileClientEntries, FileServerEntries
  <2>2. FilePrototypes[r] = <<"text", "text">>
    BY <1>4 DEF FilePrototypes
  <2>3. Fits(LoginParams, <<"text", "text">>, TRUE, 8)
    BY FitsLogin
  <2>4. 0 < 5
    OBVIOUS
  <2> QED
    BY <1>1, <1>3, <1>4, <2>1, <2>2, <2>3, <2>4, AlikeFrom
<1>5. CASE r = "serv_remove"
  <2>1. /\ CProc("file", r).num = 1 /\ CProc("file", r).params = PathParams
        /\ SProc("file", 1).params = PathParams /\ Server("file").routines[1 + 1] = r
    BY <1>5, FileClientEntries, FileServerEntries
  <2>2. FilePrototypes[r] = <<"text">>
    BY <1>5 DEF FilePrototypes
  <2>3. Fits(PathParams, <<"text">>, TRUE, 8)
    BY FitsPath
  <2>4. 1 < 5
    OBVIOUS
  <2> QED
    BY <1>1, <1>3, <1>5, <2>1, <2>2, <2>3, <2>4, AlikeFrom
<1>6. CASE r = "serv_download"
  <2>1. /\ CProc("file", r).num = 2 /\ CProc("file", r).params = DownloadParams
        /\ SProc("file", 2).params = DownloadParams /\ Server("file").routines[2 + 1] = r
    BY <1>6, FileClientEntries, FileServerEntries
  <2>2. FilePrototypes[r] = <<"text", "room", "size">>
    BY <1>6 DEF FilePrototypes
  <2>3. Fits(DownloadParams, <<"text", "room", "size">>, TRUE, 8)
    BY FitsDownload
  <2>4. 2 < 5
    OBVIOUS
  <2> QED
    BY <1>1, <1>3, <1>6, <2>1, <2>2, <2>3, <2>4, AlikeFrom
<1>7. CASE r = "serv_upload"
  <2>1. /\ CProc("file", r).num = 3 /\ CProc("file", r).params = UploadParams
        /\ SProc("file", 3).params = UploadParams /\ Server("file").routines[3 + 1] = r
    BY <1>7, FileClientEntries, FileServerEntries
  <2>2. FilePrototypes[r] = <<"text", "bytes", "size">>
    BY <1>7 DEF FilePrototypes
  <2>3. Fits(UploadParams, <<"text", "bytes", "size">>, TRUE, 8)
    BY FitsUpload
  <2>4. 3 < 5
    OBVIOUS
  <2> QED
    BY <1>1, <1>3, <1>7, <2>1, <2>2, <2>3, <2>4, AlikeFrom
<1>8. CASE r = "serv_get_file_size"
  <2>1. /\ CProc("file", r).num = 4 /\ CProc("file", r).params = PathParams
        /\ SProc("file", 4).params = PathParams /\ Server("file").routines[4 + 1] = r
    BY <1>8, FileClientEntries, FileServerEntries
  <2>2. FilePrototypes[r] = <<"text">>
    BY <1>8 DEF FilePrototypes
  <2>3. Fits(PathParams, <<"text">>, TRUE, 8)
    BY FitsPath
  <2>4. 4 < 5
    OBVIOUS
  <2> QED
    BY <1>1, <1>3, <1>8, <2>1, <2>2, <2>3, <2>4, AlikeFrom
<1> QED
  BY <1>2, <1>4, <1>5, <1>6, <1>7, <1>8

\* Those of the information server do.
LEMMA InfoAlike ==
  ASSUME NEW r \in DOMAIN InfoPrototypes
  PROVE  Alike("info", "info", r)
<1>1. /\ Prototypes("info") = InfoPrototypes /\ Returns("info") = {"serv_login"}
      /\ Server("info").count = 9 /\ Server("info").types.array = 0 /\ Client("info").types.array = 0
  BY DEF Prototypes, Returns, InfoReturns, Server, Client, InfoServerStub, InfoServerCount, InfoClient,
         InfoServerTypes, InfoClientTypes, Types
<1>2. r \in {"serv_login", "serv_os_version", "serv_current_time", "serv_os_time", "serv_memory_status",
             "serv_disks_types", "serv_free_space", "serv_file_owner", "serv_file_access_right"}
  BY DEF InfoPrototypes
<1>3. r \in Returns("info") <=> r = "serv_login"
  BY <1>1
<1>4. CASE r = "serv_login"
  <2>1. /\ CProc("info", r).num = 0 /\ CProc("info", r).params = LoginParams
        /\ SProc("info", 0).params = LoginParams /\ Server("info").routines[0 + 1] = r
    BY <1>4, InfoClientEntries, InfoServerEntries
  <2>2. InfoPrototypes[r] = <<"text", "text">>
    BY <1>4 DEF InfoPrototypes
  <2>3. Fits(LoginParams, <<"text", "text">>, TRUE, 0)
    BY FitsLogin
  <2>4. 0 < 9
    OBVIOUS
  <2> QED
    BY <1>1, <1>3, <1>4, <2>1, <2>2, <2>3, <2>4, AlikeFrom
<1>5. CASE r = "serv_file_owner"
  <2>1. /\ CProc("info", r).num = 7 /\ CProc("info", r).params = FileParams
        /\ SProc("info", 7).params = FileParams /\ Server("info").routines[7 + 1] = r
    BY <1>5, InfoClientEntries, InfoServerEntries
  <2>2. InfoPrototypes[r] = <<"size", "room", "text">>
    BY <1>5 DEF InfoPrototypes
  <2>3. Fits(FileParams, <<"size", "room", "text">>, FALSE, 0)
    BY FitsFile
  <2>4. 7 < 9
    OBVIOUS
  <2> QED
    BY <1>1, <1>3, <1>5, <2>1, <2>2, <2>3, <2>4, AlikeFrom
<1>6. CASE r = "serv_file_access_right"
  <2>1. /\ CProc("info", r).num = 8 /\ CProc("info", r).params = FileParams
        /\ SProc("info", 8).params = FileParams /\ Server("info").routines[8 + 1] = r
    BY <1>6, InfoClientEntries, InfoServerEntries
  <2>2. InfoPrototypes[r] = <<"size", "room", "text">>
    BY <1>6 DEF InfoPrototypes
  <2>3. Fits(FileParams, <<"size", "room", "text">>, FALSE, 0)
    BY FitsFile
  <2>4. 8 < 9
    OBVIOUS
  <2> QED
    BY <1>1, <1>3, <1>6, <2>1, <2>2, <2>3, <2>4, AlikeFrom
<1>7. CASE r \notin {"serv_login", "serv_file_owner", "serv_file_access_right"}
  <2>1. PICK n \in 1 .. 6 :
          /\ CProc("info", r).num = n /\ CProc("info", r).params = ReportParams
          /\ SProc("info", n).params = ReportParams /\ Server("info").routines[n + 1] = r
    BY <1>2, <1>7, InfoClientEntries, InfoServerEntries
  <2>2. InfoPrototypes[r] = <<"size", "room">>
    BY <1>2, <1>7 DEF InfoPrototypes
  <2>3. Fits(ReportParams, <<"size", "room">>, FALSE, 0)
    BY FitsReport
  <2>4. n < 9
    OBVIOUS
  <2> QED
    BY <1>1, <1>3, <1>7, <2>1, <2>2, <2>3, <2>4, AlikeFrom
<1> QED
  BY <1>4, <1>5, <1>6, <1>7

\* Of the calls of an information client only serv_login finds its like at a file
\* server; the others are refused by their number or by their first parameter.
Refused(r) ==
  LET C == CProc("info", r)
  IN  /\ C.num \in Nat
      /\ C.num < Server("file").count =>
           /\ C.params[1] = InLong(0) /\ Len(C.params) \in Nat \ {0}
           /\ SProc("file", C.num).params[1] = InText(0)

LEMMA StrayAlike == Alike("info", "file", "serv_login")
<1> DEFINE r == "serv_login"
<1>1. /\ Prototypes("file")[r] = <<"text", "text">> /\ Prototypes("info")[r] = <<"text", "text">>
      /\ r \in DOMAIN Prototypes("file") /\ r \in DOMAIN Prototypes("info")
      /\ (r \in Returns("file") <=> TRUE) /\ (r \in Returns("info") <=> TRUE)
  BY DEF Prototypes, FilePrototypes, InfoPrototypes, Returns, FileReturns, InfoReturns
<1>2. Server("file").count = 5
  BY DEF Server, FileServerStub, FileServerCount
<1>3. /\ CProc("info", r).num = 0 /\ CProc("info", r).params = LoginParams
      /\ SProc("file", 0).params = LoginParams /\ Server("file").routines[0 + 1] = r
  BY InfoClientEntries, FileServerEntries
<1>4. /\ Fits(LoginParams, <<"text", "text">>, TRUE, Client("info").types.array)
      /\ \A m \in 1 .. 3 : LoginParams[m].type # ArrayType
  BY FitsLogin
<1>5. Len(LoginParams) = 3
  BY DEF LoginParams
<1>6. Fits(LoginParams, <<"text", "text">>, r \in Returns("info"), Client("info").types.array)
  BY <1>1, <1>4 DEF Fits
<1>7. CProc("info", r).num < Server("file").count
  BY <1>2, <1>3
<1>8. ~ (\E m \in 1 .. Len(LoginParams) : LoginParams[m].type = ArrayType)
  BY <1>4, <1>5
<1> HIDE DEF r
<1>9. Alike("info", "file", r)
  BY <1>1, <1>3, <1>6, <1>7, <1>8 DEF Alike
<1> QED
  BY <1>9 DEF r

LEMMA StrayRefused ==
  ASSUME NEW r \in DOMAIN InfoPrototypes, r # "serv_login"
  PROVE  Refused(r)
<1>1. Server("file").count = 5
  BY DEF Server, FileServerStub, FileServerCount
<1>2. r \in {"serv_os_version", "serv_current_time", "serv_os_time", "serv_memory_status",
             "serv_disks_types", "serv_free_space", "serv_file_owner", "serv_file_access_right"}
  BY DEF InfoPrototypes
<1>3. \/ CProc("info", r).num \in 7 .. 8
      \/ CProc("info", r).num \in 1 .. 6 /\ CProc("info", r).params = ReportParams
  BY <1>2, InfoClientEntries
<1>4. ReportParams[1] = InLong(0) /\ Len(ReportParams) = 2
  BY DEF ReportParams
<1>5. \A n \in 1 .. 4 : SProc("file", n).params[1] = InText(0)
  <2>1. PathParams[1] = InText(0) /\ DownloadParams[1] = InText(0) /\ UploadParams[1] = InText(0)
    BY DEF PathParams, DownloadParams, UploadParams
  <2>2. \A n \in 1 .. 4 : n = 1 \/ n = 2 \/ n = 3 \/ n = 4
    OBVIOUS
  <2> QED
    BY <2>1, <2>2, FileServerEntries
<1>6. CASE CProc("info", r).num \in 7 .. 8
  <2>1. CProc("info", r).num \in Nat /\ ~ (CProc("info", r).num < 5)
    BY <1>6
  <2> QED
    BY <1>1, <2>1 DEF Refused
<1>7. CASE CProc("info", r).num \in 1 .. 6 /\ CProc("info", r).params = ReportParams
  <2>1. CProc("info", r).num \in Nat /\ (CProc("info", r).num < 5 => CProc("info", r).num \in 1 .. 4)
    BY <1>7
  <2>2. CProc("info", r).params[1] = InLong(0) /\ Len(CProc("info", r).params) \in Nat \ {0}
    BY <1>4, <1>7
  <2> QED
    BY <1>1, <1>5, <2>1, <2>2 DEF Refused
<1> QED
  BY <1>3, <1>6, <1>7

LEMMA ClientFits ==
  ASSUME NEW c \in {"file", "info"}, NEW r \in DOMAIN Prototypes(c)
  PROVE  Fits(CProc(c, r).params, Prototypes(c)[r], r \in Returns(c), Client(c).types.array)
<1>1. Alike(c, c, r)
  BY FileAlike, InfoAlike DEF Prototypes
<1> QED
  BY <1>1 DEF Alike

-----------------------------------------------------------------------------
(* The frames.                                                             *)

\* f holds the arguments of a prototype whose sizes are n.
FrameOf(f, proto, n) ==
  /\ f = [at \in {Offset(i) : i \in DOMAIN proto} |-> f[at]]
  /\ \A i \in DOMAIN proto :
       /\ proto[i] = "text" => \E v : f[Offset(i)] = Arg("text", v)
       /\ proto[i] = "size" => f[Offset(i)] = Arg("long", n)
       /\ proto[i] = "bytes" => \E b : f[Offset(i)] = Arg("bytes", [j \in 1 .. n |-> b])
       /\ proto[i] = "room" => f[Offset(i)] = Arg("room", n)

LEMMA FramesAre ==
  ASSUME NEW proto, NEW t, NEW b, NEW n,
         \A i \in DOMAIN proto : i \in Nat \ {0} /\ proto[i] \in {"text", "size", "bytes", "room"}
  PROVE  FrameOf(Frames(proto, t, b, n), proto, n)
<1> DEFINE Value(i) == CASE proto[i] = "text"  -> Arg("text", t[i])
                         [] proto[i] = "size"  -> Arg("long", n)
                         [] proto[i] = "bytes" -> Arg("bytes", [j \in 1..n |-> b])
                         [] proto[i] = "room"  -> Arg("room", n)
           f == Frames(proto, t, b, n)
           Ats == {Offset(i) : i \in DOMAIN proto}
<1>1. f = [at \in Ats |-> Value(at \div 4 + 1)]
  BY DEF Frames
<1>2. \A i \in DOMAIN proto : Offset(i) \in Ats /\ Offset(i) \div 4 + 1 = i
  BY DEF Offset
<1>3. ASSUME NEW i \in DOMAIN proto
      PROVE  /\ proto[i] = "text" => Value(i) = Arg("text", t[i])
             /\ proto[i] = "size" => Value(i) = Arg("long", n)
             /\ proto[i] = "bytes" => Value(i) = Arg("bytes", [j \in 1..n |-> b])
             /\ proto[i] = "room" => Value(i) = Arg("room", n)
  OBVIOUS
<1> HIDE DEF f, Value
<1>4. \A i \in DOMAIN proto : f[Offset(i)] = Value(i)
  BY <1>1, <1>2
<1>5. f = [at \in Ats |-> f[at]]
  BY <1>1
<1>6. ASSUME NEW i \in DOMAIN proto
      PROVE  /\ proto[i] = "text" => \E v : f[Offset(i)] = Arg("text", v)
             /\ proto[i] = "size" => f[Offset(i)] = Arg("long", n)
             /\ proto[i] = "bytes" => \E c : f[Offset(i)] = Arg("bytes", [j \in 1 .. n |-> c])
             /\ proto[i] = "room" => f[Offset(i)] = Arg("room", n)
  BY <1>3, <1>4
<1> QED
  BY <1>5, <1>6 DEF FrameOf, f

\* An array takes its length from the size it comes with.
LEMMA SizeOfArray ==
  ASSUME NEW P, NEW proto, NEW ret, NEW corr, Fits(P, proto, ret, corr), NEW f, NEW n, FrameOf(f, proto, n),
         NEW q \in 1 .. Len(P), P[q].type = ArrayType
  PROVE  /\ corr \in DOMAIN f /\ Number(f, corr) = n /\ f[corr] = Arg("long", n)
         /\ \E m \in 1 .. Len(P) : P[m].dir = "in" /\ P[m].at = corr
<1>1. PICK i \in DOMAIN proto : proto[i] = "size" /\ corr = Offset(i)
  BY DEF Fits
<1>2. corr \in DOMAIN f /\ f[corr] = Arg("long", n)
  BY <1>1 DEF FrameOf
<1>3. \E m \in 1 .. Len(P) : P[m].dir = "in" /\ P[m].at = corr
  BY <1>1 DEF Fits
<1>4. Number(f, corr) = n
  BY <1>2 DEF Number, Arg
<1> QED
  BY <1>2, <1>3, <1>4

\* The item a parameter travels as is the argument itself.
LEMMA ItemIsArgument ==
  ASSUME NEW P, NEW proto, NEW ret, NEW corr, Fits(P, proto, ret, corr),
         NEW f, NEW n \in Nat, FrameOf(f, proto, n),
         NEW m \in 1 .. Len(P), P[m].dir = "in"
  PROVE  LET p == P[m]
             v == IF p.type = ArrayType THEN SubSeq(f[p.at].v, 1, Number(f, corr)) ELSE f[p.at].v
         IN  /\ p.at \in DOMAIN f /\ Arg(ItemKind(p), v) = f[p.at] /\ f[p.at].kind = ItemKind(p)
             /\ p.type = ArrayType => Len(f[p.at].v) = n
<1> DEFINE p == P[m]
           a == f[p.at]
<1>1. GoesIn(p, proto)
  BY DEF Fits, ComesOut, IsReturned
<1>2. PICK i \in DOMAIN proto :
        /\ p.at = Offset(i)
        /\ \/ proto[i] = "text" /\ p.type = TextType
           \/ proto[i] = "size" /\ p.type = NoType
           \/ proto[i] = "bytes" /\ p.type = ArrayType
  BY <1>1 DEF GoesIn
<1>3. p.at \in DOMAIN f
  BY <1>2 DEF FrameOf
<1>4. ItemKind(p) = IF p.type = NoType THEN "long" ELSE IF p.type = TextType THEN "text" ELSE "bytes"
  BY <1>2 DEF ItemKind, NoType, TextType, ArrayType
<1>5. CASE proto[i] = "text" /\ p.type = TextType
  <2>1. PICK v : a = Arg("text", v)
    BY <1>2, <1>5 DEF FrameOf
  <2> HIDE DEF a
  <2>2. a.kind = "text" /\ a.v = v
    BY <2>1 DEF Arg
  <2>3. ItemKind(p) = "text" /\ p.type # ArrayType
    BY <1>4, <1>5 DEF NoType, TextType, ArrayType
  <2> HIDE DEF p
  <2> QED
    BY <1>3, <2>1, <2>2, <2>3 DEF a, p
<1>6. CASE proto[i] = "size" /\ p.type = NoType
  <2>1. a = Arg("long", n)
    BY <1>2, <1>6 DEF FrameOf
  <2> HIDE DEF a
  <2>2. a.kind = "long" /\ a.v = n
    BY <2>1 DEF Arg
  <2>3. ItemKind(p) = "long" /\ p.type # ArrayType
    BY <1>4, <1>6 DEF NoType, TextType, ArrayType
  <2> HIDE DEF p
  <2> QED
    BY <1>3, <2>1, <2>2, <2>3 DEF a, p
<1>7. CASE proto[i] = "bytes" /\ p.type = ArrayType
  <2>1. PICK b : a = Arg("bytes", [j \in 1 .. n |-> b])
    BY <1>2, <1>7 DEF FrameOf
  <2> HIDE DEF a
  <2>2. a.kind = "bytes" /\ a.v = [j \in 1 .. n |-> b]
    BY <2>1 DEF Arg
  <2>3. ItemKind(p) = "bytes"
    BY <1>4, <1>7 DEF NoType, TextType, ArrayType
  <2>4. Number(f, corr) = n
    BY <1>7, SizeOfArray
  <2>5. Len(a.v) = n /\ SubSeq(a.v, 1, n) = a.v
    <3>1. a.v \in Seq({b}) /\ Len(a.v) = n
      BY <2>2
    <3>2. SubSeq(a.v, 1, n) = a.v
      BY <2>2, <3>1
    <3> QED
      BY <3>1, <3>2
  <2> HIDE DEF p
  <2> QED
    BY <1>3, <1>7, <2>1, <2>2, <2>3, <2>4, <2>5 DEF a, p
<1> QED
  BY <1>2, <1>5, <1>6, <1>7

\* The parameters that come out or return something.
LEMMA OutItems ==
  ASSUME NEW P, NEW proto, NEW ret, NEW corr, Fits(P, proto, ret, corr), NEW m \in 1 .. Len(P)
  PROVE  /\ P[m].dir \in {"in", "out", "return"}
         /\ P[m].dir = "out" => P[m].type = ArrayType /\ ItemKind(P[m]) = "bytes"
         /\ P[m].dir = "return" => P[m].type # ArrayType /\ ItemKind(P[m]) = "long"
<1>1. GoesIn(P[m], proto) \/ ComesOut(P[m], proto) \/ IsReturned(P[m])
  BY DEF Fits
<1> QED
  BY <1>1 DEF GoesIn, ComesOut, IsReturned, ItemKind, NoType, TextType, ArrayType

\* sf holds the arguments of f that the parameters before j bring.
Brought(P, j) == {P[m].at : m \in {q \in 1 .. j - 1 : P[q].dir = "in"}}
Taken(sf, f, P, j) == sf = [at \in Brought(P, j) |-> f[at]]

LEMMA NothingTaken ==
  ASSUME NEW P, NEW f
  PROVE  Taken(<<>>, f, P, 1)
<1>1. Brought(P, 1) = {}
  BY DEF Brought
<1>2. [at \in {} |-> f[at]] = <<>>
  OBVIOUS
<1> QED
  BY <1>1, <1>2 DEF Taken

\* The frame sf with v at x; with buffers of the given size at rooms.
Set(sf, x, v) == [at \in DOMAIN sf \cup {x} |-> IF at = x THEN v ELSE sf[at]]
Roomy(sf, rooms, size) == [at \in DOMAIN sf \cup rooms |-> IF at \in rooms THEN Arg("room", size) ELSE sf[at]]

LEMMA TakeArgument ==
  ASSUME NEW P, NEW f, NEW sf, NEW j \in Nat \ {0}, Taken(sf, f, P, j), P[j].dir = "in"
  PROVE  Taken(Set(sf, P[j].at, f[P[j].at]), f, P, j + 1)
<1> DEFINE B == Brought(P, j)
           x == P[j].at
<1>1. Brought(P, j + 1) = B \cup {x}
  <2>1. {q \in 1 .. (j + 1) - 1 : P[q].dir = "in"} = {q \in 1 .. j - 1 : P[q].dir = "in"} \cup {j}
    OBVIOUS
  <2> QED
    BY <2>1 DEF Brought
<1>2. DOMAIN sf = B /\ \A at \in B : sf[at] = f[at]
  BY DEF Taken
<1> HIDE DEF B, x
<1>3. Set(sf, x, f[x]) = [at \in B \cup {x} |-> f[at]]
  BY <1>2 DEF Set
<1> QED
  BY <1>1, <1>3 DEF Taken, x

LEMMA TakeNothing ==
  ASSUME NEW P, NEW f, NEW sf, NEW j \in Nat \ {0}, Taken(sf, f, P, j), P[j].dir # "in"
  PROVE  Taken(sf, f, P, j + 1)
<1>1. {q \in 1 .. (j + 1) - 1 : P[q].dir = "in"} = {q \in 1 .. j - 1 : P[q].dir = "in"}
  OBVIOUS
<1>2. Brought(P, j + 1) = Brought(P, j)
  BY <1>1 DEF Brought
<1> QED
  BY <1>2 DEF Taken

\* The arrays of an entry that go one way, and where their buffers stand.
ArraysOf(P, d) == {p \in {P[i] : i \in DOMAIN P} : p.dir = d /\ p.type = ArrayType}

\* The lengths the runtime compares agree, and where buffers are to stand.
LengthsAgree(sf, P, size) == \A p \in ArraysOf(P, "in") : Len(sf[p.at].v) = size
RoomsOf(P) == {p.at : p \in ArraysOf(P, "out")}

\* When all arguments have been taken and the buffers are allocated, the server
\* routine's frame is the caller's.  The lengths the runtime compares agree.
LEMMA AllocFrame ==
  ASSUME NEW P, NEW proto, NEW ret, NEW corr, Fits(P, proto, ret, corr),
         NEW f, NEW n \in Nat, FrameOf(f, proto, n), NEW sf, Taken(sf, f, P, Len(P) + 1),
         NEW scorr, (\E m \in 1 .. Len(P) : P[m].type = ArrayType) => scorr = corr,
         NEW size, size = Number(sf, scorr)
  PROVE  LengthsAgree(sf, P, size) /\ Roomy(sf, RoomsOf(P), size) = f
<1>0. PICK rooms : rooms = {p.at : p \in ArraysOf(P, "out")} /\ rooms = RoomsOf(P)
  BY DEF RoomsOf
<1> DEFINE L == Len(P)
           B == Brought(P, L + 1)
<1>1. DOMAIN P = 1 .. L /\ L \in Nat
  BY DEF Fits
<1>2. B = {P[m].at : m \in {q \in 1 .. L : P[q].dir = "in"}}
  <2>1. (L + 1) - 1 = L
    BY <1>1
  <2> QED
    BY <2>1 DEF Brought
<1>3. DOMAIN sf = B /\ \A at \in B : sf[at] = f[at]
  BY DEF Taken
<1> HIDE DEF B
<1>4. ASSUME NEW q \in 1 .. L, P[q].type = ArrayType
      PROVE  size = n
  <2>1. scorr = corr
    BY <1>4
  <2>2. /\ corr \in DOMAIN f /\ f[corr] = Arg("long", n)
        /\ \E m \in 1 .. L : P[m].dir = "in" /\ P[m].at = corr
    BY <1>4, SizeOfArray
  <2>3. corr \in B
    BY <1>2, <2>2
  <2>4. sf[corr] = Arg("long", n)
    BY <1>3, <2>2, <2>3
  <2> QED
    BY <1>3, <2>1, <2>3, <2>4 DEF Number, Arg
<1>5. ASSUME NEW p \in ArraysOf(P, "in")
      PROVE  Len(sf[p.at].v) = size
  <2>1. PICK m \in 1 .. L : p = P[m] /\ P[m].dir = "in" /\ P[m].type = ArrayType
    BY <1>1 DEF ArraysOf
  <2>2. Len(f[P[m].at].v) = n
    BY <2>1, ItemIsArgument
  <2>3. P[m].at \in B
    BY <1>2, <2>1
  <2> QED
    BY <1>3, <1>4, <2>1, <2>2, <2>3
<1>6. rooms = {P[m].at : m \in {q \in 1 .. L : P[q].dir = "out"}}
  <2>1. \A m \in 1 .. L : P[m].dir = "out" => P[m].type = ArrayType
    BY OutItems
  <2>2. \A m \in 1 .. L : P[m].dir = "out" => P[m] \in ArraysOf(P, "out")
    BY <1>1, <2>1 DEF ArraysOf
  <2>3. \A p \in ArraysOf(P, "out") : \E m \in 1 .. L : p = P[m] /\ P[m].dir = "out"
    BY <1>1 DEF ArraysOf
  <2> QED
    BY <1>0, <2>2, <2>3
<1>7. ASSUME NEW at \in rooms
      PROVE  f[at] = Arg("room", size) /\ at \in DOMAIN f
  <2>1. PICK m \in 1 .. L : at = P[m].at /\ P[m].dir = "out"
    BY <1>6
  <2>2. GoesIn(P[m], proto) \/ ComesOut(P[m], proto) \/ IsReturned(P[m])
    BY DEF Fits
  <2>3. ComesOut(P[m], proto)
    BY <2>1, <2>2 DEF GoesIn, IsReturned
  <2>4. PICK i \in DOMAIN proto : P[m].at = Offset(i) /\ proto[i] = "room"
    BY <2>3 DEF ComesOut
  <2>5. f[at] = Arg("room", n) /\ at \in DOMAIN f
    BY <2>1, <2>4 DEF FrameOf
  <2>6. size = n
    BY <1>4, <2>3 DEF ComesOut
  <2> QED
    BY <2>5, <2>6
<1>8. \A at \in B : at \in DOMAIN f
  <2>1. \A m \in 1 .. L : P[m].dir = "in" => P[m].at \in DOMAIN f
    BY ItemIsArgument
  <2> QED
    BY <1>2, <2>1
<1>9. DOMAIN f \subseteq B \cup rooms
  <2>1. ASSUME NEW i \in DOMAIN proto
        PROVE  Offset(i) \in B \cup rooms
    <3>1. PICK m \in 1 .. L : P[m].at = Offset(i) /\ P[m].dir = (IF proto[i] = "room" THEN "out" ELSE "in")
      BY DEF Fits
    <3> QED
      BY <1>2, <1>6, <3>1
  <2> QED
    BY <2>1 DEF FrameOf
<1>10. DOMAIN f = DOMAIN sf \cup rooms
  BY <1>3, <1>7, <1>8, <1>9
<1>11. \A at \in DOMAIN f : (IF at \in rooms THEN Arg("room", size) ELSE sf[at]) = f[at]
  BY <1>3, <1>7, <1>10
<1>12. f = [at \in DOMAIN f |-> f[at]]
  BY DEF FrameOf
<1>13. [at \in DOMAIN f |-> IF at \in rooms THEN Arg("room", size) ELSE sf[at]] = [at \in DOMAIN f |-> f[at]]
  BY <1>11
<1> QED
  BY <1>0, <1>5, <1>10, <1>12, <1>13 DEF Roomy, LengthsAgree

-----------------------------------------------------------------------------
(* The answer.                                                             *)

ReplyItem(p, pr) == IF p.dir = "out" THEN Arg("bytes", pr.out) ELSE Arg("long", pr.ret)
ReplyItems(P, pr) == [m \in 1 .. Len(P) |-> ReplyItem(P[m], pr)]
CallItems(P, f) == [m \in 1 .. Len(P) |-> f[P[m].at]]

\* pr is what a routine may leave whose entry is P, in a buffer of n bytes.
Made(pr, P, n) ==
  /\ \E r, o : pr = [ret |-> r, out |-> o]
  /\ (\E m \in 1 .. Len(P) : P[m].dir = "out") => Len(pr.out) = n
  /\ ~(\E m \in 1 .. Len(P) : P[m].dir = "out") => pr.out = <<>>
  /\ ~(\E m \in 1 .. Len(P) : P[m].dir = "return") => pr.ret = 0

\* g is the part of pr that the parameters before j bring back.
Got(g, pr, P, j) ==
  g = [ret |-> IF \E m \in 1 .. j - 1 : P[m].dir = "return" THEN pr.ret ELSE 0,
       out |-> IF \E m \in 1 .. j - 1 : P[m].dir = "out" THEN pr.out ELSE <<>>]

LEMMA GotNothing ==
  ASSUME NEW pr, NEW P
  PROVE  Got(Nothing, pr, P, 1)
<1>1. ~ (\E m \in 1 .. 1 - 1 : P[m].dir = "return") /\ ~ (\E m \in 1 .. 1 - 1 : P[m].dir = "out")
  OBVIOUS
<1> QED
  BY <1>1 DEF Got, Nothing

LEMMA GotNext ==
  ASSUME NEW g, NEW pr, NEW P, NEW j \in Nat \ {0}, Got(g, pr, P, j)
  PROVE  /\ P[j].dir = "in" => Got(g, pr, P, j + 1)
         /\ P[j].dir = "out" => Got([g EXCEPT !.out = pr.out], pr, P, j + 1)
         /\ P[j].dir = "return" => Got([g EXCEPT !.ret = pr.ret], pr, P, j + 1)
<1>1. \A d : (\E m \in 1 .. (j + 1) - 1 : P[m].dir = d)
             <=> (\E m \in 1 .. j - 1 : P[m].dir = d) \/ P[j].dir = d
  OBVIOUS
<1> DEFINE R == \E m \in 1 .. j - 1 : P[m].dir = "return"
           O == \E m \in 1 .. j - 1 : P[m].dir = "out"
           R2 == \E m \in 1 .. (j + 1) - 1 : P[m].dir = "return"
           O2 == \E m \in 1 .. (j + 1) - 1 : P[m].dir = "out"
<1>2. (R2 <=> R \/ P[j].dir = "return") /\ (O2 <=> O \/ P[j].dir = "out")
  BY <1>1
<1>3. g = [ret |-> IF R THEN pr.ret ELSE 0, out |-> IF O THEN pr.out ELSE <<>>]
  BY DEF Got
<1>4. \A h : Got(h, pr, P, j + 1) <=> h = [ret |-> IF R2 THEN pr.ret ELSE 0, out |-> IF O2 THEN pr.out ELSE <<>>]
  BY DEF Got
<1> HIDE DEF R, O, R2, O2
<1>5. CASE P[j].dir = "in"
  BY <1>2, <1>3, <1>4, <1>5
<1>6. CASE P[j].dir = "out"
  <2>1. [g EXCEPT !.out = pr.out] = [ret |-> IF R THEN pr.ret ELSE 0, out |-> pr.out]
    BY <1>3
  <2> QED
    BY <1>2, <1>4, <1>6, <2>1
<1>7. CASE P[j].dir = "return"
  <2>1. [g EXCEPT !.ret = pr.ret] = [ret |-> pr.ret, out |-> IF O THEN pr.out ELSE <<>>]
    BY <1>3
  <2> QED
    BY <1>2, <1>4, <1>7, <2>1
<1> QED
  BY <1>5, <1>6, <1>7

LEMMA GotAll ==
  ASSUME NEW g, NEW pr, NEW P, NEW n, Len(P) \in Nat, Made(pr, P, n), Got(g, pr, P, Len(P) + 1)
  PROVE  g = pr
<1>1. (Len(P) + 1) - 1 = Len(P)
  OBVIOUS
<1>2. PICK r, o : pr = [ret |-> r, out |-> o]
  BY DEF Made
<1>3. (IF \E m \in 1 .. Len(P) : P[m].dir = "return" THEN pr.ret ELSE 0) = r
  BY <1>2 DEF Made
<1>4. (IF \E m \in 1 .. Len(P) : P[m].dir = "out" THEN pr.out ELSE <<>>) = o
  BY <1>2 DEF Made
<1>5. g = [ret |-> IF \E m \in 1 .. Len(P) : P[m].dir = "return" THEN pr.ret ELSE 0,
           out |-> IF \E m \in 1 .. Len(P) : P[m].dir = "out" THEN pr.out ELSE <<>>]
  BY <1>1 DEF Got
<1> QED
  BY <1>2, <1>3, <1>4, <1>5

-----------------------------------------------------------------------------
(* The inductive invariant.                                                *)

In   == {"in"}
Back == {"out", "return"}

Systems == {<<"file", "file">>, <<"info", "info">>, <<"info", "file">>}

\* A call that a file server will refuse.
Stray ==
  /\ cl = "info" /\ sv = "file" /\ routine # "serv_login" /\ pc \in {"put", "dispatch", "take"}
  /\ pc = "take" => msg.num < ServerStub.count

\* The runtime is at parameter k where it walks over them.
Walking(P) ==
  /\ pc \in {"put", "take", "reply", "fetch"} => k \in 1 .. Len(P)
  /\ pc \in {"dispatch", "alloc", "run", "done"} => k = 1
  /\ pc = "take" /\ Stray => k = 1

\* What there is of the arguments: in the message, then in the server's frame.
Asking(P) ==
  /\ pc = "put" => Packed(msg.body, P, In, CallItems(P, frame), k)
  /\ pc = "dispatch" => ToUnpack(msg.body, P, In, CallItems(P, frame), 1, Len(P))
  /\ pc = "take" => ToUnpack(msg.body, P, In, CallItems(P, frame), k, Len(P)) /\ Taken(sframe, frame, P, k)
  /\ pc \in {"put", "dispatch"} => sframe = <<>>
  /\ pc = "alloc" => Taken(sframe, frame, P, Len(P) + 1)
  /\ pc = "run" => sframe = frame

\* What there is of the answer: in the message, then with the caller.
Answering(P, n) ==
  /\ pc \in {"put", "dispatch", "take", "alloc", "run", "reply"} => got = Nothing
  /\ pc \in {"reply", "fetch", "done"} => Made(produced, P, n)
  /\ pc = "reply" => Packed(msg.body, P, Back, ReplyItems(P, produced), k)
  /\ pc = "fetch" => /\ ToUnpack(msg.body, P, Back, ReplyItems(P, produced), k, Len(P))
                     /\ Got(got, produced, P, k)
  /\ pc = "done" => got = produced

\* A call with the parameters P and buffers of n bytes is under way.
Calling(P, n) ==
  /\ routine \in DOMAIN Prototypes(cl) /\ P = CProc(cl, routine).params
  /\ \E body : msg = [num |-> CProc(cl, routine).num, body |-> body]
  /\ FrameOf(frame, Prototypes(cl)[routine], n)
  /\ Alike(cl, sv, routine) \/ Stray
  /\ Walking(P) /\ Asking(P) /\ Answering(P, n)

IInv ==
  /\ <<cl, sv>> \in Systems
  /\ pc \in {"idle", "put", "dispatch", "take", "alloc", "run", "reply", "fetch", "done", "fault"}
  /\ pc = "fault" => cl # sv
  /\ pc \notin {"idle", "fault"} => \E P : \E n \in Nat : Calling(P, n)

LEMMA Names ==
  /\ ClientStub = Client(cl) /\ ServerStub = Server(sv)
  /\ ClientProc = CProc(cl, routine) /\ ServerProc = SProc(sv, msg.num)
  /\ Routine = Server(sv).routines[msg.num + 1]
BY DEF ClientStub, ServerStub, Client, Server, ClientProc, ServerProc, CProc, SProc, Routine

LEMMA InitIInv == Init => IInv
<1> SUFFICES ASSUME Init PROVE IInv
  OBVIOUS
<1>1. PICK p \in Pairs : cl = p[1] /\ sv = p[2]
  BY DEF Init
<1>2. p \in Systems
  BY CallAssumption DEF Systems
<1>3. <<cl, sv>> \in Systems
  BY <1>1, <1>2 DEF Systems
<1>4. pc = "idle"
  BY DEF Init
<1> QED
  BY <1>3, <1>4 DEF IInv

\* What is known of a call under way.
LEMMA Known ==
  ASSUME IInv, NEW P, NEW n \in Nat, Calling(P, n)
  PROVE  /\ cl \in {"file", "info"} /\ sv \in {"file", "info"} /\ msg.num = CProc(cl, routine).num
         /\ ClientProc.params = P
         /\ Fits(P, Prototypes(cl)[routine], routine \in Returns(cl), Client(cl).types.array)
         /\ Len(P) \in Nat \ {0}
<1>1. cl \in {"file", "info"} /\ sv \in {"file", "info"}
  BY DEF IInv, Systems
<1>2. Fits(P, Prototypes(cl)[routine], routine \in Returns(cl), Client(cl).types.array)
  BY <1>1, ClientFits DEF Calling
<1>3. msg.num = CProc(cl, routine).num
  BY DEF Calling
<1>4. ClientProc.params = P
  BY Names DEF Calling
<1>5. Len(P) \in Nat \ {0}
  BY <1>2 DEF Fits
<1> QED
  BY <1>1, <1>2, <1>3, <1>4, <1>5

\* What is known when the server's entry is like the client's.
LEMMA KnownAlike ==
  ASSUME IInv, NEW P, NEW n \in Nat, Calling(P, n), Alike(cl, sv, routine)
  PROVE  /\ ServerProc.params = P /\ Routine = routine /\ msg.num < ServerStub.count
         /\ routine \in DOMAIN Prototypes(sv) /\ Prototypes(sv)[routine] = Prototypes(cl)[routine]
         /\ routine \in Returns(sv) <=> routine \in Returns(cl)
         /\ (\E m \in 1 .. Len(P) : P[m].type = ArrayType) => ServerStub.types.array = ClientStub.types.array
<1>1. P = CProc(cl, routine).params /\ msg.num = CProc(cl, routine).num
  BY DEF Calling
<1> QED
  BY <1>1, Names DEF Alike

\* Calls begin with the program's arguments.
LEMMA CallKeeps ==
  ASSUME IInv, NEW r \in DOMAIN Prototypes(cl), Call(r)
  PROVE  IInv'
<1> DEFINE proto == Prototypes(cl)[r]
<1>1. /\ routine' = r /\ pc' = "put" /\ k' = 1 /\ sframe' = <<>> /\ produced' = Nothing /\ got' = Nothing
      /\ UNCHANGED <<cl, sv>>
      /\ msg' = [num |-> ClientStub.format[ClientStub.calls[r]].num, body |-> <<>>]
  BY DEF Call
<1>2. PICK n \in Sizes, b \in Bytes, t \in [DOMAIN proto -> Texts] : frame' = Frames(proto, t, b, n)
  BY DEF Call
<1>3. n \in Nat
  BY CallAssumption
<1>4. cl \in {"file", "info"} /\ sv \in {"file", "info"} /\ <<cl, sv>> \in Systems
  BY DEF IInv, Systems
<1>5. PICK P : P = CProc(cl, r).params
  OBVIOUS
<1>6. Fits(P, proto, r \in Returns(cl), Client(cl).types.array) /\ Len(P) \in Nat \ {0}
  <2>1. Fits(P, proto, r \in Returns(cl), Client(cl).types.array)
    BY <1>4, <1>5, ClientFits
  <2> QED
    BY <2>1 DEF Fits
<1>7. FrameOf(frame', proto, n)
  <2>1. \A i \in DOMAIN proto : i \in Nat \ {0} /\ proto[i] \in {"text", "size", "bytes", "room"}
    BY <1>6 DEF Fits
  <2> HIDE DEF proto
  <2> QED
    BY <1>2, <2>1, FramesAre
<1>8. Alike(cl, sv, r) \/ (cl = "info" /\ sv = "file" /\ r # "serv_login")
  <2>1. CASE cl = sv
    BY <1>4, <2>1, FileAlike, InfoAlike DEF Prototypes
  <2>2. CASE cl # sv
    <3>1. cl = "info" /\ sv = "file"
      BY <1>4, <2>2 DEF Systems
    <3> QED
      BY <3>1, StrayAlike
  <2> QED
    BY <2>1, <2>2
<1>9. msg' = [num |-> CProc(cl, r).num, body |-> <<>>]
  BY <1>1, Names DEF CProc
<1>10. Packed(msg'.body, P, In, CallItems(P, frame'), 1)
  <2>1. msg'.body = <<>>
    BY <1>9
  <2> QED
    BY <2>1, NothingPacked
<1>11. Calling(P, n)'
  <2>1. Walking(P)'
    BY <1>1, <1>6 DEF Walking
  <2>2. Asking(P)'
    BY <1>1, <1>10 DEF Asking
  <2>3. Answering(P, n)'
    BY <1>1 DEF Answering
  <2>4. (Alike(cl, sv, routine) \/ Stray)'
    BY <1>1, <1>8 DEF Stray
  <2> QED
    BY <1>1, <1>5, <1>7, <1>9, <2>1, <2>2, <2>3, <2>4 DEF Calling
<1> QED
  BY <1>1, <1>3, <1>4, <1>11 DEF IInv

LEMMA StepEffect ==
  ASSUME NEW proc, NEW next, Len(proc.params) \in Nat, k \in 1 .. Len(proc.params), Step(proc, next)
  PROVE  \/ k = Len(proc.params) /\ pc' = next /\ k' = 1
         \/ k # Len(proc.params) /\ pc' = pc /\ k' = k + 1 /\ k' \in 1 .. Len(proc.params)
BY DEF Step

LEMMA PutInKeeps ==
  ASSUME IInv, PutIn
  PROVE  IInv'
<1>1. pc = "put" /\ UNCHANGED <<cl, sv, routine, frame, sframe, produced, got>> /\ Step(ClientProc, "dispatch")
  BY DEF PutIn
<1>0. PICK P : \E n \in Nat : Calling(P, n)
  BY <1>1 DEF IInv
<1>2. PICK n \in Nat : Calling(P, n)
  BY <1>0
<1>3. /\ ClientProc.params = P /\ Len(P) \in Nat \ {0}
      /\ Fits(P, Prototypes(cl)[routine], routine \in Returns(cl), Client(cl).types.array)
  BY <1>2, Known
<1>4. /\ k \in 1 .. Len(P) /\ Packed(msg.body, P, In, CallItems(P, frame), k)
      /\ FrameOf(frame, Prototypes(cl)[routine], n) /\ got = Nothing /\ sframe = <<>>
  BY <1>1, <1>2 DEF Calling, Walking, Asking, Answering
<1>5. PICK body : msg = [num |-> CProc(cl, routine).num, body |-> body]
  BY <1>2 DEF Calling
<1> DEFINE p == P[k]
           v == IF p.type = ArrayType THEN SubSeq(frame[p.at].v, 1, Number(frame, Client(cl).types.array))
                ELSE frame[p.at].v
           item == CallItems(P, frame)[k]
<1>6. item = frame[p.at]
  BY <1>4 DEF CallItems
<1>7. \E new : /\ msg' = [num |-> CProc(cl, routine).num, body |-> new]
               /\ Packed(new, P, In, CallItems(P, frame), k + 1)
  <2>1. CASE p.dir = "in"
    <3>1. Arg(ItemKind(p), v) = frame[p.at]
      BY <1>3, <1>4, <2>1, ItemIsArgument
    <3>2. msg' = [msg EXCEPT !.body = Append(msg.body, Arg(ItemKind(p), v))]
      BY <1>3, <2>1, Names DEF PutIn
    <3> HIDE DEF v, p, item
    <3>3. msg' = [msg EXCEPT !.body = Append(msg.body, item)]
      BY <1>6, <3>1, <3>2
    <3>4. msg' = [num |-> CProc(cl, routine).num, body |-> Append(body, item)]
      BY <1>5, <3>3
    <3>5. Packed(body, P, In, CallItems(P, frame), k) /\ k \in Nat \ {0}
      BY <1>3, <1>4, <1>5
    <3>6. Packed(Append(body, item), P, In, CallItems(P, frame), k + 1)
      BY <2>1, <3>5, PackItem DEF p, item, In
    <3> QED
      BY <3>4, <3>6
  <2>2. CASE p.dir # "in"
    <3>1. msg' = msg
      BY <1>3, <2>2 DEF PutIn
    <3>2. Packed(body, P, In, CallItems(P, frame), k) /\ k \in Nat \ {0}
      BY <1>3, <1>4, <1>5
    <3>3. Packed(body, P, In, CallItems(P, frame), k + 1)
      BY <2>2, <3>2, PackNothing DEF In
    <3> QED
      BY <1>5, <3>1, <3>3
  <2> QED
    BY <2>1, <2>2
<1> HIDE DEF p, v, item
<1>8. PICK new : /\ msg' = [num |-> CProc(cl, routine).num, body |-> new]
                 /\ Packed(new, P, In, CallItems(P, frame), k + 1)
  BY <1>7
<1>9. msg'.body = new
  BY <1>8
<1>10. \/ k = Len(P) /\ pc' = "dispatch" /\ k' = 1
       \/ pc' = "put" /\ k' = k + 1 /\ k' \in 1 .. Len(P)
  BY <1>1, <1>3, <1>4, StepEffect
<1>11. pc' = "dispatch" => ToUnpack(new, P, In, CallItems(P, frame), 1, Len(P))
  BY <1>1, <1>3, <1>8, <1>10, AllPacked
<1>12. Walking(P)' /\ Asking(P)' /\ Answering(P, n)'
  <2>1. Walking(P)'
    BY <1>10 DEF Walking
  <2>2. Asking(P)'
    BY <1>1, <1>4, <1>8, <1>9, <1>10, <1>11 DEF Asking
  <2>3. Answering(P, n)'
    BY <1>1, <1>4, <1>10 DEF Answering
  <2> QED
    BY <2>1, <2>2, <2>3
<1>13. Calling(P, n)'
  BY <1>1, <1>2, <1>8, <1>10, <1>12 DEF Calling, Stray
<1> QED
  BY <1>1, <1>10, <1>13 DEF IInv

LEMMA DispatchKeeps ==
  ASSUME IInv, Dispatch
  PROVE  IInv'
<1>1. pc = "dispatch" /\ UNCHANGED <<cl, sv, routine, frame, msg, sframe, produced, got>>
  BY DEF Dispatch
<1>0. PICK P : \E n \in Nat : Calling(P, n)
  BY <1>1 DEF IInv
<1>2. PICK n \in Nat : Calling(P, n)
  BY <1>0
<1>3. Len(P) \in Nat \ {0}
  BY <1>2, Known
<1>4. k = 1 /\ ToUnpack(msg.body, P, In, CallItems(P, frame), 1, Len(P)) /\ sframe = <<>> /\ got = Nothing
  BY <1>1, <1>2 DEF Calling, Walking, Asking, Answering
<1>5. CASE pc' = "take" /\ k' = k /\ msg.num < ServerStub.count
  <2>1. Taken(sframe, frame, P, 1)
    BY <1>4, NothingTaken
  <2>2. Walking(P)'
    BY <1>3, <1>4, <1>5 DEF Walking
  <2>3. Asking(P)'
    BY <1>1, <1>4, <1>5, <2>1 DEF Asking
  <2>4. Answering(P, n)'
    BY <1>1, <1>4, <1>5 DEF Answering
  <2>5. Calling(P, n)'
    BY <1>1, <1>2, <1>5, <2>2, <2>3, <2>4 DEF Calling, Stray, ServerStub
  <2> QED
    BY <1>1, <1>5, <2>5 DEF IInv
<1>6. CASE ~ (msg.num < ServerStub.count) /\ Fault
  <2>1. ~Alike(cl, sv, routine)
    BY <1>2, <1>6, KnownAlike
  <2>2. cl # sv
    BY <1>2, <2>1 DEF Calling, Stray
  <2> QED
    BY <1>1, <1>6, <2>2 DEF IInv, Fault
<1> QED
  BY <1>5, <1>6 DEF Dispatch

\* A stray call gets no further than its first parameter.
LEMMA StrayFails ==
  ASSUME IInv, NEW P, NEW n \in Nat, Calling(P, n), Stray, pc = "take", TakeIn
  PROVE  Fault
<1>1. /\ cl = "info" /\ sv = "file" /\ routine # "serv_login" /\ routine \in DOMAIN Prototypes(cl)
      /\ k = 1 /\ P = CProc("info", routine).params /\ msg.num = CProc("info", routine).num
      /\ msg.num < ServerStub.count
  BY Known DEF Calling, Stray, Walking
<1>2. Refused(routine)
  BY <1>1, StrayRefused DEF Prototypes
<1>3. P[1] = InLong(0) /\ Len(P) \in Nat \ {0} /\ ServerProc.params[1] = InText(0)
  BY <1>1, <1>2, Names DEF Refused
<1>4. P[1].dir = "in" /\ ItemKind(P[1]) = "long"
  <2>1. InLong(0).dir = "in" /\ InLong(0).type = NoType
    BY DEF InLong, Param
  <2>2. ItemKind(InLong(0)) = "long"
    BY <2>1 DEF ItemKind, NoType, TextType, ArrayType
  <2> QED
    BY <1>3, <2>1, <2>2
<1>5. InText(0).dir = "in" /\ ItemKind(InText(0)) = "text"
  <2>1. InText(0).dir = "in" /\ InText(0).type = TextType
    BY DEF InText, Param
  <2> QED
    BY <2>1 DEF ItemKind, NoType, TextType, ArrayType
<1>6. 1 \in 1 .. Len(P)
  BY <1>3
<1>7. msg.body # <<>> /\ Head(msg.body) = CallItems(P, frame)[1]
  <2>1. ToUnpack(msg.body, P, In, CallItems(P, frame), k, Len(P))
    BY <1>1 DEF Calling, Asking
  <2>2. P[k].dir \in In /\ k \in 1 .. Len(P) /\ Len(P) \in Nat
    BY <1>1, <1>3, <1>4, <1>6 DEF In
  <2> DEFINE b == msg.body
             It == CallItems(P, frame)
  <2>3. ToUnpack(b, P, In, It, k, Len(P))
    BY <2>1
  <2> HIDE DEF b, It
  <2>4. b # <<>> /\ Head(b) = It[k] /\ ToUnpack(Tail(b), P, In, It, k + 1, Len(P))
    BY <2>2, <2>3, UnpackItem
  <2> QED
    BY <1>1, <2>4 DEF b, It
<1>8. CallItems(P, frame)[1] = frame[P[1].at]
  BY <1>6 DEF CallItems
<1>9. frame[P[1].at].kind = "long"
  <2>1. /\ Fits(P, Prototypes(cl)[routine], routine \in Returns(cl), Client(cl).types.array)
        /\ FrameOf(frame, Prototypes(cl)[routine], n)
    BY Known DEF Calling
  <2> QED
    BY <1>4, <1>6, <2>1, ItemIsArgument
<1>10. Head(msg.body).kind # "text"
  BY <1>7, <1>8, <1>9
<1>11. ServerProc.params[k] = InText(0)
  BY <1>1, <1>3
<1> QED
  BY <1>5, <1>10, <1>11 DEF TakeIn

\* The one routine the two systems share by name.
LEMMA OnlyLoginAlike ==
  ASSUME NEW r, Alike("info", "file", r)
  PROVE  r = "serv_login"
<1>1. r \in DOMAIN InfoPrototypes /\ r \in DOMAIN FilePrototypes
  BY DEF Alike, Prototypes
<1> QED
  BY <1>1 DEF InfoPrototypes, FilePrototypes

\* Parameters bring their arguments into the server routine's frame.
LEMMA TakeInKeeps ==
  ASSUME IInv, TakeIn
  PROVE  IInv'
<1>1. pc = "take" /\ UNCHANGED <<cl, sv, routine, frame, produced, got>>
  BY DEF TakeIn
<1>0. PICK P : \E n \in Nat : Calling(P, n)
  BY <1>1 DEF IInv
<1>2. PICK n \in Nat : Calling(P, n)
  BY <1>0
<1>3. CASE Stray
  <2>1. Fault /\ cl # sv
    BY <1>1, <1>2, <1>3, StrayFails DEF Stray
  <2> QED
    BY <1>1, <2>1 DEF IInv, Fault
<1>4. CASE Alike(cl, sv, routine)
  <2>1. /\ ServerProc.params = P /\ Len(P) \in Nat \ {0}
        /\ Fits(P, Prototypes(cl)[routine], routine \in Returns(cl), Client(cl).types.array)
    BY <1>2, <1>4, Known, KnownAlike
  <2>2. /\ k \in 1 .. Len(P) /\ ToUnpack(msg.body, P, In, CallItems(P, frame), k, Len(P))
        /\ Taken(sframe, frame, P, k)
        /\ FrameOf(frame, Prototypes(cl)[routine], n) /\ got = Nothing
    BY <1>1, <1>2 DEF Calling, Walking, Asking, Answering
  <2>3. PICK body : msg = [num |-> CProc(cl, routine).num, body |-> body]
    BY <1>2 DEF Calling
  <2> DEFINE p == P[k]
             It == CallItems(P, frame)
             new == msg'.body
  <2>4. It[k] = frame[p.at]
    BY <2>2 DEF CallItems
  <2>5. /\ msg' = [num |-> CProc(cl, routine).num, body |-> new]
        /\ ToUnpack(new, P, In, It, k + 1, Len(P)) /\ Taken(sframe', frame, P, k + 1)
        /\ Step(ServerProc, "alloc")
    <3>1. CASE p.dir = "in"
      <4>1. p.dir \in In /\ ToUnpack(body, P, In, It, k, Len(P))
        BY <2>2, <2>3, <3>1 DEF In
      <4>2. frame[p.at].kind = ItemKind(p)
        BY <2>1, <2>2, <3>1, ItemIsArgument
      <4>3. Taken(Set(sframe, p.at, frame[p.at]), frame, P, k + 1)
        BY <2>1, <2>2, <3>1, TakeArgument
      <4>4. \/ /\ msg.body # <<>> /\ Head(msg.body).kind = ItemKind(p)
               /\ sframe' = Set(sframe, p.at, Head(msg.body))
               /\ msg' = [msg EXCEPT !.body = Tail(msg.body)]
               /\ Step(ServerProc, "alloc")
            \/ msg.body = <<>> \/ Head(msg.body).kind # ItemKind(p)
        BY <2>1, <3>1 DEF TakeIn, Set
      <4> HIDE DEF p, It, new
      <4>5. body # <<>> /\ Head(body) = It[k] /\ ToUnpack(Tail(body), P, In, It, k + 1, Len(P))
        BY <2>1, <2>2, <4>1, UnpackItem DEF p
      <4>6. msg.body = body
        BY <2>3
      <4>7. /\ sframe' = Set(sframe, p.at, frame[p.at])
            /\ msg' = [msg EXCEPT !.body = Tail(body)]
            /\ Step(ServerProc, "alloc")
        BY <2>4, <4>2, <4>4, <4>5, <4>6
      <4>8. msg' = [num |-> CProc(cl, routine).num, body |-> Tail(body)]
        BY <2>3, <4>7
      <4>9. new = Tail(body)
        BY <4>8 DEF new
      <4> QED
        BY <4>3, <4>5, <4>7, <4>8, <4>9
    <3>2. CASE p.dir # "in"
      <4>1. msg' = msg /\ sframe' = sframe /\ Step(ServerProc, "alloc")
        BY <2>1, <3>2 DEF TakeIn
      <4>2. p.dir \notin In /\ ToUnpack(body, P, In, It, k, Len(P)) /\ new = body
        BY <2>2, <2>3, <3>2, <4>1 DEF In
      <4>3. Taken(sframe, frame, P, k + 1)
        BY <2>1, <2>2, <3>2, TakeNothing
      <4> HIDE DEF p, It, new
      <4>4. ToUnpack(body, P, In, It, k + 1, Len(P))
        BY <2>1, <2>2, <4>2, UnpackNothing DEF p
      <4> QED
        BY <2>3, <4>1, <4>2, <4>3, <4>4
    <3> QED
      BY <3>1, <3>2
  <2>6. \/ k = Len(P) /\ pc' = "alloc" /\ k' = 1
        \/ pc' = "take" /\ k' = k + 1 /\ k' \in 1 .. Len(P)
    BY <1>1, <2>1, <2>2, <2>5, StepEffect
  <2> HIDE DEF p, new
  <2>7. ~Stray'
    <3>1. routine = "serv_login" \/ cl = sv
      BY <1>4, OnlyLoginAlike DEF IInv, Systems
    <3> QED
      BY <1>1, <3>1 DEF Stray
  <2>8. Walking(P)'
    BY <2>6, <2>7 DEF Walking
  <2>9. Asking(P)'
    BY <1>1, <2>5, <2>6 DEF Asking, new
  <2>10. Answering(P, n)'
    BY <1>1, <2>2, <2>6 DEF Answering
  <2>11. Calling(P, n)'
    BY <1>1, <1>2, <1>4, <2>5, <2>8, <2>9, <2>10 DEF Calling
  <2> QED
    BY <1>1, <2>6, <2>11 DEF IInv
<1> QED
  BY <1>2, <1>3, <1>4 DEF Calling

\* The server routine's frame is completed.
LEMMA AllocKeeps ==
  ASSUME IInv, Alloc
  PROVE  IInv'
<1>1. pc = "alloc" /\ UNCHANGED <<cl, sv, routine, frame, msg, produced, got>>
  BY DEF Alloc
<1>0. PICK P : \E n \in Nat : Calling(P, n)
  BY <1>1 DEF IInv
<1>2. PICK n \in Nat : Calling(P, n)
  BY <1>0
<1>3. Alike(cl, sv, routine)
  BY <1>1, <1>2 DEF Calling, Stray
<1>4. /\ ServerProc.params = P /\ Len(P) \in Nat \ {0}
      /\ Fits(P, Prototypes(cl)[routine], routine \in Returns(cl), Client(cl).types.array)
      /\ (\E m \in 1 .. Len(P) : P[m].type = ArrayType) => ServerStub.types.array = Client(cl).types.array
  BY <1>2, <1>3, Known, KnownAlike, Names
<1>5. /\ k = 1 /\ Taken(sframe, frame, P, Len(P) + 1)
      /\ FrameOf(frame, Prototypes(cl)[routine], n) /\ got = Nothing
  BY <1>1, <1>2 DEF Calling, Walking, Asking, Answering
<1> DEFINE size == Number(sframe, ServerStub.types.array)
<1>6. LengthsAgree(sframe, P, size) /\ Roomy(sframe, RoomsOf(P), size) = frame
  <2>1. size = Number(sframe, ServerStub.types.array)
    OBVIOUS
  <2> HIDE DEF size
  <2> QED
    BY <1>4, <1>5, <2>1, AllocFrame
<1>7. sframe' = frame /\ pc' = "run" /\ k' = k
  <2>1. IF LengthsAgree(sframe, P, size)
        THEN /\ sframe' = Roomy(sframe, RoomsOf(P), size)
             /\ pc' = "run" /\ UNCHANGED k
        ELSE Fault /\ UNCHANGED sframe
    BY <1>4 DEF Alloc, ArraysOf, Roomy, LengthsAgree, RoomsOf
  <2> HIDE DEF size
  <2> QED
    BY <1>6, <2>1
<1> HIDE DEF size
<1>8. Walking(P)' /\ Asking(P)' /\ Answering(P, n)'
  BY <1>1, <1>5, <1>7 DEF Walking, Asking, Answering
<1>9. Calling(P, n)'
  BY <1>1, <1>2, <1>3, <1>8 DEF Calling
<1> QED
  BY <1>1, <1>7, <1>9 DEF IInv

\* The size of the buffer among the arguments f, 0 when there is none.
Buffers(proto) == {i \in DOMAIN proto : proto[i] = "room"}
SizeIn(f, proto) == IF Buffers(proto) = {} THEN 0 ELSE f[Offset(CHOOSE i \in Buffers(proto) : TRUE)].v

\* What the routine leaves is what the entry can carry.
LEMMA RunMakes ==
  ASSUME NEW P, NEW proto, NEW returns, NEW corr, Fits(P, proto, returns, corr),
         NEW f, NEW n \in Nat, FrameOf(f, proto, n),
         NEW r, ~returns => r = 0, NEW out \in [1 .. SizeIn(f, proto) -> Bytes]
  PROVE  Made([ret |-> r, out |-> out], P, n)
<1>0. PICK room, size :
        /\ room = {i \in DOMAIN proto : proto[i] = "room"} /\ size = SizeIn(f, proto)
        /\ size = IF room = {} THEN 0 ELSE f[Offset(CHOOSE i \in room : TRUE)].v
  BY DEF SizeIn, Buffers
<1>7. out \in [1 .. size -> Bytes]
  BY <1>0
<1>1. ASSUME room # {} PROVE size = n
  <2>1. PICK i \in room : i = CHOOSE j \in room : TRUE
    BY <1>1
  <2>2. i \in DOMAIN proto /\ proto[i] = "room"
    BY <1>0
  <2>3. f[Offset(i)] = Arg("room", n)
    BY <2>2 DEF FrameOf
  <2> QED
    BY <1>0, <1>1, <2>1, <2>3 DEF Arg
<1>2. ASSUME NEW m \in 1 .. Len(P), P[m].dir = "out" PROVE Len(out) = n
  <2>1. ComesOut(P[m], proto)
    BY <1>2 DEF Fits, GoesIn, IsReturned
  <2>2. room # {}
    BY <1>0, <2>1 DEF ComesOut
  <2>3. out \in [1 .. n -> Bytes]
    BY <1>1, <1>7, <2>2
  <2> QED
    BY <2>3
<1>3. ASSUME ~ (\E m \in 1 .. Len(P) : P[m].dir = "out") PROVE out = <<>>
  <2>1. room = {}
    BY <1>0, <1>3 DEF Fits
  <2>2. out \in [1 .. 0 -> Bytes]
    BY <1>0, <1>7, <2>1
  <2> QED
    BY <2>2
<1>4. ~ (\E m \in 1 .. Len(P) : P[m].dir = "return") => r = 0
  BY DEF Fits
<1> DEFINE pr == [ret |-> r, out |-> out]
<1>5. pr.ret = r /\ pr.out = out /\ pr = [ret |-> r, out |-> out]
  OBVIOUS
<1> HIDE DEF pr
<1>6. Made(pr, P, n)
  BY <1>2, <1>3, <1>4, <1>5 DEF Made
<1> QED
  BY <1>6 DEF pr

LEMMA RunKeeps ==
  ASSUME IInv, Run
  PROVE  IInv'
<1>1. pc = "run" /\ pc' = "reply" /\ k' = k /\ UNCHANGED <<cl, sv, routine, frame, sframe, got>>
  BY DEF Run
<1>0. PICK P : \E n \in Nat : Calling(P, n)
  BY <1>1 DEF IInv
<1>2. PICK n \in Nat : Calling(P, n)
  BY <1>0
<1>3. Alike(cl, sv, routine)
  BY <1>1, <1>2 DEF Calling, Stray
<1>4. /\ Len(P) \in Nat \ {0} /\ Routine = routine
      /\ Fits(P, Prototypes(cl)[routine], routine \in Returns(cl), Client(cl).types.array)
      /\ Prototypes(sv)[routine] = Prototypes(cl)[routine] /\ (routine \in Returns(sv) <=> routine \in Returns(cl))
  BY <1>2, <1>3, Known, KnownAlike
<1>5. k = 1 /\ sframe = frame /\ FrameOf(frame, Prototypes(cl)[routine], n) /\ got = Nothing
  BY <1>1, <1>2 DEF Calling, Walking, Asking, Answering
<1>6. PICK body : msg = [num |-> CProc(cl, routine).num, body |-> body]
  BY <1>2 DEF Calling
<1>7. msg' = [num |-> CProc(cl, routine).num, body |-> <<>>]
  BY <1>6 DEF Run
<1>8. Made(produced', P, n)
  <2> DEFINE proto == Prototypes(cl)[routine]
  <2>1. PICK r \in (IF routine \in Returns(cl) THEN Results ELSE {0}), out \in [1 .. SizeIn(frame, proto) -> Bytes] :
          produced' = [ret |-> r, out |-> out]
    BY <1>4, <1>5 DEF Run, SizeIn, Buffers
  <2>2. ~ (routine \in Returns(cl)) => r = 0
    OBVIOUS
  <2>4. Made([ret |-> r, out |-> out], P, n)
    BY <1>4, <1>5, <2>2, RunMakes
  <2> QED
    BY <2>1, <2>4
<1>9. Packed(msg'.body, P, Back, ReplyItems(P, produced'), 1)
  <2>1. msg'.body = <<>>
    BY <1>7
  <2> QED
    BY <2>1, NothingPacked
<1>10. Walking(P)' /\ Asking(P)' /\ Answering(P, n)'
  <2>1. Walking(P)' /\ Asking(P)'
    BY <1>1, <1>4, <1>5 DEF Walking, Asking
  <2>2. Answering(P, n)'
    BY <1>1, <1>5, <1>8, <1>9 DEF Answering
  <2> QED
    BY <2>1, <2>2
<1>11. Calling(P, n)'
  BY <1>1, <1>2, <1>3, <1>7, <1>10 DEF Calling
<1> QED
  BY <1>1, <1>11 DEF IInv

\* What it left is packed.
LEMMA PutOutKeeps ==
  ASSUME IInv, PutOut
  PROVE  IInv'
<1>1. pc = "reply" /\ UNCHANGED <<cl, sv, routine, frame, sframe, produced, got>> /\ Step(ServerProc, "fetch")
  BY DEF PutOut
<1>0. PICK P : \E n \in Nat : Calling(P, n)
  BY <1>1 DEF IInv
<1>2. PICK n \in Nat : Calling(P, n)
  BY <1>0
<1>3. Alike(cl, sv, routine)
  BY <1>1, <1>2 DEF Calling, Stray
<1>4. /\ Len(P) \in Nat \ {0} /\ ServerProc.params = P
      /\ Fits(P, Prototypes(cl)[routine], routine \in Returns(cl), Client(cl).types.array)
  BY <1>2, <1>3, Known, KnownAlike
<1> DEFINE p == P[k]
           It == ReplyItems(P, produced)
<1>5. /\ k \in 1 .. Len(P) /\ Packed(msg.body, P, Back, It, k) /\ Made(produced, P, n) /\ got = Nothing
  BY <1>1, <1>2 DEF Calling, Walking, Answering
<1>6. PICK body : msg = [num |-> CProc(cl, routine).num, body |-> body]
  BY <1>2 DEF Calling
<1>7. It[k] = ReplyItem(p, produced)
  BY <1>5 DEF ReplyItems
<1>8. p.dir \in {"in", "out", "return"}
  BY <1>4, <1>5, OutItems
<1>9. msg' = IF p.dir = "in" THEN msg ELSE [msg EXCEPT !.body = Append(msg.body, ReplyItem(p, produced))]
  BY <1>4 DEF PutOut, ReplyItem
<1>10. Packed(body, P, Back, It, k) /\ k \in Nat \ {0}
  BY <1>4, <1>5, <1>6
<1> HIDE DEF p, It
<1>11. \E new : /\ msg' = [num |-> CProc(cl, routine).num, body |-> new]
                /\ Packed(new, P, Back, It, k + 1)
  <2>1. CASE p.dir = "in"
    <3>1. msg' = msg
      BY <1>9, <2>1
    <3>2. P[k].dir \notin Back
      BY <2>1 DEF p, Back
    <3>3. Packed(body, P, Back, It, k + 1)
      BY <1>10, <3>2, PackNothing
    <3> QED
      BY <1>6, <3>1, <3>3
  <2>2. CASE p.dir # "in"
    <3>1. msg' = [num |-> CProc(cl, routine).num, body |-> Append(body, It[k])]
      BY <1>6, <1>7, <1>9, <2>2
    <3>2. P[k].dir \in Back
      BY <1>8, <2>2 DEF p, Back
    <3>3. Packed(Append(body, It[k]), P, Back, It, k + 1)
      BY <1>10, <3>2, PackItem
    <3> QED
      BY <3>1, <3>3
  <2> QED
    BY <2>1, <2>2
<1>12. PICK new : /\ msg' = [num |-> CProc(cl, routine).num, body |-> new]
                  /\ Packed(new, P, Back, It, k + 1)
  BY <1>11
<1>13. msg'.body = new
  BY <1>12
<1>14. \/ k = Len(P) /\ pc' = "fetch" /\ k' = 1
       \/ pc' = "reply" /\ k' = k + 1 /\ k' \in 1 .. Len(P)
  BY <1>1, <1>4, <1>5, StepEffect
<1>15. pc' = "fetch" => ToUnpack(new, P, Back, It, 1, Len(P)) /\ Got(got, produced, P, 1)
  <2>1. Got(got, produced, P, 1)
    BY <1>5, GotNothing
  <2> QED
    BY <1>1, <1>4, <1>12, <1>14, <2>1, AllPacked
<1>16. Walking(P)' /\ Asking(P)' /\ Answering(P, n)'
  <2>1. Walking(P)' /\ Asking(P)'
    BY <1>4, <1>14 DEF Walking, Asking
  <2>2. Answering(P, n)'
    BY <1>1, <1>5, <1>12, <1>13, <1>14, <1>15 DEF Answering, It
  <2> QED
    BY <2>1, <2>2
<1>17. Calling(P, n)'
  BY <1>1, <1>2, <1>3, <1>12, <1>16 DEF Calling
<1> QED
  BY <1>1, <1>14, <1>17 DEF IInv

\* The caller finds it.
LEMMA TakeOutKeeps ==
  ASSUME IInv, TakeOut
  PROVE  IInv'
<1>1. pc = "fetch" /\ UNCHANGED <<cl, sv, routine, frame, sframe, produced>>
  BY DEF TakeOut
<1>0. PICK P : \E n \in Nat : Calling(P, n)
  BY <1>1 DEF IInv
<1>2. PICK n \in Nat : Calling(P, n)
  BY <1>0
<1>3. Alike(cl, sv, routine)
  BY <1>1, <1>2 DEF Calling, Stray
<1>4. /\ Len(P) \in Nat \ {0} /\ ClientProc.params = P /\ ClientStub = Client(cl)
      /\ Fits(P, Prototypes(cl)[routine], routine \in Returns(cl), Client(cl).types.array)
  BY <1>2, Known, Names
<1> DEFINE p == P[k]
           It == ReplyItems(P, produced)
           corr == Client(cl).types.array
<1>5. /\ k \in 1 .. Len(P) /\ ToUnpack(msg.body, P, Back, It, k, Len(P)) /\ Made(produced, P, n)
      /\ Got(got, produced, P, k) /\ FrameOf(frame, Prototypes(cl)[routine], n)
  BY <1>1, <1>2 DEF Calling, Walking, Answering
<1>6. PICK body : msg = [num |-> CProc(cl, routine).num, body |-> body]
  BY <1>2 DEF Calling
<1>7. It[k] = ReplyItem(p, produced)
  BY <1>5 DEF ReplyItems
<1>8. /\ p.dir \in {"in", "out", "return"}
      /\ p.dir = "out" => p.type = ArrayType /\ ItemKind(p) = "bytes"
      /\ p.dir = "return" => p.type # ArrayType /\ ItemKind(p) = "long"
  BY <1>4, <1>5, OutItems
<1>9. /\ ToUnpack(body, P, Back, It, k, Len(P)) /\ k \in Nat \ {0} /\ msg.body = body
      /\ \A b : [msg EXCEPT !.body = b] = [num |-> CProc(cl, routine).num, body |-> b]
  BY <1>4, <1>5, <1>6
<1>10. /\ p.dir = "in" => Got(got, produced, P, k + 1)
       /\ p.dir = "out" => Got([got EXCEPT !.out = produced.out], produced, P, k + 1)
       /\ p.dir = "return" => Got([got EXCEPT !.ret = produced.ret], produced, P, k + 1)
  BY <1>5, <1>9, GotNext
<1>11. \E new : /\ msg' = [num |-> CProc(cl, routine).num, body |-> new]
                /\ ToUnpack(new, P, Back, It, k + 1, Len(P)) /\ Got(got', produced, P, k + 1)
                /\ Step(ClientProc, "done")
  <2>1. CASE p.dir = "in"
    <3>1. msg' = msg /\ got' = got /\ Step(ClientProc, "done")
      BY <1>4, <2>1 DEF TakeOut
    <3>2. P[k].dir \notin Back
      BY <2>1 DEF Back
    <3> HIDE DEF p, It
    <3>3. ToUnpack(body, P, Back, It, k + 1, Len(P))
      BY <1>4, <1>5, <1>9, <3>2, UnpackNothing
    <3> QED
      BY <1>6, <1>10, <2>1, <3>1, <3>3
  <2>2. CASE p.dir # "in"
    <3>1. P[k].dir \in Back
      BY <1>8, <2>2 DEF Back
    <3>2. body # <<>> /\ Head(body) = It[k] /\ ToUnpack(Tail(body), P, Back, It, k + 1, Len(P))
      <4> HIDE DEF p, It
      <4> QED
        BY <1>4, <1>5, <1>9, <3>1, UnpackItem
    <3>3. It[k].kind = ItemKind(p)
      BY <1>7, <1>8, <2>2 DEF ReplyItem, Arg
    <3>4. p.type = ArrayType => Len(It[k].v) = Number(frame, corr)
      <4> SUFFICES ASSUME p.type = ArrayType PROVE Len(It[k].v) = Number(frame, corr)
        OBVIOUS
      <4>1. p.dir = "out"
        BY <1>8, <2>2
      <4>2. It[k].v = produced.out
        BY <1>7, <4>1 DEF ReplyItem, Arg
      <4>3. Len(produced.out) = n
        BY <1>5, <4>1 DEF Made
      <4>4. Number(frame, corr) = n
        BY <1>4, <1>5, SizeOfArray
      <4> QED
        BY <4>2, <4>3, <4>4
    <3>5. LET item == Head(msg.body)
              fits == /\ msg.body # <<>>
                      /\ item.kind = ItemKind(p)
                      /\ p.type = ArrayType => Len(item.v) = Number(frame, corr)
          IN  \/ /\ fits
                 /\ got' = IF p.dir = "out" THEN [got EXCEPT !.out = item.v]
                                            ELSE [got EXCEPT !.ret = item.v]
                 /\ msg' = [msg EXCEPT !.body = Tail(msg.body)]
                 /\ Step(ClientProc, "done")
              \/ ~fits
      BY <1>4, <2>2 DEF TakeOut
    <3> HIDE DEF p, It, corr
    <3>6. /\ got' = IF p.dir = "out" THEN [got EXCEPT !.out = It[k].v] ELSE [got EXCEPT !.ret = It[k].v]
          /\ msg' = [msg EXCEPT !.body = Tail(body)]
          /\ Step(ClientProc, "done")
      BY <1>9, <3>2, <3>3, <3>4, <3>5
    <3>7. Got(got', produced, P, k + 1)
      <4>1. CASE p.dir = "out"
        <5>1. It[k].v = produced.out
          BY <1>7, <4>1 DEF ReplyItem, Arg
        <5> QED
          BY <1>10, <3>6, <4>1, <5>1
      <4>2. CASE p.dir = "return"
        <5>1. It[k].v = produced.ret
          BY <1>7, <4>2 DEF ReplyItem, Arg
        <5> QED
          BY <1>10, <3>6, <4>2, <5>1
      <4> QED
        BY <1>8, <2>2, <4>1, <4>2
    <3>8. msg' = [num |-> CProc(cl, routine).num, body |-> Tail(body)]
      BY <1>9, <3>6
    <3> QED
      BY <3>2, <3>6, <3>7, <3>8
  <2> QED
    BY <2>1, <2>2
<1> HIDE DEF p, It, corr
<1>12. PICK new : /\ msg' = [num |-> CProc(cl, routine).num, body |-> new]
                  /\ ToUnpack(new, P, Back, It, k + 1, Len(P)) /\ Got(got', produced, P, k + 1)
                  /\ Step(ClientProc, "done")
  BY <1>11
<1>13. msg'.body = new
  BY <1>12
<1>14. \/ k = Len(P) /\ pc' = "done" /\ k' = 1
       \/ pc' = "fetch" /\ k' = k + 1 /\ k' \in 1 .. Len(P)
  BY <1>1, <1>4, <1>5, <1>12, StepEffect
<1>15. pc' = "done" => got' = produced
  BY <1>1, <1>4, <1>5, <1>12, <1>14, GotAll
<1>16. Walking(P)' /\ Asking(P)' /\ Answering(P, n)'
  <2>1. Walking(P)' /\ Asking(P)'
    BY <1>4, <1>14 DEF Walking, Asking
  <2>2. Answering(P, n)'
    BY <1>1, <1>5, <1>12, <1>13, <1>14, <1>15 DEF Answering, It
  <2> QED
    BY <2>1, <2>2
<1>17. Calling(P, n)'
  BY <1>1, <1>2, <1>3, <1>12, <1>16 DEF Calling
<1> QED
  BY <1>1, <1>14, <1>17 DEF IInv

LEMMA NextIInv ==
  ASSUME IInv, [Next]_vars
  PROVE  IInv'
<1>1. CASE PutIn
  BY <1>1, PutInKeeps
<1>2. CASE Dispatch
  BY <1>2, DispatchKeeps
<1>3. CASE TakeIn
  BY <1>3, TakeInKeeps
<1>4. CASE Alloc
  BY <1>4, AllocKeeps
<1>5. CASE Run
  BY <1>5, RunKeeps
<1>6. CASE PutOut
  BY <1>6, PutOutKeeps
<1>7. CASE TakeOut
  BY <1>7, TakeOutKeeps
<1>8. CASE Return_
  BY <1>8 DEF Return_, IInv
<1>9. ASSUME NEW r \in DOMAIN Prototypes(cl), Call(r)
      PROVE  IInv'
  BY <1>9, CallKeeps
<1>10. CASE UNCHANGED vars
  <2>1. UNCHANGED <<cl, sv, pc>>
    BY <1>10 DEF vars
  <2>2. ASSUME NEW P, NEW n \in Nat, Calling(P, n) PROVE Calling(P, n)'
    BY <1>10, <2>2 DEF vars, Calling, Walking, Asking, Answering, Stray, ServerStub
  <2>3. (\E P : \E n \in Nat : Calling(P, n)) => (\E P : \E n \in Nat : Calling(P, n)')
    BY <2>2
  <2> QED
    BY <2>1, <2>3 DEF IInv
<1> QED
  BY <1>1, <1>2, <1>3, <1>4, <1>5, <1>6, <1>7, <1>8, <1>9, <1>10 DEF Next, Runtime

LEMMA Invariant == Spec => []IInv
<1>1. Init => IInv
  BY InitIInv
<1>2. IInv /\ [Next]_vars => IInv'
  BY NextIInv
<1> QED
  BY <1>1, <1>2, PTL DEF Spec

-----------------------------------------------------------------------------
(* The properties.                                                         *)

\* Whatever a program passes, a call to the server of the client's own system
\* runs the routine that was called, with the arguments the caller has on its
\* stack and a buffer of the caller's size, and the runtime never raises.
THEOREM CallsRunTheirRoutine == Spec => []RightRoutine
<1>1. ASSUME IInv PROVE RightRoutine
  <2> SUFFICES ASSUME cl = sv PROVE pc # "fault" /\ (pc = "run" => Routine = routine /\ sframe = frame)
    BY DEF RightRoutine
  <2>1. pc # "fault"
    BY <1>1 DEF IInv
  <2>2. ASSUME pc = "run" PROVE Routine = routine /\ sframe = frame
    <3>0. PICK P : \E n \in Nat : Calling(P, n)
      BY <1>1, <2>2 DEF IInv
    <3>1. PICK n \in Nat : Calling(P, n)
      BY <3>0
    <3>2. Alike(cl, sv, routine)
      BY <3>1 DEF Calling, Stray
    <3>3. Routine = routine
      BY <1>1, <3>1, <3>2, KnownAlike
    <3> QED
      BY <2>2, <3>1, <3>3 DEF Calling, Asking
  <2> QED
    BY <2>1, <2>2
<1> QED
  BY <1>1, Invariant, PTL

\* A call that returns brings back all the routine left, and nothing else.
THEOREM RepliesReachTheirCallers == Spec => []ReplyReachesCaller
<1>1. ASSUME IInv PROVE ReplyReachesCaller
  <2> SUFFICES ASSUME pc = "done" PROVE got = produced
    BY DEF ReplyReachesCaller
  <2>1. PICK P : \E n \in Nat : Calling(P, n)
    BY <1>1 DEF IInv
  <2>2. PICK n \in Nat : Calling(P, n)
    BY <2>1
  <2> QED
    BY <2>2 DEF Calling, Answering
<1> QED
  BY <1>1, Invariant, PTL

\* An information client that was given a file server's address gets nothing run
\* there but serv_login, whatever it calls and with whatever arguments.
THEOREM OtherClientsOnlyLogIn == Spec => []StrangersOnlyLogIn
<1>1. ASSUME IInv PROVE StrangersOnlyLogIn
  <2> SUFFICES ASSUME pc = "run", cl # sv PROVE Routine = routine /\ Routine = "serv_login"
    BY DEF StrangersOnlyLogIn
  <2>1. PICK P : \E n \in Nat : Calling(P, n)
    BY <1>1 DEF IInv
  <2>2. PICK n \in Nat : Calling(P, n)
    BY <2>1
  <2>3. Alike(cl, sv, routine)
    BY <2>2 DEF Calling, Stray
  <2>4. Routine = routine
    BY <1>1, <2>2, <2>3, KnownAlike
  <2>5. cl = "info" /\ sv = "file"
    BY <1>1 DEF IInv, Systems
  <2> QED
    BY <2>3, <2>4, <2>5, OnlyLoginAlike
<1> QED
  BY <1>1, Invariant, PTL

=============================================================================
