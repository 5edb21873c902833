-------------------------- MODULE InfoServiceProofs --------------------------
(***************************************************************************)
(* Proofs about InfoService and the texts of SystemInfo, for lines, texts, *)
(* buffers and numbers of drives of any size.                              *)
(*                                                                         *)
(* What a recursive function computes is proved by induction where it      *)
(* needs it (lemma Least).  In order: the loop that moves a text in its    *)
(* buffer; the width of a number; the texts and where their fields begin;  *)
(* the uptime; the rows of the two reports on drives; split; the inductive *)
(* invariant IInv and the steps that keep it; the theorems.                *)
(***************************************************************************)
EXTENDS InfoService, TLAPS, FiniteSetTheorems, WellFoundedInduction

-----------------------------------------------------------------------------
(* Induction.  A statement about all n is proved by looking at the least   *)
(* number it is false for.                                                 *)

\* A set of natural numbers has a least element: the segments 0 .. x are
\* finite sets, and finite sets do not shrink for ever.
LEMMA Least ==
  ASSUME NEW T \in SUBSET Nat, T # {}
  PROVE  \E x \in T : \A y \in T : x <= y
<1> DEFINE R    == StrictSubsetOrdering(Nat)
           F    == FiniteSubsetsOf(Nat)
           Segs == {0 .. x : x \in T}
<1>1. IsWellFoundedOn(R, F)
  BY FS_StrictSubsetOrderingWellFounded
<1>2. Segs \subseteq F
  <2>1. \A x \in Nat : IsFiniteSet(0 .. x)
    BY FS_Interval
  <2> QED
    BY <2>1 DEF FiniteSubsetsOf
<1>3. Segs # {}
  OBVIOUS
<1>4. \A x, y \in T : y < x => <<0 .. y, 0 .. x>> \in R
  <2> TAKE x, y \in T
  <2> HAVE y < x
  <2>1. 0 .. y \subseteq 0 .. x /\ x \in 0 .. x /\ x \notin 0 .. y
    OBVIOUS
  <2>2. 0 .. x \in SUBSET Nat /\ 0 .. y \in SUBSET Nat
    OBVIOUS
  <2> HIDE DEF R
  <2> QED
    BY <2>1, <2>2 DEF StrictSubsetOrdering, R
<1> HIDE DEF R, F
<1>5. \E s \in Segs : \A u \in Segs : ~ (<<u, s>> \in R)
  <2> HIDE DEF Segs
  <2> QED
    BY <1>1, <1>2, <1>3, WFMin
<1>6. PICK x \in T : \A u \in Segs : ~ (<<u, 0 .. x>> \in R)
  BY <1>5
<1>7. \A y \in T : ~ (y < x)
  BY <1>4, <1>6
<1> QED
  BY <1>7

-----------------------------------------------------------------------------
(* The loop that moves a text by four bytes within its buffer.             *)

\* g[i] is what the loop stores in byte i.
Stores(buffer, n, g) ==
  g = [i \in 4 .. n + 3 |->
         IF i - 4 >= 4 /\ n + 3 - (i - 4) < n + 3 - i THEN g[i - 4] ELSE buffer[i - 4]]

\* Going down, a pass takes its byte from a place no pass has written yet.
LEMMA StoresOldBytes ==
  ASSUME NEW buffer, NEW n \in Nat
  PROVE  /\ \E g : Stores(buffer, n, g)
         /\ \A g : Stores(buffer, n, g) => \A i \in 4 .. n + 3 : g[i] = buffer[i - 4]
<1>1. \A i \in 4 .. n + 3 : ~ (n + 3 - (i - 4) < n + 3 - i)
  OBVIOUS
<1>2. ASSUME NEW g, Stores(buffer, n, g), NEW i \in 4 .. n + 3
      PROVE  g[i] = buffer[i - 4]
  <2>1. g[i] = IF i - 4 >= 4 /\ n + 3 - (i - 4) < n + 3 - i THEN g[i - 4] ELSE buffer[i - 4]
    BY <1>2 DEF Stores
  <2> QED
    BY <1>1, <2>1
<1>3. \E g : Stores(buffer, n, g)
  <2> DEFINE g == [i \in 4 .. n + 3 |-> buffer[i - 4]]
  <2>1. \A i \in 4 .. n + 3 :
          buffer[i - 4] = IF i - 4 >= 4 /\ n + 3 - (i - 4) < n + 3 - i THEN g[i - 4] ELSE buffer[i - 4]
    BY <1>1
  <2>2. Stores(buffer, n, g)
    BY <2>1 DEF Stores
  <2> QED
    BY <2>2
<1> QED
  BY <1>2, <1>3

\* What the buffer holds in the end: the length, and the text behind it.
LEMMA FramedBuffer ==
  ASSUME NEW buffer, NEW n \in Nat, NEW k \in DOMAIN buffer, DOMAIN buffer \subseteq Nat, k < n + 4
  PROVE  Framed(buffer, n)[k] = IF k < 4 THEN <<"length", n, k>> ELSE buffer[k - 4]
<1> DEFINE g == CHOOSE f : Stores(buffer, n, f)
<1>1. Stores(buffer, n, g)
  BY StoresOldBytes
<1>2. Framed(buffer, n)
        = [i \in DOMAIN buffer |->
             IF i < 4 THEN <<"length", n, i>> ELSE IF i < n + 4 THEN g[i] ELSE buffer[i]]
  BY DEF Framed, Stores
<1> HIDE DEF g
<1>3. k >= 4 => g[k] = buffer[k - 4]
  <2>1. k >= 4 => k \in 4 .. n + 3
    OBVIOUS
  <2>2. \A f : Stores(buffer, n, f) => \A i \in 4 .. n + 3 : f[i] = buffer[i - 4]
    BY StoresOldBytes
  <2> QED
    BY <1>1, <2>1, <2>2
<1> QED
  BY <1>2, <1>3

\* A text comes out of the framing, the reply and the printing as it went in, as far
\* as it fits the buffer together with its length.
LEMMA ShownIsTheText ==
  ASSUME NEW text, NEW S, text \in Seq(S)
  PROVE  Shown(text) = [i \in 1 .. Len(text) |->
                          IF i + 4 <= BufSize THEN text[i] ELSE <<"foreign", 0, i + 3>>]
<1> DEFINE n == Len(text)
           b == InBuffer(text)
           f == Framed(b, n)
           r == Received(f)
<1>1. n \in Nat /\ BufSize \in Nat /\ BufSize >= 4
  BY ServiceAssumption
<1>2. PICK top \in Nat : DOMAIN b = 0 .. top /\ n + 3 <= top /\ 0 <= top
  <2>1. CASE n + 4 > BufSize
    <3>1. DOMAIN b = 0 .. n + 3
      BY <1>1, <2>1 DEF InBuffer, Overrun
    <3> QED
      BY <1>1, <3>1
  <2>2. CASE ~ (n + 4 > BufSize)
    <3>1. DOMAIN b = 0 .. BufSize - 1
      BY <1>1, <2>2 DEF InBuffer, Overrun
    <3> QED
      BY <1>1, <2>2, <3>1
  <2> QED
    BY <2>1, <2>2
<1>3. \A k \in DOMAIN b : k < n => b[k] = text[k + 1]
  BY <1>1 DEF InBuffer
<1>4. DOMAIN f = DOMAIN b
  BY DEF Framed
<1>5. r = [i \in DOMAIN f |-> IF i < BufSize THEN f[i] ELSE <<"foreign", 0, i>>]
  BY DEF Received
<1> HIDE DEF n, b
<1>6. \A k \in 0 .. n + 3 : f[k] = IF k < 4 THEN <<"length", n, k>> ELSE b[k - 4]
  <2> TAKE k \in 0 .. n + 3
  <2>1. k \in DOMAIN b /\ DOMAIN b \subseteq Nat /\ k < n + 4
    BY <1>1, <1>2
  <2> QED
    BY <1>1, <2>1, FramedBuffer
<1> HIDE DEF f
<1> HIDE DEF r
<1>7. r[0][2] = n
  <2>1. 0 \in DOMAIN f /\ 0 \in 0 .. n + 3
    BY <1>1, <1>2, <1>4
  <2>2. f[0] = <<"length", n, 0>>
    <3>1. f[0] = IF 0 < 4 THEN <<"length", n, 0>> ELSE b[0 - 4]
      BY <1>6, <2>1, Zenon
    <3>2. 0 < 4
      OBVIOUS
    <3> QED
      BY <3>1, <3>2, Zenon
  <2>3. r[0] = f[0]
    BY <1>1, <1>5, <2>1
  <2> QED
    BY <2>2, <2>3
<1>8. ASSUME NEW i \in 1 .. n
      PROVE  r[i + 3] = IF i + 4 <= BufSize THEN text[i] ELSE <<"foreign", 0, i + 3>>
  <2>1. /\ i + 3 \in 0 .. n + 3 /\ ~ (i + 3 < 4) /\ (i + 3) - 4 = i - 1 /\ (i - 1) + 1 = i
        /\ i - 1 < n /\ i + 3 \in DOMAIN b /\ i - 1 \in DOMAIN b
        /\ (i + 3 < BufSize <=> i + 4 <= BufSize)
    BY <1>1, <1>2
  <2>2. f[i + 3] = text[i]
    BY <1>3, <1>6, <2>1
  <2> QED
    BY <1>4, <1>5, <2>1, <2>2
<1>9. Shown(text) = [i \in 1 .. n |-> r[i + 3]]
  BY <1>7 DEF Shown, Printed, n, b, f, r
<1> QED
  BY <1>8, <1>9 DEF n

-----------------------------------------------------------------------------
(* The width of a number is a positive number.                             *)

\* f counts digits as the recursion of Width does.
CountsDigits(f) == f = [x \in Nat |-> IF x < 10 THEN 1 ELSE 1 + f[x \div 10]]

\* g does so up to m.
CountsUpTo(m, g) ==
  g \in [0 .. m -> Nat] /\ \A x \in 0 .. m : g[x] = IF x < 10 THEN 1 ELSE 1 + g[x \div 10]

LEMMA Tenth == \A x \in Nat : x >= 10 => x \div 10 \in 0 .. x - 1
  OBVIOUS

LEMMA CountExists ==
  ASSUME NEW m \in Nat
  PROVE  \E g : CountsUpTo(m, g)
<1> DEFINE Bad == {k \in Nat : \A g : ~CountsUpTo(k, g)}
<1>1. SUFFICES ASSUME Bad # {} PROVE FALSE
  OBVIOUS
<1>2. PICK k \in Bad : \A e \in Bad : k <= e
  <2>1. Bad \in SUBSET Nat
    OBVIOUS
  <2> HIDE DEF Bad
  <2> QED
    BY <1>1, <2>1, Least
<1>3. CASE k = 0
  <2> DEFINE g == [x \in 0 .. 0 |-> 1]
  <2>1. CountsUpTo(0, g)
    BY DEF CountsUpTo
  <2> QED
    BY <1>2, <1>3, <2>1
<1>4. CASE k # 0
  <2>1. k - 1 \in Nat /\ k \in Nat /\ ~ (k <= k - 1)
    BY <1>4
  <2>2. PICK h : CountsUpTo(k - 1, h)
    BY <1>2, <2>1
  <2> DEFINE last == IF k < 10 THEN 1 ELSE 1 + h[k \div 10]
             g == [x \in 0 .. k |-> IF x = k THEN last ELSE h[x]]
  <2>3. last \in Nat
    BY <2>1, <2>2, Tenth DEF CountsUpTo
  <2>4. g \in [0 .. k -> Nat]
    <3> HIDE DEF last
    <3> QED
      BY <2>1, <2>2, <2>3 DEF CountsUpTo
  <2>5. ASSUME NEW x \in 0 .. k
        PROVE  g[x] = IF x < 10 THEN 1 ELSE 1 + g[x \div 10]
    <3>1. x >= 10 => x \div 10 \in 0 .. x - 1
      BY Tenth
    <3>2. x >= 10 => x \div 10 \in 0 .. k - 1 /\ x \div 10 # k
      BY <2>1, <3>1
    <3>3. x >= 10 => g[x \div 10] = h[x \div 10]
      BY <3>2
    <3>4. CASE x = k
      BY <3>3, <3>4, <2>1
    <3>5. CASE x # k
      <4>1. x \in 0 .. k - 1 /\ g[x] = h[x]
        BY <3>5, <2>1
      <4> QED
        BY <4>1, <3>3, <2>1, <2>2 DEF CountsUpTo
    <3> QED
      BY <3>4, <3>5
  <2> HIDE DEF g
  <2>6. CountsUpTo(k, g)
    BY <2>4, <2>5 DEF CountsUpTo
  <2> QED
    BY <1>2, <2>6
<1> QED
  BY <1>3, <1>4

LEMMA CountUnique ==
  ASSUME NEW m \in Nat, NEW k \in Nat, NEW g, NEW h, CountsUpTo(m, g), CountsUpTo(k, h),
         NEW x \in Nat, x <= m, x <= k
  PROVE  g[x] = h[x]
<1> DEFINE Bad == {y \in 0 .. x : g[y] # h[y]}
<1>1. SUFFICES ASSUME Bad # {} PROVE FALSE
  OBVIOUS
<1>2. PICK y \in Bad : \A e \in Bad : y <= e
  <2>1. Bad \in SUBSET Nat
    OBVIOUS
  <2> HIDE DEF Bad
  <2> QED
    BY <1>1, <2>1, Least
<1>3. y \in 0 .. m /\ y \in 0 .. k
  OBVIOUS
<1>4. CASE y < 10
  BY <1>2, <1>3, <1>4 DEF CountsUpTo
<1>5. CASE y >= 10
  <2>1. y \div 10 \in 0 .. y - 1
    BY <1>5, Tenth
  <2>2. g[y \div 10] = h[y \div 10]
    BY <1>2, <2>1
  <2> QED
    BY <1>2, <1>3, <1>5, <2>2 DEF CountsUpTo
<1> QED
  BY <1>4, <1>5

LEMMA DigitsExist == \E f : CountsDigits(f)
<1> DEFINE G(x) == CHOOSE g : CountsUpTo(x, g)
           f    == [x \in Nat |-> G(x)[x]]
<1>1. \A x \in Nat : CountsUpTo(x, G(x))
  BY CountExists
<1> HIDE DEF G
<1>2. ASSUME NEW x \in Nat
      PROVE  f[x] = IF x < 10 THEN 1 ELSE 1 + f[x \div 10]
  <2>1. CASE x < 10
    <3>1. x \in 0 .. x
      OBVIOUS
    <3>2. G(x)[x] = 1
      BY <1>1, <2>1, <3>1 DEF CountsUpTo
    <3> QED
      BY <2>1, <3>2
  <2>2. CASE x >= 10
    <3>1. x \div 10 \in Nat /\ x \div 10 <= x
      BY <2>2, Tenth
    <3>2. G(x)[x \div 10] = G(x \div 10)[x \div 10]
      BY <1>1, <3>1, CountUnique
    <3>3. G(x)[x] = 1 + G(x)[x \div 10]
      <4>1. x \in 0 .. x /\ ~ (x < 10)
        BY <2>2
      <4>2. CountsUpTo(x, G(x))
        BY <1>1
      <4> QED
        BY <4>1, <4>2 DEF CountsUpTo
    <3> QED
      BY <2>2, <3>1, <3>2, <3>3
  <2> QED
    BY <2>1, <2>2
<1>3. f = [x \in Nat |-> f[x]]
  OBVIOUS
<1> HIDE DEF f
<1>4. CountsDigits(f)
  BY <1>2, <1>3 DEF CountsDigits
<1> QED
  BY <1>4

LEMMA DigitsType ==
  ASSUME NEW f, CountsDigits(f), NEW x \in Nat
  PROVE  f[x] \in Nat \ {0}
<1> DEFINE Bad == {y \in Nat : f[y] \notin Nat \ {0}}
<1>1. SUFFICES ASSUME Bad # {} PROVE FALSE
  OBVIOUS
<1>2. PICK y \in Bad : \A e \in Bad : y <= e
  <2>1. Bad \in SUBSET Nat
    OBVIOUS
  <2> HIDE DEF Bad
  <2> QED
    BY <1>1, <2>1, Least
<1>3. f[y] = IF y < 10 THEN 1 ELSE 1 + f[y \div 10]
  BY DEF CountsDigits
<1>4. y >= 10 => f[y \div 10] \in Nat \ {0}
  <2>1. y >= 10 => y \div 10 \in Nat /\ ~ (y <= y \div 10)
    BY Tenth
  <2> QED
    BY <1>2, <2>1
<1> QED
  BY <1>2, <1>3, <1>4

LEMMA WidthType == \A n \in Int : Width(n) \in Nat \ {0}
<1> SUFFICES ASSUME NEW n \in Int PROVE Width(n) \in Nat \ {0}
  OBVIOUS
<1> DEFINE f == CHOOSE g : CountsDigits(g)
           m == IF n < 0 THEN -n ELSE n
<1>1. CountsDigits(f)
  BY DigitsExist
<1>2. Width(n) = IF n < 0 THEN 1 + f[m] ELSE f[m]
  BY DEF Width, CountsDigits
<1>3. m \in Nat
  OBVIOUS
<1> HIDE DEF f, m
<1>4. f[m] \in Nat \ {0}
  BY <1>1, <1>3, DigitsType
<1> QED
  BY <1>2, <1>4
-----------------------------------------------------------------------------
(* The texts are sequences of bytes.                                       *)

IsText(t) == \E S : t \in Seq(S)

LEMMA FieldType ==
  ASSUME NEW what, NEW v, NEW n \in Nat
  PROVE  /\ IsText(Field(what, v, n))
         /\ Len(Field(what, v, n)) = n
         /\ \A k \in 1 .. n : Field(what, v, n)[k] = <<what, v, k>>
<1> DEFINE S == {<<what, v, k>> : k \in 1 .. n}
<1>1. Field(what, v, n) = [k \in 1 .. n |-> <<what, v, k>>]
  BY DEF Field
<1>2. Field(what, v, n) \in Seq(S) /\ Len(Field(what, v, n)) = n
  BY <1>1
<1> QED
  BY <1>1, <1>2 DEF IsText

LEMMA SayType ==
  ASSUME NEW what, NEW n \in Nat
  PROVE  IsText(Say(what, n)) /\ Len(Say(what, n)) = n
BY FieldType DEF Say

LEMMA NumberType ==
  ASSUME NEW n \in Int
  PROVE  IsText(Number(n))
BY FieldType, WidthType DEF Number

LEMMA EmptyText == IsText(<<>>) /\ Len(<<>>) = 0
<1>1. <<>> \in Seq({})
  OBVIOUS
<1> QED
  BY <1>1 DEF IsText

\* Joining texts.
LEMMA Join ==
  ASSUME NEW s, NEW t, IsText(s), IsText(t)
  PROVE  /\ IsText(s \o t)
         /\ Len(s \o t) = Len(s) + Len(t)
         /\ \A i \in 1 .. Len(s) : (s \o t)[i] = s[i]
         /\ \A i \in 1 .. Len(t) : (s \o t)[Len(s) + i] = t[i]
<1>1. PICK S : s \in Seq(S)
  BY DEF IsText
<1>2. PICK T : t \in Seq(T)
  BY DEF IsText
<1>3. s \in Seq(S \cup T) /\ t \in Seq(S \cup T)
  BY <1>1, <1>2
<1>4. s \o t \in Seq(S \cup T)
  BY <1>3
<1> QED
  BY <1>3, <1>4 DEF IsText

LEMMA JoinType ==
  \A s, t : IsText(s) /\ IsText(t) => IsText(s \o t)
BY Join

LEMMA LenType ==
  ASSUME NEW s, IsText(s)
  PROVE  Len(s) \in Nat /\ DOMAIN s = 1 .. Len(s)
BY DEF IsText

LEMMA CStringType ==
  ASSUME NEW b, IsText(b)
  PROVE  IsText(CString(b))
<1> DEFINE ends == {i \in 1 .. Len(b) : b[i] = NUL}
           e == CHOOSE i \in ends : \A j \in ends : i <= j
<1>1. CASE ends = {}
  BY <1>1 DEF CString
<1>2. CASE ends # {}
  <2>1. \E i \in ends : \A j \in ends : i <= j
    <3>1. ends \in SUBSET Nat
      OBVIOUS
    <3> HIDE DEF ends
    <3> QED
      BY <1>2, <3>1, Least
  <2>2. e \in ends
    <3> HIDE DEF ends
    <3> QED
      BY <2>1
  <2>3. CString(b) = SubSeq(b, 1, e - 1)
    BY <1>2 DEF CString
  <2>4. e \in 1 .. Len(b)
    BY <2>2
  <2> HIDE DEF e
  <2>5. PICK S : b \in Seq(S)
    BY DEF IsText
  <2>6. SubSeq(b, 1, e - 1) \in Seq(S)
    BY <2>4, <2>5
  <2> QED
    BY <2>3, <2>6 DEF IsText
<1> QED
  BY <1>1, <1>2

LEMMA QuotType ==
  ASSUME NEW a \in Int, NEW b \in Nat \ {0}
  PROVE  Quot(a, b) \in Int
<1>1. \A x \in Int : x \div b \in Int
  OBVIOUS
<1> QED
  BY <1>1 DEF Quot

LEMMA VersionText ==
  ASSUME NEW v \in 1 .. Len(Versions), NEW rtl \in BOOLEAN
  PROVE  IsText(os_version_handler(v, rtl))
<1>1. Len(Versions) = 11
  BY DEF Versions
<1>2. \A k \in 1 .. 11 : VersionLen[k] \in Nat
  BY DEF VersionLen
<1> DEFINE k == IF v = 1 /\ ~rtl THEN 2 ELSE v
<1>3. k \in 1 .. 11
  BY <1>1
<1>4. os_version_handler(v, rtl) = Say(Versions[k], VersionLen[k])
  BY DEF os_version_handler
<1> HIDE DEF k
<1> QED
  BY <1>1, <1>2, <1>3, <1>4, SayType

LEMMA TimeText ==
  ASSUME NEW t \in Times
  PROVE  IsText(current_time_handler(t))
<1>1. t.day = 9 /\ t.month = 12 /\ t.year = 2020 /\ t.hour = 0 /\ t.minute = 59 /\ t.second = 10
  BY DEF Times
<1>2. \A n \in Nat : IsText(Two(n))
  <2>1. \A n \in Nat : n \div 10 \in Int /\ n % 10 \in Int
    OBVIOUS
  <2>2. \A n \in Int : IsText(Field("number", n, 1))
    BY FieldType
  <2> QED
    BY <2>1, <2>2, JoinType DEF Two
<1>3. /\ IsText(Two(t.day)) /\ IsText(Two(t.month)) /\ IsText(Two(t.hour))
      /\ IsText(Two(t.minute)) /\ IsText(Two(t.second))
  BY <1>1, <1>2
<1>4. IsText(Number(t.year))
  BY <1>1, NumberType
<1>5. IsText(Say(".", 1)) /\ IsText(Say(" ", 1)) /\ IsText(Say(":", 1))
  BY SayType
<1> QED
  BY <1>3, <1>4, <1>5, JoinType DEF current_time_handler

LEMMA MemoryText ==
  ASSUME NEW w \in MemoryWidths
  PROVE  IsText(memory_status_handler(w))
<1>1. \A j \in 1 .. 7 : w[j] \in Nat
  BY ServiceAssumption
<1>2. \A n \in Nat, m \in Nat : IsText(MemoryLine(n, m))
  <2> TAKE n \in Nat, m \in Nat
  <2>1. /\ IsText(Say("label", n)) /\ IsText(Say("number", m))
        /\ IsText(Say(" Bytes, ", 8)) /\ IsText(Say("GB", 5))
        /\ IsText(Say(" GB\n", 4))
    BY SayType
  <2> QED
    BY <2>1, JoinType DEF MemoryLine
<1>3. /\ IsText(MemoryLine(11, w[2])) /\ IsText(MemoryLine(11, w[3]))
      /\ IsText(MemoryLine(15, w[4])) /\ IsText(MemoryLine(15, w[5]))
      /\ IsText(MemoryLine(14, w[6])) /\ IsText(MemoryLine(14, w[7]))
  BY <1>1, <1>2
<1>4. IsText(Say("label", 12)) /\ IsText(Say("number", w[1])) /\ IsText(Say("%\n", 2))
  BY <1>1, SayType
<1> QED
  BY <1>3, <1>4, JoinType DEF memory_status_handler

LEMMA FileTexts ==
  ASSUME NEW n \in NameWidths
  PROVE  IsText(owner_handler(n)) /\ IsText(access_right_handler(n, 12, 8))
<1>1. n \in Nat
  BY ServiceAssumption
<1>2. /\ IsText(Say("Owner: ", 7)) /\ IsText(Say("Max", 3)) /\ IsText(Say("user", n))
      /\ IsText(Say("User: ", 6)) /\ IsText(Say("\nSID: ", 6)) /\ IsText(Say("sid", 12))
      /\ IsText(Say("\nMask: ", 7)) /\ IsText(Say("mask", 8))
  BY <1>1, SayType
<1>3. IsText(owner_handler(n))
  BY <1>2, JoinType DEF owner_handler
<1>4. IsText(access_right_handler(n, 12, 8))
  <2>1. CASE n = 0
    BY <2>1, EmptyText DEF access_right_handler
  <2>2. CASE n # 0
    BY <1>2, <2>2, JoinType DEF access_right_handler
  <2> QED
    BY <2>1, <2>2
<1> QED
  BY <1>3, <1>4
-----------------------------------------------------------------------------
(* Where the fields of a text begin.                                       *)

LEMMA StartsField ==
  ASSUME NEW what, NEW v, NEW n \in Nat, NEW kinds
  PROVE  Starts(Field(what, v, n), kinds) = IF what \in kinds /\ n > 0 THEN {1} ELSE {}
<1> DEFINE t == Field(what, v, n)
<1>1. DOMAIN t = 1 .. n /\ \A k \in 1 .. n : t[k] = <<what, v, k>>
  BY DEF Field
<1> HIDE DEF t
<1>2. \A k \in 1 .. n : t[k][1] = what /\ t[k][3] = k
  BY <1>1
<1>3. Starts(t, kinds) = {k \in 1 .. n : what \in kinds /\ k = 1}
  BY <1>1, <1>2 DEF Starts
<1>4. {k \in 1 .. n : what \in kinds /\ k = 1} = IF what \in kinds /\ n > 0 THEN {1} ELSE {}
  OBVIOUS
<1> QED
  BY <1>3, <1>4 DEF t

LEMMA StartsJoin ==
  ASSUME NEW s, NEW t, IsText(s), IsText(t), NEW kinds
  PROVE  Starts(s \o t, kinds) = Starts(s, kinds) \cup {Len(s) + i : i \in Starts(t, kinds)}
<1> DEFINE u == s \o t
<1>1. /\ Len(s) \in Nat /\ DOMAIN s = 1 .. Len(s) /\ Len(t) \in Nat /\ DOMAIN t = 1 .. Len(t)
      /\ IsText(u) /\ Len(u) = Len(s) + Len(t) /\ DOMAIN u = 1 .. Len(s) + Len(t)
  BY Join, LenType
<1>2. \A i \in 1 .. Len(s) : u[i] = s[i]
  BY Join
<1>3. \A i \in 1 .. Len(t) : u[Len(s) + i] = t[i]
  BY Join
<1> HIDE DEF u
<1>4. ASSUME NEW i \in 1 .. Len(s)
      PROVE  i \in Starts(u, kinds) <=> i \in Starts(s, kinds)
  BY <1>1, <1>2 DEF Starts
<1>5. ASSUME NEW i \in 1 .. Len(t)
      PROVE  Len(s) + i \in Starts(u, kinds) <=> i \in Starts(t, kinds)
  <2>1. Len(s) + i \in DOMAIN u /\ u[Len(s) + i] = t[i]
    BY <1>1, <1>3
  <2> QED
    BY <1>1, <2>1 DEF Starts
<1>6. \A i \in 1 .. Len(s) + Len(t) : i \in 1 .. Len(s) \/ \E j \in 1 .. Len(t) : i = Len(s) + j
  <2> TAKE i \in 1 .. Len(s) + Len(t)
  <2>1. i \in 1 .. Len(s) \/ (i - Len(s) \in 1 .. Len(t) /\ i = Len(s) + (i - Len(s)))
    BY <1>1
  <2> QED
    BY <2>1
<1>7. Starts(u, kinds) \subseteq 1 .. Len(s) + Len(t) /\ Starts(s, kinds) \subseteq 1 .. Len(s)
      /\ Starts(t, kinds) \subseteq 1 .. Len(t)
  BY <1>1 DEF Starts
<1>8. \A i \in 1 .. Len(t) : Len(s) + i \notin 1 .. Len(s)
  BY <1>1
<1>9. Starts(u, kinds) \subseteq Starts(s, kinds) \cup {Len(s) + i : i \in Starts(t, kinds)}
  BY <1>4, <1>5, <1>6, <1>7
<1>10. Starts(s, kinds) \cup {Len(s) + i : i \in Starts(t, kinds)} \subseteq Starts(u, kinds)
  BY <1>4, <1>5, <1>7
<1> QED
  BY <1>9, <1>10 DEF u

\* t is s with a field put behind it.
Added(t, s, what, v, n, kinds) ==
  /\ IsText(t) /\ Len(t) = Len(s) + n
  /\ Starts(t, kinds) = Starts(s, kinds) \cup (IF what \in kinds /\ n > 0 THEN {Len(s) + 1} ELSE {})
  /\ \A i \in 1 .. Len(s) : t[i] = s[i]
  /\ \A k \in 1 .. n : t[Len(s) + k] = <<what, v, k>>

LEMMA AddField ==
  ASSUME NEW s, IsText(s), NEW what, NEW v, NEW n \in Nat, NEW kinds
  PROVE  Added(s \o Field(what, v, n), s, what, v, n, kinds)
<1> DEFINE f == Field(what, v, n)
<1>1. IsText(f) /\ Len(f) = n
  BY FieldType
<1>2. \A k \in 1 .. n : f[k] = <<what, v, k>>
  BY FieldType
<1>3. Starts(f, kinds) = IF what \in kinds /\ n > 0 THEN {1} ELSE {}
  BY StartsField
<1> HIDE DEF f
<1>4. Starts(s \o f, kinds) = Starts(s, kinds) \cup {Len(s) + i : i \in Starts(f, kinds)}
  BY <1>1, StartsJoin
<1>5. {Len(s) + i : i \in Starts(f, kinds)} = IF what \in kinds /\ n > 0 THEN {Len(s) + 1} ELSE {}
  BY <1>3
<1>6. /\ IsText(s \o f) /\ Len(s \o f) = Len(s) + n
      /\ \A i \in 1 .. Len(s) : (s \o f)[i] = s[i]
  BY <1>1, Join
<1>7. \A k \in 1 .. n : (s \o f)[Len(s) + k] = <<what, v, k>>
  <2>1. \A k \in 1 .. Len(f) : (s \o f)[Len(s) + k] = f[k]
    BY <1>1, Join
  <2> QED
    BY <1>1, <1>2, <2>1
<1>8. Added(s \o f, s, what, v, n, kinds)
  BY <1>4, <1>5, <1>6, <1>7 DEF Added
<1> QED
  BY <1>8 DEF f
-----------------------------------------------------------------------------
(* The uptime.                                                             *)

LEMMA DivMod ==
  ASSUME NEW a \in Nat, NEW b \in Nat \ {0}
  PROVE  /\ a \div b \in Nat
         /\ b * (a \div b) <= a /\ a < b * (a \div b) + b
OBVIOUS

LEMMA Cancel ==
  ASSUME NEW b \in Nat \ {0}, NEW x \in Int, NEW y \in Int, b * x < b * y
  PROVE  x < y
<1>1. SUFFICES ASSUME x >= y PROVE FALSE
  OBVIOUS
<1>2. PICK d \in Nat : x = y + d
  <2>1. x - y \in Nat /\ x = y + (x - y)
    BY <1>1
  <2> QED
    BY <2>1
<1>3. b * d \in Nat
  OBVIOUS
<1>4. b * x = b * y + b * d
  BY <1>2
<1>5. b * x \in Int /\ b * y \in Int
  OBVIOUS
<1> QED
  BY <1>3, <1>4, <1>5

\* Dividing once by 60 b is dividing by b and then by 60.
LEMMA Sixtieth ==
  ASSUME NEW a \in Nat, NEW b \in Nat \ {0}
  PROVE  (a \div b) - (a \div (b * 60)) * 60 \in 0 .. 59
<1> DEFINE q == a \div b
           r == a \div (b * 60)
<1>1. b * 60 \in Nat \ {0}
  OBVIOUS
<1>2. q \in Nat /\ b * q <= a /\ a < b * q + b
  BY DivMod
<1>3. r \in Nat /\ (b * 60) * r <= a /\ a < (b * 60) * r + b * 60
  BY <1>1, DivMod
<1> HIDE DEF q, r
<1>4. b * (q + 1) = b * q + b /\ b * (r * 60) = (b * 60) * r
  BY <1>2, <1>3
<1>5. b * (r * 60 + 60) = b * (r * 60) + b * 60
  BY <1>3
<1>6. b * q \in Int /\ (b * 60) * r \in Int
  BY <1>2, <1>3
<1>7. b * (r * 60) < b * (q + 1) /\ b * q < b * (r * 60 + 60)
  BY <1>2, <1>3, <1>4, <1>5, <1>6
<1>8. r * 60 < q + 1
  BY <1>2, <1>3, <1>7, Cancel
<1>9. q < r * 60 + 60
  BY <1>2, <1>3, <1>7, Cancel
<1>10. q - r * 60 \in 0 .. 59
  BY <1>2, <1>3, <1>8, <1>9
<1> QED
  BY <1>10 DEF q, r

\* The same for the division of C.
LEMMA QuotSixtieth ==
  ASSUME NEW t \in Int, NEW b \in Nat \ {0}
  PROVE  /\ Quot(t, b) \in Int /\ Quot(t, b * 60) \in Int
         /\ Quot(t, b) - Quot(t, b * 60) * 60 \in -59 .. 59
         /\ t >= 0 => Quot(t, b * 60) >= 0 /\ Quot(t, b) - Quot(t, b * 60) * 60 >= 0
<1>1. b * 60 \in Nat \ {0}
  OBVIOUS
<1>2. ASSUME NEW a \in Nat
      PROVE  /\ a \div b \in Nat /\ a \div (b * 60) \in Nat
             /\ (a \div b) - (a \div (b * 60)) * 60 \in 0 .. 59
  BY <1>1, DivMod, Sixtieth
<1>3. CASE t >= 0
  <2>1. Quot(t, b) = t \div b /\ Quot(t, b * 60) = t \div (b * 60) /\ t \in Nat
    BY <1>3 DEF Quot
  <2> DEFINE q == t \div b
             r == t \div (b * 60)
  <2>2. q \in Nat /\ r \in Nat /\ q - r * 60 \in 0 .. 59
    BY <1>2, <2>1
  <2>3. Quot(t, b) = q /\ Quot(t, b * 60) = r
    BY <2>1
  <2> HIDE DEF q, r
  <2> QED
    BY <2>2, <2>3
<1>4. CASE ~ (t >= 0)
  <2>1. Quot(t, b) = -((-t) \div b) /\ Quot(t, b * 60) = -((-t) \div (b * 60)) /\ -t \in Nat
    BY <1>4 DEF Quot
  <2> DEFINE q == (-t) \div b
             r == (-t) \div (b * 60)
  <2>2. q \in Nat /\ r \in Nat /\ q - r * 60 \in 0 .. 59
    BY <1>2, <2>1
  <2>3. Quot(t, b) = -q /\ Quot(t, b * 60) = -r
    BY <2>1
  <2> HIDE DEF q, r
  <2> QED
    BY <1>4, <2>2, <2>3
<1> QED
  BY <1>3, <1>4

\* What os_time_handler computes.
Hours(ticks)   == Quot(AsInt(ticks), Second * 60 * 60)
Minutes(ticks) == Quot(AsInt(ticks), Second * 60) - Hours(ticks) * 60
Seconds(ticks) == Quot(AsInt(ticks), Second) - (Hours(ticks) * 60 * 60) - Minutes(ticks) * 60

LEMMA UptimeParts ==
  ASSUME NEW ticks \in 0 .. Word - 1
  PROVE  /\ Hours(ticks) \in Int /\ Minutes(ticks) \in -59 .. 59 /\ Seconds(ticks) \in -59 .. 59
         /\ Hours(ticks) * 3600 + Minutes(ticks) * 60 + Seconds(ticks) = Quot(AsInt(ticks), Second)
         /\ ticks < Word \div 2 => Hours(ticks) >= 0 /\ Minutes(ticks) >= 0 /\ Seconds(ticks) >= 0
<1> DEFINE t == AsInt(ticks)
           h == Quot(t, Second * 60 * 60)
           m == Quot(t, Second * 60)
           s == Quot(t, Second)
<1>1. t \in Int /\ (ticks < Word \div 2 => t >= 0)
  BY InfoAssumption DEF AsInt
<1>2. Second \in Nat \ {0} /\ Second * 60 \in Nat \ {0}
  BY InfoAssumption
<1> HIDE DEF t
<1>3. /\ h \in Int /\ m \in Int /\ m - h * 60 \in -59 .. 59
      /\ t >= 0 => h >= 0 /\ m - h * 60 >= 0
  BY <1>1, <1>2, QuotSixtieth
<1>4. /\ s \in Int /\ s - m * 60 \in -59 .. 59
      /\ t >= 0 => s - m * 60 >= 0
  BY <1>1, <1>2, QuotSixtieth
<1>5. /\ Hours(ticks) = h /\ Minutes(ticks) = m - h * 60
      /\ Seconds(ticks) = s - (h * 60 * 60) - (m - h * 60) * 60
  BY DEF Hours, Minutes, Seconds, t
<1> HIDE DEF h, m, s
<1>6. Seconds(ticks) = s - m * 60
  BY <1>3, <1>4, <1>5
<1>7. Hours(ticks) * 3600 + Minutes(ticks) * 60 + Seconds(ticks) = s
  BY <1>3, <1>4, <1>5
<1> QED
  BY <1>1, <1>3, <1>4, <1>5, <1>6, <1>7 DEF s, t

\* The report of the uptime: three numbers, with words behind each.
LEMMA UptimeText ==
  ASSUME NEW ticks \in 0 .. Word - 1
  PROVE  /\ IsText(os_time_handler(ticks))
         /\ \E h, m, s \in Starts(os_time_handler(ticks), {"number"}) :
              /\ Starts(os_time_handler(ticks), {"number"}) = {h, m, s} /\ h < m /\ m < s
              /\ os_time_handler(ticks)[h][2] = Hours(ticks)
              /\ os_time_handler(ticks)[m][2] = Minutes(ticks)
              /\ os_time_handler(ticks)[s][2] = Seconds(ticks)
<1> DEFINE H == Hours(ticks)
           M == Minutes(ticks)
           S == Seconds(ticks)
           K == {"number"}
           t1 == Field("number", H, Width(H))
           t2 == t1 \o Field(" hours, ", 0, 8)
           t3 == t2 \o Field("number", M, Width(M))
           t4 == t3 \o Field(" minutes, ", 0, 10)
           t5 == t4 \o Field("number", S, Width(S))
           t6 == t5 \o Field(" seconds", 0, 8)
<1>1. os_time_handler(ticks) = t6
  BY DEF os_time_handler, Number, Say, Hours, Minutes, Seconds
<1>2. H \in Int /\ M \in Int /\ S \in Int
  BY UptimeParts
<1>3. Width(H) \in Nat \ {0} /\ Width(M) \in Nat \ {0} /\ Width(S) \in Nat \ {0}
  BY <1>2, WidthType
<1> HIDE DEF H, M, S
<1>4. /\ IsText(t1) /\ Len(t1) = Width(H) /\ Starts(t1, K) = {1}
      /\ t1[1] = <<"number", H, 1>>
  <2>1. IsText(t1) /\ Len(t1) = Width(H)
    BY <1>3, FieldType
  <2>2. \A k \in 1 .. Width(H) : t1[k] = <<"number", H, k>>
    BY <1>3, FieldType
  <2>3. 1 \in 1 .. Width(H)
    BY <1>3
  <2>4. Starts(t1, K) = {1}
    <3>1. Starts(t1, K) = IF "number" \in K /\ Width(H) > 0 THEN {1} ELSE {}
      BY <1>3, StartsField
    <3> QED
      BY <1>3, <3>1
  <2> QED
    BY <2>1, <2>2, <2>3, <2>4
<1> HIDE DEF t1
<1>5. /\ IsText(t2) /\ Len(t2) = Width(H) + 8 /\ Starts(t2, K) = {1}
      /\ t2[1] = <<"number", H, 1>>
  <2>1. Added(t2, t1, " hours, ", 0, 8, K)
    BY <1>4, AddField
  <2>2. " hours, " \notin K /\ 1 \in 1 .. Len(t1)
    BY <1>3, <1>4
  <2> QED
    BY <1>4, <2>1, <2>2 DEF Added
<1> HIDE DEF t2
<1> DEFINE b == Width(H) + 9
<1>6. /\ IsText(t3) /\ Len(t3) = Width(H) + 8 + Width(M) /\ Starts(t3, K) = {1, b}
      /\ t3[1] = <<"number", H, 1>> /\ t3[b] = <<"number", M, 1>>
  <2>1. Added(t3, t2, "number", M, Width(M), K)
    BY <1>3, <1>5, AddField
  <2>2. 1 \in 1 .. Len(t2) /\ 1 \in 1 .. Width(M) /\ Len(t2) + 1 = b /\ Width(M) > 0
    BY <1>3, <1>5
  <2> QED
    BY <1>5, <2>1, <2>2 DEF Added
<1> HIDE DEF t3
<1>7. /\ IsText(t4) /\ Len(t4) = Width(H) + 18 + Width(M) /\ Starts(t4, K) = {1, b}
      /\ t4[1] = <<"number", H, 1>> /\ t4[b] = <<"number", M, 1>>
  <2>1. Added(t4, t3, " minutes, ", 0, 10, K)
    BY <1>6, AddField
  <2>2. " minutes, " \notin K /\ 1 \in 1 .. Len(t3) /\ b \in 1 .. Len(t3)
    BY <1>3, <1>6
  <2> QED
    <3> HIDE DEF b
    <3>1. IsText(t4) /\ Len(t4) = Width(H) + 18 + Width(M)
      <4>1. IsText(t4) /\ Len(t4) = Len(t3) + 10
        BY <2>1 DEF Added
      <4> HIDE DEF t4
      <4> QED
        BY <1>3, <1>6, <4>1
    <3>2. Starts(t4, K) = {1, b}
      BY <1>6, <2>1, <2>2 DEF Added
    <3>3. t4[1] = <<"number", H, 1>> /\ t4[b] = <<"number", M, 1>>
      BY <1>6, <2>1, <2>2 DEF Added
    <3> QED
      BY <3>1, <3>2, <3>3
<1> HIDE DEF t4
<1> DEFINE c == Width(H) + Width(M) + 19
<1>8. /\ IsText(t5) /\ Len(t5) = Width(H) + 18 + Width(M) + Width(S) /\ Starts(t5, K) = {1, b, c}
      /\ t5[1] = <<"number", H, 1>> /\ t5[b] = <<"number", M, 1>> /\ t5[c] = <<"number", S, 1>>
  <2>1. Added(t5, t4, "number", S, Width(S), K)
    BY <1>3, <1>7, AddField
  <2>2. /\ 1 \in 1 .. Len(t4) /\ b \in 1 .. Len(t4) /\ 1 \in 1 .. Width(S) /\ Len(t4) + 1 = c
        /\ Width(S) > 0
    BY <1>3, <1>7
  <2> QED
    BY <1>7, <2>1, <2>2 DEF Added
<1> HIDE DEF t5
<1>9. /\ IsText(t6) /\ Starts(t6, K) = {1, b, c}
      /\ t6[1] = <<"number", H, 1>> /\ t6[b] = <<"number", M, 1>> /\ t6[c] = <<"number", S, 1>>
  <2>1. Added(t6, t5, " seconds", 0, 8, K)
    BY <1>8, AddField
  <2>2. " seconds" \notin K
    OBVIOUS
  <2>3. 1 \in 1 .. Len(t5) /\ b \in 1 .. Len(t5) /\ c \in 1 .. Len(t5)
    <3>1. Len(t5) = Width(H) + 18 + Width(M) + Width(S)
      BY <1>8
    <3> HIDE DEF t5
    <3> QED
      BY ONLY <1>3, <3>1
  <2> HIDE DEF b, c
  <2> QED
    BY <1>8, <2>1, <2>2, <2>3 DEF Added
<1> HIDE DEF t6
<1>10. 1 < b /\ b < c
  BY <1>3
<1> HIDE DEF b, c
<1>11. t6[1][2] = H /\ t6[b][2] = M /\ t6[c][2] = S
  BY <1>9
<1> QED
  BY <1>1, <1>9, <1>10, <1>11 DEF H, M, S
-----------------------------------------------------------------------------
(* The rows of the report of the drive types.                              *)

NoNul(t) == \A i \in 1 .. Len(t) : t[i] # NUL

LEMMA JoinNoNul ==
  ASSUME NEW s, NEW t, IsText(s), IsText(t), NoNul(s), NoNul(t)
  PROVE  NoNul(s \o t)
<1> DEFINE u == s \o t
<1>1. Len(s) \in Nat /\ Len(t) \in Nat /\ Len(u) = Len(s) + Len(t)
  BY Join, LenType
<1>2. \A i \in 1 .. Len(s) : u[i] = s[i]
  BY Join
<1>3. \A i \in 1 .. Len(t) : u[Len(s) + i] = t[i]
  BY Join
<1> HIDE DEF u
<1>4. ASSUME NEW i \in 1 .. Len(u)
      PROVE  u[i] # NUL
  <2>1. CASE i \in 1 .. Len(s)
    BY <1>2, <2>1 DEF NoNul
  <2>2. CASE i \notin 1 .. Len(s)
    <3>1. i - Len(s) \in 1 .. Len(t) /\ Len(s) + (i - Len(s)) = i
      BY <1>1, <2>2
    <3> QED
      BY <1>3, <3>1 DEF NoNul
  <2> QED
    BY <2>1, <2>2
<1> QED
  BY <1>4 DEF NoNul, u

LEMMA FieldNoNul ==
  ASSUME NEW what, NEW v, NEW n \in Nat, what # "NUL"
  PROVE  NoNul(Field(what, v, n))
<1>1. \A k \in 1 .. n : Field(what, v, n)[k] = <<what, v, k>>
  BY FieldType
<1>2. Len(Field(what, v, n)) = n
  BY FieldType
<1>3. \A k \in 1 .. n : <<what, v, k>> # NUL
  BY DEF NUL
<1> QED
  BY <1>1, <1>2, <1>3 DEF NoNul

LEMMA AddFieldNoNul ==
  ASSUME NEW s, IsText(s), NoNul(s), NEW what, NEW v, NEW n \in Nat, what # "NUL"
  PROVE  NoNul(s \o Field(what, v, n))
BY FieldType, FieldNoNul, JoinNoNul

LEMMA CStringOfAll ==
  ASSUME NEW t, NoNul(t)
  PROVE  CString(t) = t
BY DEF CString, NoNul

LEMMA TypeNameField ==
  ASSUME NEW type \in 1 .. 6, NEW past \in Nat
  PROVE  \E what, n : /\ n \in Nat /\ TypeName(type, past) = Field(what, type, n)
                      /\ what # "drive" /\ what # "fs" /\ what # "junk" /\ what # "NUL"
<1>1. CASE type \in {1, 2, 3}
  <2>1. TypeName(type, past) = Field(disks_types[type + 1], type, TypeNameLen[type + 1])
    <3>1. type < 4
      BY <1>1
    <3> QED
      BY <3>1 DEF TypeName
  <2>2. TypeNameLen[type + 1] \in Nat
    BY <1>1 DEF TypeNameLen
  <2>3. disks_types[type + 1] \in {"fixed", "network", "CD-ROM"}
    BY <1>1 DEF disks_types
  <2>4. disks_types[type + 1] # "drive" /\ disks_types[type + 1] # "fs"
        /\ disks_types[type + 1] # "junk" /\ disks_types[type + 1] # "NUL"
    BY <2>3
  <2> QED
    BY <2>1, <2>2, <2>4
<1>2. CASE type \notin {1, 2, 3}
  <2>1. TypeName(type, past) = Field("past the table", type, past)
    <3>1. ~ (type < 4)
      BY <1>2
    <3> QED
      BY <3>1 DEF TypeName
  <2> QED
    BY <2>1
<1> QED
  BY <1>1, <1>2

\* A row names its drive first, and gives one name of a file system, if that has one.
RowOf(r, l, w, x, n) ==
  /\ IsText(r) /\ NoNul(r)
  /\ Starts(r, {"drive"}) = {1} /\ r[1] = <<"drive", l, 1>>
  /\ n > 0 => \E p \in 2 .. Len(r) : Starts(r, {"fs", "junk"}) = {p} /\ r[p] = <<w, x, 1>>
  /\ n = 0 => Starts(r, {"fs", "junk"}) = {}

LEMMA RowText ==
  ASSUME NEW l, NEW type \in 1 .. 6, NEW past \in Nat, NEW w \in {"fs", "junk"}, NEW x, NEW n \in Nat
  PROVE  RowOf(DriveRow(l, type, past, Field(w, x, n)), l, w, x, n)
<1> DEFINE D == {"drive"}
           N == {"fs", "junk"}
           t1 == Field("drive", l, 2)
           t2 == t1 \o Field("\n\t type: ", 0, 9)
<1>1. PICK tw, tn : /\ tn \in Nat /\ TypeName(type, past) = Field(tw, type, tn)
                    /\ tw # "drive" /\ tw # "fs" /\ tw # "junk" /\ tw # "NUL"
  BY TypeNameField
<1> DEFINE t3 == t2 \o Field(tw, type, tn)
           t4 == t3 \o Field("\n\t file system: ", 0, 16)
           t5 == t4 \o Field(w, x, n)
           t6 == t5 \o Field("\n", 0, 1)
<1>2. DriveRow(l, type, past, Field(w, x, n)) = t6
  BY <1>1 DEF DriveRow, Say
<1>3. /\ IsText(t1) /\ NoNul(t1) /\ Len(t1) = 2
      /\ Starts(t1, D) = {1} /\ Starts(t1, N) = {} /\ t1[1] = <<"drive", l, 1>>
  <2>1. IsText(t1) /\ Len(t1) = 2 /\ NoNul(t1)
    BY FieldType, FieldNoNul
  <2>2. Starts(t1, D) = {1}
    <3>1. Starts(t1, D) = IF "drive" \in D /\ 2 > 0 THEN {1} ELSE {}
      BY StartsField
    <3> QED
      BY <3>1
  <2>3. Starts(t1, N) = {}
    <3>1. Starts(t1, N) = IF "drive" \in N /\ 2 > 0 THEN {1} ELSE {}
      BY StartsField
    <3> QED
      BY <3>1
  <2>4. \A k \in 1 .. 2 : t1[k] = <<"drive", l, k>>
    BY FieldType
  <2> QED
    BY <2>1, <2>2, <2>3, <2>4
<1> HIDE DEF t1, D, N
<1>4. /\ IsText(t2) /\ NoNul(t2) /\ Len(t2) = 11
      /\ Starts(t2, D) = {1} /\ Starts(t2, N) = {} /\ t2[1] = <<"drive", l, 1>>
  <2>1. Added(t2, t1, "\n\t type: ", 0, 9, D) /\ Added(t2, t1, "\n\t type: ", 0, 9, N)
    BY <1>3, AddField
  <2>2. NoNul(t2)
    BY <1>3, AddFieldNoNul
  <2>3. "\n\t type: " \notin D /\ "\n\t type: " \notin N
    BY DEF D, N
  <2> HIDE DEF t2
  <2>4. Len(t2) = 11
    <3>1. Len(t2) = Len(t1) + 9
      BY <2>1 DEF Added
    <3> QED
      BY <1>3, <3>1
  <2>5. 1 \in 1 .. Len(t1)
    BY <1>3
  <2> QED
    BY <1>3, <2>1, <2>2, <2>3, <2>4, <2>5 DEF Added
<1> HIDE DEF t2
<1>5. /\ IsText(t3) /\ NoNul(t3) /\ Len(t3) = 11 + tn
      /\ Starts(t3, D) = {1} /\ Starts(t3, N) = {} /\ t3[1] = <<"drive", l, 1>>
  <2>1. Added(t3, t2, tw, type, tn, D) /\ Added(t3, t2, tw, type, tn, N)
    BY <1>1, <1>4, AddField
  <2>2. NoNul(t3)
    BY <1>1, <1>4, AddFieldNoNul
  <2>3. tw \notin D /\ tw \notin N
    BY <1>1 DEF D, N
  <2> HIDE DEF t3
  <2> QED
    BY <1>1, <1>4, <2>1, <2>2, <2>3 DEF Added
<1> HIDE DEF t3
<1>6. /\ IsText(t4) /\ NoNul(t4) /\ Len(t4) = 27 + tn
      /\ Starts(t4, D) = {1} /\ Starts(t4, N) = {} /\ t4[1] = <<"drive", l, 1>>
  <2>1. /\ Added(t4, t3, "\n\t file system: ", 0, 16, D)
        /\ Added(t4, t3, "\n\t file system: ", 0, 16, N)
    BY <1>5, AddField
  <2>2. NoNul(t4)
    BY <1>5, AddFieldNoNul
  <2>3. "\n\t file system: " \notin D /\ "\n\t file system: " \notin N
    BY DEF D, N
  <2> HIDE DEF t4
  <2>4. Len(t4) = 27 + tn
    <3>1. Len(t4) = Len(t3) + 16
      BY <2>1 DEF Added
    <3> QED
      BY <1>1, <1>5, <3>1
  <2>5. 1 \in 1 .. Len(t3)
    BY <1>1, <1>5
  <2> QED
    BY <1>5, <2>1, <2>2, <2>3, <2>4, <2>5 DEF Added
<1> HIDE DEF t4
<1> DEFINE p == 28 + tn
<1>7. /\ IsText(t5) /\ NoNul(t5) /\ Len(t5) = 27 + tn + n
      /\ Starts(t5, D) = {1} /\ t5[1] = <<"drive", l, 1>>
      /\ n > 0 => Starts(t5, N) = {p} /\ t5[p] = <<w, x, 1>>
      /\ n = 0 => Starts(t5, N) = {}
  <2>1. Added(t5, t4, w, x, n, D) /\ Added(t5, t4, w, x, n, N)
    BY <1>6, AddField
  <2>2. NoNul(t5)
    BY <1>6, AddFieldNoNul
  <2>3. w \notin D /\ w \in N
    BY DEF D, N
  <2> HIDE DEF t5
  <2>4. Len(t5) = 27 + tn + n
    BY <1>1, <1>6, <2>1 DEF Added
  <2>5. 1 \in 1 .. Len(t4) /\ Len(t4) + 1 = p
    BY <1>1, <1>6
  <2>6. n > 0 => 1 \in 1 .. n
    OBVIOUS
  <2> HIDE DEF p
  <2> QED
    BY <1>6, <2>1, <2>2, <2>3, <2>4, <2>5, <2>6 DEF Added
<1> HIDE DEF t5
<1>8. /\ IsText(t6) /\ NoNul(t6) /\ Len(t6) = 28 + tn + n
      /\ Starts(t6, D) = {1} /\ t6[1] = <<"drive", l, 1>>
      /\ n > 0 => Starts(t6, N) = {p} /\ t6[p] = <<w, x, 1>>
      /\ n = 0 => Starts(t6, N) = {}
  <2>1. Added(t6, t5, "\n", 0, 1, D) /\ Added(t6, t5, "\n", 0, 1, N)
    BY <1>7, AddField
  <2>2. NoNul(t6)
    BY <1>7, AddFieldNoNul
  <2>3. "\n" \notin D /\ "\n" \notin N
    BY DEF D, N
  <2> HIDE DEF t6
  <2>4. Len(t6) = 28 + tn + n
    BY <1>1, <1>7, <2>1 DEF Added
  <2>5. 1 \in 1 .. Len(t5) /\ (n > 0 => p \in 1 .. Len(t5))
    BY <1>1, <1>7
  <2> HIDE DEF p
  <2> QED
    BY <1>7, <2>1, <2>2, <2>3, <2>4, <2>5 DEF Added
<1> HIDE DEF t6
<1>9. p \in 2 .. Len(t6)
  BY <1>1, <1>8
<1> HIDE DEF p
<1>10. RowOf(t6, l, w, x, n)
  BY <1>8, <1>9 DEF D, N, RowOf
<1> QED
  BY <1>2, <1>10
\* The report t covers the drives `done`, in the order of their letters.
Covers(t, done) ==
  LET rows == Starts(t, {"drive"})
  IN  /\ {t[i][2] : i \in rows} = done
      /\ \A i, j \in rows : i < j => t[i][2] < t[j][2]

\* In the report t every row shows the file system of the last drive up to its own
\* that is in vols.
LastNames(t, vols) ==
  \A i \in Starts(t, {"drive"}) :
    LET names == NamesIn(t, i)
        had   == {v \in vols : v <= t[i][2]}
    IN  IF had = {} THEN \A k \in names : t[k][1] = "junk"
        ELSE \E k \in names :
               /\ names = {k} /\ t[k][1] = "fs"
               /\ t[k][2] \in had /\ \A v \in had : v <= t[k][2]

\* What the reports have in common when a piece is put behind them.
Joined(u, t, r, kinds, p) ==
  /\ Starts(u, kinds) = Starts(t, kinds) \cup {Len(t) + p}
  /\ u[Len(t) + p] = r[p]
  /\ \A i \in Starts(t, kinds) : i \in 1 .. Len(t) /\ u[i] = t[i]

LEMMA JoinStarts ==
  ASSUME NEW t, NEW r, IsText(t), IsText(r), NEW kinds, NEW p \in 1 .. Len(r),
         Starts(r, kinds) = {p}
  PROVE  Joined(t \o r, t, r, kinds, p)
<1>1. Starts(t \o r, kinds) = Starts(t, kinds) \cup {Len(t) + i : i \in Starts(r, kinds)}
  BY StartsJoin
<1>2. \A i \in 1 .. Len(t) : (t \o r)[i] = t[i]
  BY Join
<1>3. \A i \in 1 .. Len(r) : (t \o r)[Len(t) + i] = r[i]
  BY Join
<1>4. Starts(t, kinds) \subseteq 1 .. Len(t)
  BY LenType DEF Starts
<1>5. {Len(t) + i : i \in Starts(r, kinds)} = {Len(t) + p}
  OBVIOUS
<1> QED
  BY <1>1, <1>2, <1>3, <1>4, <1>5 DEF Joined

LEMMA CoversNext ==
  ASSUME NEW t, NEW r, IsText(t), IsText(r), NEW done, Covers(t, done),
         NEW l \in Nat, \A d \in done : d \in Nat /\ d < l,
         Starts(r, {"drive"}) = {1}, r[1] = <<"drive", l, 1>>
  PROVE  Covers(t \o r, done \cup {l})
<1> DEFINE u == t \o r
           L == Len(t)
           R == Starts(t, {"drive"})
<1>1. L \in Nat /\ Len(r) \in Nat /\ 1 \in 1 .. Len(r)
  <2>1. 1 \in DOMAIN r
    BY DEF Starts
  <2> QED
    BY <2>1, LenType
<1>a. Joined(u, t, r, {"drive"}, 1)
  BY <1>1, JoinStarts
<1>2. Starts(u, {"drive"}) = R \cup {L + 1}
  BY <1>a DEF Joined
<1>3. u[L + 1] = <<"drive", l, 1>>
  BY <1>a DEF Joined
<1>4. \A i \in R : i \in 1 .. L /\ u[i] = t[i]
  BY <1>a DEF Joined
<1>5. {t[i][2] : i \in R} = done /\ \A i, j \in R : i < j => t[i][2] < t[j][2]
  BY DEF Covers
<1> HIDE DEF u, R, L
<1>6. u[L + 1][2] = l
  BY <1>3
<1>7. \A i \in R : u[i][2] = t[i][2] /\ u[i][2] \in done /\ i < L + 1
  BY <1>1, <1>4, <1>5
<1>8. {u[i][2] : i \in R \cup {L + 1}} = done \cup {l}
  BY <1>5, <1>6, <1>7
<1>9. ASSUME NEW i \in R \cup {L + 1}, NEW j \in R \cup {L + 1}, i < j
      PROVE  u[i][2] < u[j][2]
  <2>1. i \in R
    <3>1. SUFFICES ASSUME i = L + 1 PROVE FALSE
      OBVIOUS
    <3>2. \A k \in R \cup {L + 1} : k <= L + 1 /\ k \in Int
      BY <1>1, <1>4
    <3>3. j <= L + 1 /\ j \in Int
      BY <3>2
    <3> QED
      BY <1>1, <1>9, <3>1, <3>3
  <2>2. CASE j \in R
    BY <1>5, <1>7, <1>9, <2>1, <2>2
  <2>3. CASE j = L + 1
    BY <1>6, <1>7, <2>1, <2>3
  <2> QED
    BY <2>2, <2>3
<1>10. {u[i][2] : i \in Starts(u, {"drive"})} = done \cup {l}
  BY <1>2, <1>8
<1>11. \A i, j \in Starts(u, {"drive"}) : i < j => u[i][2] < u[j][2]
  BY <1>2, <1>9
<1>12. Covers(u, done \cup {l})
  BY <1>10, <1>11 DEF Covers
<1> QED
  BY <1>12 DEF u

\* A row r behind the report t leaves the names of its rows alone.
LEMMA NamesNext ==
  ASSUME NEW t, NEW r, IsText(t), IsText(r), NEW vols, NEW more, LastNames(t, vols), NEW l \in Nat,
         \A i \in Starts(t, {"drive"}) : t[i][2] \in Nat /\ t[i][2] < l,
         \A v \in vols : v \in Nat /\ v < l,
         more = vols \/ more = vols \cup {l},
         Starts(r, {"drive"}) = {1}, r[1] = <<"drive", l, 1>>,
         NEW P, P = Starts(r, {"fs", "junk"}), P \subseteq 2 .. Len(r),
         IF more = {} THEN \A p \in P : r[p][1] = "junk"
         ELSE \E p \in P : /\ P = {p} /\ r[p][1] = "fs"
                           /\ r[p][2] \in more /\ \A v \in more : v <= r[p][2]
  PROVE  LastNames(t \o r, more)
<1> DEFINE u == t \o r
           L == Len(t)
           R == Starts(t, {"drive"})
           N == Starts(t, {"fs", "junk"})
<1>1. L \in Nat /\ Len(r) \in Nat /\ 1 \in 1 .. Len(r) /\ DOMAIN t = 1 .. L
  <2>1. 1 \in DOMAIN r
    BY DEF Starts
  <2> QED
    BY <2>1, LenType
<1>2. Joined(u, t, r, {"drive"}, 1)
  BY <1>1, JoinStarts
<1>3. Starts(u, {"drive"}) = R \cup {L + 1} /\ u[L + 1] = <<"drive", l, 1>>
  BY <1>2 DEF Joined
<1>4. Starts(u, {"fs", "junk"}) = N \cup {L + p : p \in P}
  BY StartsJoin
<1>5. R \subseteq 1 .. L /\ N \subseteq 1 .. L
  BY <1>1 DEF Starts
<1>6. (\A i \in 1 .. L : u[i] = t[i]) /\ \A p \in 1 .. Len(r) : u[L + p] = r[p]
  BY Join
<1>7. \A i \in R : NamesIn(t, i) = {k \in N : i < k /\ \A j \in R : j <= i \/ k < j}
  BY DEF NamesIn
<1>8. \A i \in R \cup {L + 1} :
        NamesIn(u, i) = {k \in N \cup {L + p : p \in P} : i < k /\ \A j \in R \cup {L + 1} : j <= i \/ k < j}
  BY <1>3, <1>4 DEF NamesIn
<1>9. \A i \in R :
        LET names == NamesIn(t, i)
            had   == {v \in vols : v <= t[i][2]}
        IN  IF had = {} THEN \A k \in names : t[k][1] = "junk"
            ELSE \E k \in names :
                   /\ names = {k} /\ t[k][1] = "fs"
                   /\ t[k][2] \in had /\ \A v \in had : v <= t[k][2]
  BY DEF LastNames
<1> HIDE DEF u, R, N, L
<1>c. \A p \in P : p \in Nat /\ 1 < p
  BY <1>1
<1>d. \A k \in N : k \in Nat /\ k <= L
  BY <1>1, <1>5
<1>10. ASSUME NEW i \in R
       PROVE  NamesIn(u, i) = NamesIn(t, i) /\ NamesIn(t, i) \subseteq N
  <2>1. \A k \in N : k < L + 1
    BY <1>1, <1>5
  <2>2. \A p \in P : ~ (L + 1 <= i \/ L + p < L + 1)
    BY <1>1, <1>5, <1>c
  <2>3. i \in R \cup {L + 1}
    OBVIOUS
  <2>4. \A k \in N : (\A j \in R \cup {L + 1} : j <= i \/ k < j) <=> (\A j \in R : j <= i \/ k < j)
    BY <2>1
  <2>5. \A p \in P : ~ \A j \in R \cup {L + 1} : j <= i \/ L + p < j
    BY <2>2
  <2>6. NamesIn(u, i) = {k \in N : i < k /\ \A j \in R : j <= i \/ k < j}
    <3>1. NamesIn(u, i) = {k \in N \cup {L + p : p \in P} : i < k /\ \A j \in R \cup {L + 1} : j <= i \/ k < j}
      BY <1>8, <2>3
    <3>2. \A k \in {L + p : p \in P} : ~ \A j \in R \cup {L + 1} : j <= i \/ k < j
      BY <2>5
    <3> QED
      BY <2>4, <3>1, <3>2
  <2> QED
    BY <1>7, <2>6
<1>11. NamesIn(u, L + 1) = {L + p : p \in P}
  <2>1. \A k \in N : ~ (L + 1 < k)
    BY <1>1, <1>d
  <2>2. \A p \in P : L + 1 < L + p
    BY <1>1, <1>c
  <2>3. \A j \in R \cup {L + 1} : j <= L + 1
    BY <1>1, <1>5
  <2> QED
    BY <1>8, <2>1, <2>2, <2>3
<1>12. ASSUME NEW i \in R
       PROVE  LET names == NamesIn(u, i)
                  had   == {v \in more : v <= u[i][2]}
              IN  IF had = {} THEN \A k \in names : u[k][1] = "junk"
                  ELSE \E k \in names :
                         /\ names = {k} /\ u[k][1] = "fs"
                         /\ u[k][2] \in had /\ \A v \in had : v <= u[k][2]
  <2>1. u[i] = t[i] /\ t[i][2] \in Nat /\ t[i][2] < l
    BY <1>5, <1>6 DEF R
  <2>2. {v \in more : v <= u[i][2]} = {v \in vols : v <= t[i][2]}
    BY <2>1
  <2>3. \A k \in NamesIn(t, i) : u[k] = t[k]
    BY <1>5, <1>6, <1>10
  <2>4. LET names == NamesIn(t, i)
            had   == {v \in vols : v <= t[i][2]}
        IN  IF had = {} THEN \A k \in names : t[k][1] = "junk"
            ELSE \E k \in names :
                   /\ names = {k} /\ t[k][1] = "fs"
                   /\ t[k][2] \in had /\ \A v \in had : v <= t[k][2]
    BY <1>9
  <2> QED
    BY <1>10, <2>2, <2>3, <2>4, Zenon
<1>13. LET names == NamesIn(u, L + 1)
           had   == {v \in more : v <= u[L + 1][2]}
       IN  IF had = {} THEN \A k \in names : u[k][1] = "junk"
           ELSE \E k \in names :
                  /\ names = {k} /\ u[k][1] = "fs"
                  /\ u[k][2] \in had /\ \A v \in had : v <= u[k][2]
  <2>1. {v \in more : v <= u[L + 1][2]} = more
    BY <1>3
  <2>2. \A p \in P : u[L + p] = r[p]
    BY <1>6
  <2>3. CASE more = {}
    <3>1. \A k \in {L + p : p \in P} : u[k][1] = "junk"
      BY <2>2, <2>3
    <3> QED
      BY <1>11, <2>1, <2>3, <3>1
  <2>4. CASE more # {}
    <3>1. PICK p \in P : /\ P = {p} /\ r[p][1] = "fs"
                         /\ r[p][2] \in more /\ \A v \in more : v <= r[p][2]
      BY <2>4
    <3>2. NamesIn(u, L + 1) = {L + p} /\ u[L + p] = r[p]
      BY <1>11, <2>2, <3>1
    <3> QED
      BY <2>1, <2>4, <3>1, <3>2
  <2> QED
    BY <2>3, <2>4
<1>14. LastNames(u, more)
  BY <1>3, <1>12, <1>13 DEF LastNames
<1> QED
  BY <1>14 DEF u

LEMMA EmptyReport == Covers(<<>>, {}) /\ LastNames(<<>>, {}) /\ NoNul(<<>>)
<1>1. \A kinds : Starts(<<>>, kinds) = {}
  BY DEF Starts
<1>2. Covers(<<>>, {})
  BY <1>1 DEF Covers
<1>3. LastNames(<<>>, {})
  BY <1>1 DEF LastNames
<1>4. NoNul(<<>>)
  BY EmptyText DEF NoNul
<1> QED
  BY <1>2, <1>3, <1>4
-----------------------------------------------------------------------------
(* The report of the free space.                                           *)

LEMMA CellText ==
  ASSUME NEW l, NEW n \in Nat
  PROVE  LET c == FreeCell(l, n)
         IN  /\ IsText(c) /\ Len(c) = 13
             /\ Starts(c, {"drive"}) = {1} /\ c[1] = <<"drive", l, 1>>
             /\ n >= 6 => \A p \in 1 .. 13 : c[p] # NUL
             /\ n < 6  => \E p \in 2 .. 13 : c[p] = NUL
<1> DEFINE D  == {"drive"}
           t1 == Field("drive", l, 2)
           t2 == t1 \o Field(" ", 0, 1)
           F  == [k \in 1..6 |-> IF k <= n THEN <<"free", l, k>>
                                 ELSE IF k = n + 1 THEN NUL ELSE <<"rest", 0, k>>]
           t3 == t2 \o F
           t4 == t3 \o Field(" Gb\n", 0, 4)
<1>1. FreeCell(l, n) = t4
  BY DEF FreeCell, Say
<1>2. /\ IsText(t1) /\ Len(t1) = 2 /\ Starts(t1, D) = {1} /\ t1[1] = <<"drive", l, 1>>
      /\ NoNul(t1)
  <2>1. IsText(t1) /\ Len(t1) = 2 /\ \A k \in 1 .. 2 : t1[k] = <<"drive", l, k>>
    BY 2 \in Nat, FieldType
  <2>2. Starts(t1, D) = {1}
    <3>1. Starts(t1, D) = IF "drive" \in D /\ 2 > 0 THEN {1} ELSE {}
      BY StartsField
    <3> QED
      BY <3>1
  <2>3. NoNul(t1)
    BY 2 \in Nat, FieldNoNul
  <2> QED
    BY <2>1, <2>2, <2>3
<1> HIDE DEF t1, D
<1>3. /\ IsText(t2) /\ Len(t2) = 3 /\ Starts(t2, D) = {1} /\ t2[1] = <<"drive", l, 1>>
      /\ NoNul(t2)
  <2>1. Added(t2, t1, " ", 0, 1, D)
    BY <1>2, AddField
  <2>2. NoNul(t2)
    BY <1>2, AddFieldNoNul
  <2>3. " " \notin D /\ 1 \in 1 .. Len(t1)
    BY <1>2 DEF D
  <2> HIDE DEF t2
  <2>4. Len(t2) = 3
    <3>1. Len(t2) = Len(t1) + 1
      BY <2>1 DEF Added
    <3> QED
      BY <1>2, <3>1
  <2> QED
    BY <1>2, <2>1, <2>2, <2>3, <2>4 DEF Added
<1> HIDE DEF t2
<1>4. /\ IsText(F) /\ Len(F) = 6 /\ Starts(F, D) = {}
      /\ n >= 6 => NoNul(F)
      /\ n < 6 => F[n + 1] = NUL /\ n + 1 \in 1 .. 6
  <2> DEFINE S == {F[k] : k \in 1 .. 6}
  <2>1. F \in Seq(S) /\ Len(F) = 6 /\ DOMAIN F = 1 .. 6
    OBVIOUS
  <2>2. \A k \in 1 .. 6 : F[k][1] \in {"free", "NUL", "rest"}
    BY DEF NUL
  <2>3. n >= 6 => \A k \in 1 .. 6 : F[k] = <<"free", l, k>>
    OBVIOUS
  <2>4. n < 6 => F[n + 1] = NUL /\ n + 1 \in 1 .. 6
    OBVIOUS
  <2> HIDE DEF S, F
  <2>5. IsText(F)
    BY <2>1 DEF IsText
  <2>6. Starts(F, D) = {}
    BY <2>1, <2>2 DEF Starts, D
  <2>7. n >= 6 => NoNul(F)
    BY <2>1, <2>3 DEF NoNul, NUL
  <2> QED
    BY <2>1, <2>4, <2>5, <2>6, <2>7
<1> HIDE DEF F
<1>5. /\ IsText(t3) /\ Len(t3) = 9 /\ Starts(t3, D) = {1} /\ t3[1] = <<"drive", l, 1>>
      /\ n >= 6 => NoNul(t3)
      /\ n < 6 => \E p \in 2 .. 9 : t3[p] = NUL
  <2> IsText(t2) /\ IsText(F)
    BY <1>3, <1>4
  <2>1. IsText(t3) /\ Len(t3) = 9
    <3>1. IsText(t3) /\ Len(t3) = Len(t2) + Len(F)
      BY Join
    <3> QED
      BY <1>3, <1>4, <3>1
  <2>2. \A i \in 1 .. Len(t2) : t3[i] = t2[i]
    BY Join
  <2>3. \A i \in 1 .. Len(F) : t3[Len(t2) + i] = F[i]
    BY Join
  <2>4. Starts(t3, D) = Starts(t2, D) \cup {Len(t2) + i : i \in Starts(F, D)}
    BY <1>3, <1>4, StartsJoin
  <2>5. n >= 6 => NoNul(t3)
    BY <1>3, <1>4, JoinNoNul
  <2> HIDE DEF t3
  <2>6. t3[1] = <<"drive", l, 1>>
    <3>1. 1 \in 1 .. Len(t2)
      BY <1>3
    <3> QED
      BY <1>3, <2>2, <3>1
  <2>7. n < 6 => \E p \in 2 .. 9 : t3[p] = NUL
    <3>1. n < 6 => 3 + (n + 1) \in 2 .. 9 /\ t3[3 + (n + 1)] = NUL
      BY <1>3, <1>4, <2>3
    <3> QED
      BY <3>1
  <2>8. Starts(t3, D) = {1}
    BY <1>3, <1>4, <2>4
  <2> QED
    BY <2>1, <2>5, <2>6, <2>7, <2>8
<1> HIDE DEF t3
<1>6. /\ IsText(t4) /\ Len(t4) = 13 /\ Starts(t4, D) = {1} /\ t4[1] = <<"drive", l, 1>>
      /\ n >= 6 => NoNul(t4)
      /\ n < 6 => \E p \in 2 .. 13 : t4[p] = NUL
  <2>1. Added(t4, t3, " Gb\n", 0, 4, D)
    BY <1>5, AddField
  <2>2. n >= 6 => NoNul(t4)
    BY <1>5, AddFieldNoNul
  <2>3. " Gb\n" \notin D /\ \A p \in 1 .. 9 : p \in 1 .. Len(t3)
    BY <1>5 DEF D
  <2> HIDE DEF t4
  <2>4. Len(t4) = 13
    <3>1. Len(t4) = Len(t3) + 4
      BY <2>1 DEF Added
    <3> QED
      BY <1>5, <3>1
  <2>5. \A p \in 1 .. 9 : t4[p] = t3[p]
    BY <2>1, <2>3 DEF Added
  <2>6. IsText(t4) /\ Starts(t4, D) = {1}
    BY <1>5, <2>1, <2>3 DEF Added
  <2>7. n < 6 => \E p \in 2 .. 13 : t4[p] = NUL
    BY <1>5, <2>5
  <2> QED
    BY <1>5, <2>2, <2>4, <2>5, <2>6, <2>7
<1> HIDE DEF t4
<1> QED
  BY <1>1, <1>6 DEF NoNul, D

\* The text t has a row of 13 bytes for each drive looked at, and the rows of
\* numbers of fewer than six characters have a NUL within them.
FreeRows(t, seen) ==
  /\ Len(t) = 13 * Len(seen)
  /\ Starts(t, {"drive"}) = {13 * j - 12 : j \in 1 .. Len(seen)}
  /\ \A j \in 1 .. Len(seen) :
       /\ t[13 * j - 12] = <<"drive", seen[j].drive, 1>>
       /\ seen[j].width >= 6 => \A p \in 13 * j - 12 .. 13 * j : t[p] # NUL
       /\ seen[j].width < 6 => \E p \in 13 * j - 11 .. 13 * j : t[p] = NUL

LEMMA FreeRowsNext ==
  ASSUME NEW t, IsText(t), NEW S, NEW seen \in Seq(S), FreeRows(t, seen), NEW l, NEW n \in Nat
  PROVE  FreeRows(t \o FreeCell(l, n), Append(seen, [drive |-> l, width |-> n]))
<1> DEFINE c == FreeCell(l, n)
           u == t \o c
           e == [drive |-> l, width |-> n]
           s == Append(seen, e)
           m == Len(seen)
<1>1. /\ IsText(c) /\ Len(c) = 13 /\ Starts(c, {"drive"}) = {1} /\ c[1] = <<"drive", l, 1>>
      /\ n >= 6 => \A p \in 1 .. 13 : c[p] # NUL
      /\ n < 6  => \E p \in 2 .. 13 : c[p] = NUL
  BY CellText
<1>2. m \in Nat /\ Len(s) = m + 1 /\ s[m + 1] = e /\ \A j \in 1 .. m : s[j] = seen[j]
  OBVIOUS
<1>3. e.drive = l /\ e.width = n
  OBVIOUS
<1>4. Len(t) = 13 * m
  BY DEF FreeRows
<1> HIDE DEF c, s, e
<1> IsText(c)
  BY <1>1
<1>5. Len(u) = 13 * (m + 1)
  <2>1. Len(u) = Len(t) + Len(c)
    BY Join
  <2> HIDE DEF u, m
  <2> QED
    BY <1>1, <1>2, <1>4, <2>1
<1>6. Joined(u, t, c, {"drive"}, 1)
  <2>1. 1 \in 1 .. Len(c)
    BY <1>1
  <2> QED
    BY <1>1, <2>1, JoinStarts
<1>7. \A i \in 1 .. 13 * m : u[i] = t[i]
  <2>1. \A i \in 1 .. Len(t) : u[i] = t[i]
    BY Join
  <2> QED
    BY <1>4, <2>1
<1>8. \A i \in 1 .. 13 : u[13 * m + i] = c[i]
  <2>1. \A i \in 1 .. Len(c) : u[Len(t) + i] = c[i]
    BY Join
  <2> QED
    BY <1>1, <1>4, <2>1
<1> HIDE DEF u, m
<1>9. Starts(u, {"drive"}) = {13 * j - 12 : j \in 1 .. m + 1}
  <2>1. Starts(u, {"drive"}) = {13 * j - 12 : j \in 1 .. m} \cup {13 * m + 1}
    BY <1>4, <1>6 DEF Joined, FreeRows, m
  <2>2. 13 * m + 1 = 13 * (m + 1) - 12 /\ m + 1 \in 1 .. m + 1
    BY <1>2
  <2>3. \A j \in 1 .. m + 1 : j \in 1 .. m \/ j = m + 1
    BY <1>2
  <2>4. \A j \in 1 .. m : j \in 1 .. m + 1
    BY <1>2
  <2> QED
    BY <2>1, <2>2, <2>3, <2>4
<1>10. ASSUME NEW j \in 1 .. m
       PROVE  /\ u[13 * j - 12] = <<"drive", s[j].drive, 1>>
              /\ s[j].width >= 6 => \A p \in 13 * j - 12 .. 13 * j : u[p] # NUL
              /\ s[j].width < 6 => \E p \in 13 * j - 11 .. 13 * j : u[p] = NUL
  <2>1. /\ t[13 * j - 12] = <<"drive", seen[j].drive, 1>>
        /\ seen[j].width >= 6 => \A p \in 13 * j - 12 .. 13 * j : t[p] # NUL
        /\ seen[j].width < 6 => \E p \in 13 * j - 11 .. 13 * j : t[p] = NUL
    BY DEF FreeRows, m
  <2>2. \A p \in 13 * j - 12 .. 13 * j : u[p] = t[p]
    BY <1>2, <1>7
  <2>3. 13 * j - 12 \in 13 * j - 12 .. 13 * j
    BY <1>2
  <2>4. \A p \in 13 * j - 11 .. 13 * j : p \in 13 * j - 12 .. 13 * j
    BY <1>2
  <2>5. s[j] = seen[j]
    BY <1>2
  <2> QED
    BY <2>1, <2>2, <2>3, <2>4, <2>5
<1>11. LET j == m + 1
       IN  /\ u[13 * j - 12] = <<"drive", s[j].drive, 1>>
           /\ s[j].width >= 6 => \A p \in 13 * j - 12 .. 13 * j : u[p] # NUL
           /\ s[j].width < 6 => \E p \in 13 * j - 11 .. 13 * j : u[p] = NUL
  <2>1. 13 * (m + 1) - 12 = 13 * m + 1 /\ 13 * (m + 1) - 11 = 13 * m + 2 /\ 13 * (m + 1) = 13 * m + 13
    BY <1>2
  <2>2. s[m + 1].drive = l /\ s[m + 1].width = n
    BY <1>2, <1>3
  <2>3. u[13 * m + 1] = <<"drive", l, 1>>
    BY <1>1, <1>8
  <2>4. n >= 6 => \A p \in 13 * m + 1 .. 13 * m + 13 : u[p] # NUL
    <3>1. \A p \in 13 * m + 1 .. 13 * m + 13 : p - 13 * m \in 1 .. 13 /\ 13 * m + (p - 13 * m) = p
      BY <1>2
    <3> QED
      BY <1>1, <1>8, <3>1
  <2>5. n < 6 => \E p \in 13 * m + 2 .. 13 * m + 13 : u[p] = NUL
    <3>1. ASSUME n < 6 PROVE \E p \in 13 * m + 2 .. 13 * m + 13 : u[p] = NUL
      <4>1. PICK q \in 2 .. 13 : c[q] = NUL
        BY <1>1, <3>1
      <4>2. q \in 1 .. 13 /\ 13 * m + q \in 13 * m + 2 .. 13 * m + 13
        BY <1>2
      <4>3. u[13 * m + q] = NUL
        BY <1>8, <4>1, <4>2
      <4> QED
        BY <4>2, <4>3
    <3> QED
      BY <3>1
  <2> QED
    BY <2>1, <2>2, <2>3, <2>4, <2>5
<1>12. \A j \in 1 .. m + 1 : j \in 1 .. m \/ j = m + 1
  BY <1>2
<1>13. FreeRows(u, s)
  BY <1>2, <1>5, <1>9, <1>10, <1>11, <1>12 DEF FreeRows
<1> QED
  BY <1>13 DEF u, s, c, e
\* The rows that are left when such a text is cut at its first NUL.
Listed(seen) == {j \in DOMAIN seen : \A k \in 1 .. j - 1 : seen[k].width >= 6}

\* CString cuts a text at its first NUL.
LEMMA CStringCuts ==
  ASSUME NEW t, IsText(t)
  PROVE  \/ NoNul(t) /\ CString(t) = t
         \/ \E e \in 1 .. Len(t) :
              /\ t[e] = NUL /\ \A i \in 1 .. e - 1 : t[i] # NUL
              /\ DOMAIN CString(t) = 1 .. e - 1 /\ \A i \in 1 .. e - 1 : CString(t)[i] = t[i]
<1> DEFINE ends == {i \in 1 .. Len(t) : t[i] = NUL}
           e == CHOOSE i \in ends : \A j \in ends : i <= j
<1>1. CASE ends = {}
  BY <1>1 DEF CString, NoNul
<1>2. CASE ends # {}
  <2>1. \E i \in ends : \A j \in ends : i <= j
    <3>1. ends \in SUBSET Nat
      OBVIOUS
    <3> HIDE DEF ends
    <3> QED
      BY <1>2, <3>1, Least
  <2>2. e \in ends /\ \A j \in ends : e <= j
    <3> HIDE DEF ends
    <3> QED
      BY <2>1
  <2>3. CString(t) = SubSeq(t, 1, e - 1)
    BY <1>2 DEF CString
  <2> HIDE DEF e
  <2>4. e \in 1 .. Len(t) /\ t[e] = NUL
    BY <2>2
  <2>5. \A i \in 1 .. e - 1 : t[i] # NUL
    <3>1. \A i \in 1 .. e - 1 : i \in 1 .. Len(t) /\ ~ (e <= i)
      BY <2>4, LenType
    <3> QED
      BY <2>2, <3>1
  <2>6. PICK S : t \in Seq(S)
    BY DEF IsText
  <2>7. DOMAIN SubSeq(t, 1, e - 1) = 1 .. e - 1 /\ \A i \in 1 .. e - 1 : SubSeq(t, 1, e - 1)[i] = t[i]
    BY <2>4, <2>6
  <2> QED
    BY <2>3, <2>4, <2>5, <2>7
<1> QED
  BY <1>1, <1>2

LEMMA FreeRowsCut ==
  ASSUME NEW t, IsText(t), NEW seen, NEW m \in Nat, DOMAIN seen = 1 .. m, Len(seen) = m,
         \A j \in 1 .. m : seen[j].width \in Nat, FreeRows(t, seen)
  PROVE  /\ Starts(CString(t), {"drive"}) = {13 * j - 12 : j \in Listed(seen)}
         /\ \A j \in Listed(seen) : CString(t)[13 * j - 12][2] = seen[j].drive
<1>1. /\ Len(t) = 13 * m
      /\ Starts(t, {"drive"}) = {13 * j - 12 : j \in 1 .. m}
      /\ \A j \in 1 .. m : t[13 * j - 12] = <<"drive", seen[j].drive, 1>>
  BY DEF FreeRows
<1>2. \A j \in 1 .. m : seen[j].width >= 6 => \A p \in 13 * j - 12 .. 13 * j : t[p] # NUL
  BY DEF FreeRows
<1>3. \A j \in 1 .. m : seen[j].width < 6 => \E p \in 13 * j - 11 .. 13 * j : t[p] = NUL
  BY DEF FreeRows
<1>4. \A j \in 1 .. m : t[13 * j - 12] # NUL /\ t[13 * j - 12][2] = seen[j].drive
  BY <1>1 DEF NUL
<1>5. CASE NoNul(t) /\ CString(t) = t
  <2>1. \A j \in 1 .. m : seen[j].width >= 6
    <3> SUFFICES ASSUME NEW j \in 1 .. m, seen[j].width < 6 PROVE FALSE
      OBVIOUS
    <3>1. PICK p \in 13 * j - 11 .. 13 * j : t[p] = NUL
      BY <1>3
    <3>2. p \in 1 .. 13 * m
      OBVIOUS
    <3> QED
      BY <1>1, <1>5, <3>1, <3>2 DEF NoNul
  <2>2. Listed(seen) = 1 .. m
    BY <2>1 DEF Listed
  <2> QED
    BY <1>1, <1>4, <1>5, <2>2
<1>6. CASE \E e \in 1 .. Len(t) :
             /\ t[e] = NUL /\ \A i \in 1 .. e - 1 : t[i] # NUL
             /\ DOMAIN CString(t) = 1 .. e - 1 /\ \A i \in 1 .. e - 1 : CString(t)[i] = t[i]
  <2>1. PICK e \in 1 .. 13 * m :
             /\ t[e] = NUL /\ \A i \in 1 .. e - 1 : t[i] # NUL
             /\ DOMAIN CString(t) = 1 .. e - 1 /\ \A i \in 1 .. e - 1 : CString(t)[i] = t[i]
    BY <1>1, <1>6
  <2>2. Starts(CString(t), {"drive"}) = {i \in Starts(t, {"drive"}) : i < e}
    <3>1. DOMAIN t = 1 .. 13 * m
      BY <1>1, LenType
    <3>2. \A i \in 1 .. 13 * m : i \in 1 .. e - 1 <=> i < e
      OBVIOUS
    <3>3. \A i \in 1 .. e - 1 : i \in 1 .. 13 * m
      OBVIOUS
    <3> QED
      BY <2>1, <3>1, <3>2, <3>3 DEF Starts
  <2>3. ASSUME NEW j \in 1 .. m, j \in Listed(seen)
        PROVE  13 * j - 12 < e
    <3>1. SUFFICES ASSUME e <= 13 * j - 12 PROVE FALSE
      OBVIOUS
    <3> DEFINE k == (e + 12) \div 13
    <3>2. k \in Nat /\ 13 * k - 12 <= e /\ e <= 13 * k
      OBVIOUS
    <3> HIDE DEF k
    <3>3. 1 <= k /\ k <= j
      BY <3>1, <3>2
    <3>4. CASE k = j
      <4>1. e = 13 * j - 12
        BY <3>1, <3>2, <3>4
      <4> QED
        BY <1>4, <2>1, <4>1
    <3>5. CASE k # j
      <4>1. k \in 1 .. j - 1 /\ k \in 1 .. m
        BY <3>2, <3>3, <3>5
      <4>2. seen[k].width >= 6
        BY <2>3, <4>1 DEF Listed
      <4>3. e \in 13 * k - 12 .. 13 * k
        BY <3>2
      <4> QED
        BY <1>2, <2>1, <4>1, <4>2, <4>3
    <3> QED
      BY <3>4, <3>5
  <2>4. ASSUME NEW j \in 1 .. m, 13 * j - 12 < e
        PROVE  j \in Listed(seen)
    <3> SUFFICES ASSUME NEW k \in 1 .. j - 1, seen[k].width < 6 PROVE FALSE
      BY DEF Listed
    <3>1. PICK p \in 13 * k - 11 .. 13 * k : t[p] = NUL
      BY <1>3
    <3>2. p \in 1 .. e - 1
      BY <2>4
    <3> QED
      BY <2>1, <3>1, <3>2
  <2>5. Listed(seen) \subseteq 1 .. m
    BY DEF Listed
  <2>6. {13 * j - 12 : j \in Listed(seen)} = {i \in {13 * j - 12 : j \in 1 .. m} : i < e}
    BY <2>3, <2>4, <2>5
  <2>7. ASSUME NEW j \in Listed(seen)
        PROVE  CString(t)[13 * j - 12][2] = seen[j].drive
    <3>1. j \in 1 .. m /\ 13 * j - 12 \in 1 .. e - 1
      BY <2>3, <2>5
    <3> QED
      BY <1>4, <2>1, <3>1
  <2> QED
    BY <1>1, <2>2, <2>6, <2>7
<1> QED
  BY <1>5, <1>6, CStringCuts
-----------------------------------------------------------------------------
(* split finds the words of a line.                                        *)

\* The tokens from position i on, w giving those from later positions on.
Pass(s, w, i) ==
  IF i > Len(s) THEN <<>>
  ELSE IF s[i] = Space THEN w[i + 1]
  ELSE LET ends == {j \in i .. Len(s) : s[j] = Space}
       IN  IF ends = {} THEN <<SubSeq(s, i, Len(s))>>
           ELSE LET j == CHOOSE j \in ends : \A k \in ends : j <= k
                IN  <<SubSeq(s, i, j - 1)>> \o w[j]

\* w is the function split defines.
Splits(s, w) == w = [i \in 1 .. Len(s) + 1 |-> Pass(s, w, i)]

LEMMA PassCases ==
  ASSUME NEW L \in Nat, NEW s, Len(s) = L, NEW i \in 1 .. L
  PROVE  \/ s[i] = Space /\ \A w : Pass(s, w, i) = w[i + 1]
         \/ /\ \A k \in i .. L : s[k] # Space
            /\ \A w : Pass(s, w, i) = <<SubSeq(s, i, L)>>
         \/ \E j \in i + 1 .. L :
              /\ s[j] = Space /\ \A k \in i .. j - 1 : s[k] # Space
              /\ \A w : Pass(s, w, i) = <<SubSeq(s, i, j - 1)>> \o w[j]
<1> DEFINE ends == {j \in i .. Len(s) : s[j] = Space}
           e    == CHOOSE j \in ends : \A k \in ends : j <= k
<1>0. ~ (i > Len(s))
  OBVIOUS
<1>1. CASE s[i] = Space
  BY <1>0, <1>1 DEF Pass
<1>2. CASE s[i] # Space /\ ends = {}
  BY <1>0, <1>2 DEF Pass
<1>3. CASE s[i] # Space /\ ends # {}
  <2>1. \E j \in ends : \A k \in ends : j <= k
    <3>1. ends \in SUBSET Nat
      OBVIOUS
    <3> HIDE DEF ends
    <3> QED
      BY <1>3, <3>1, Least
  <2>2. e \in ends /\ \A k \in ends : e <= k
    <3> HIDE DEF ends
    <3> QED
      BY <2>1
  <2>3. \A w : Pass(s, w, i) = <<SubSeq(s, i, e - 1)>> \o w[e]
    BY <1>0, <1>3 DEF Pass
  <2> HIDE DEF e
  <2>4. e \in i + 1 .. L /\ s[e] = Space
    BY <1>3, <2>2
  <2>5. \A k \in i .. e - 1 : s[k] # Space
    BY <2>2, <2>4
  <2> QED
    BY <2>3, <2>4, <2>5
<1> QED
  BY <1>1, <1>2, <1>3

\* g does as split does on the last n + 1 positions.
SplitsFrom(s, n, g) ==
  g = [k \in Len(s) + 1 - n .. Len(s) + 1 |-> Pass(s, g, k)]

LEMMA SplitsFromExists ==
  ASSUME NEW L \in Nat, NEW s, Len(s) = L, NEW n \in 0 .. L
  PROVE  \E g : SplitsFrom(s, n, g)
<1> DEFINE Bad == {m \in 0 .. L : \A g : ~SplitsFrom(s, m, g)}
<1>1. SUFFICES ASSUME Bad # {} PROVE FALSE
  OBVIOUS
<1>2. PICK m \in Bad : \A k \in Bad : m <= k
  <2>1. Bad \in SUBSET Nat
    OBVIOUS
  <2> HIDE DEF Bad
  <2> QED
    BY <1>1, <2>1, Least
<1>3. CASE m = 0
  <2> DEFINE g == [k \in L + 1 .. L + 1 |-> <<>>]
  <2>1. Len(s) + 1 - 0 = L + 1 /\ Len(s) + 1 = L + 1
    OBVIOUS
  <2>2. \A f, k : k \in L + 1 .. L + 1 => Pass(s, f, k) = <<>>
    BY DEF Pass
  <2>3. g = [k \in L + 1 .. L + 1 |-> Pass(s, g, k)]
    BY <2>2
  <2> HIDE DEF g
  <2> QED
    BY <1>2, <1>3, <2>1, <2>3 DEF SplitsFrom
<1>4. CASE m # 0
  <2>1. m - 1 \in 0 .. L /\ ~ (m <= m - 1) /\ L + 1 - (m - 1) = L + 2 - m
    BY <1>4
  <2>2. PICK h : SplitsFrom(s, m - 1, h)
    BY <1>2, <2>1
  <2> DEFINE i == L + 1 - m
             g == [k \in i .. L + 1 |-> IF k = i THEN Pass(s, h, i) ELSE h[k]]
  <2>3. i \in 1 .. L
    BY <1>4
  <2>4. \A k \in i + 1 .. L + 1 : h[k] = Pass(s, h, k)
    <3>1. Len(s) + 1 - (m - 1) = i + 1 /\ Len(s) + 1 = L + 1
      OBVIOUS
    <3> HIDE DEF i
    <3> QED
      BY <2>2, <3>1 DEF SplitsFrom
  <2>5. g = [k \in i .. L + 1 |-> g[k]] /\ \A k \in i + 1 .. L + 1 : g[k] = h[k]
    BY <2>3
  <2>6. g[i] = Pass(s, h, i)
    BY <2>3
  <2> HIDE DEF g, i
  <2>7. ASSUME NEW k \in i .. L
        PROVE  Pass(s, g, k) = Pass(s, h, k)
    <3>1. k \in 1 .. L /\ k + 1 \in i + 1 .. L + 1 /\ \A j \in k + 1 .. L : j \in i + 1 .. L + 1
      BY <2>3
    <3>2. CASE \A w : Pass(s, w, k) = w[k + 1]
      BY <2>5, <3>1, <3>2
    <3>3. CASE \A w : Pass(s, w, k) = <<SubSeq(s, k, L)>>
      BY <3>3
    <3>4. ASSUME NEW j \in k + 1 .. L, \A w : Pass(s, w, k) = <<SubSeq(s, k, j - 1)>> \o w[j]
          PROVE  Pass(s, g, k) = Pass(s, h, k)
      BY <2>5, <3>1, <3>4
    <3> QED
      BY <3>1, <3>2, <3>3, <3>4, PassCases
  <2>8. Pass(s, g, L + 1) = <<>> /\ Pass(s, h, L + 1) = <<>>
    BY DEF Pass
  <2>9. ASSUME NEW k \in i .. L + 1
        PROVE  g[k] = Pass(s, g, k)
    <3>1. Pass(s, g, k) = Pass(s, h, k)
      BY <2>3, <2>7, <2>8
    <3>2. k = i \/ k \in i + 1 .. L + 1
      BY <2>3
    <3> QED
      BY <2>4, <2>5, <2>6, <3>1, <3>2
  <2>10. Len(s) + 1 - m = i /\ Len(s) + 1 = L + 1
    BY DEF i
  <2>11. g = [k \in i .. L + 1 |-> Pass(s, g, k)]
    BY <2>5, <2>9
  <2> QED
    BY <1>2, <2>10, <2>11 DEF SplitsFrom
<1> QED
  BY <1>3, <1>4

LEMMA SplitIsSplits ==
  ASSUME NEW L \in Nat, NEW s, Len(s) = L
  PROVE  \E w : Splits(s, w) /\ split(s) = w[1]
<1>1. PICK g : SplitsFrom(s, L, g)
  BY SplitsFromExists
<1>2. Len(s) + 1 - L = 1
  OBVIOUS
<1>3. \E w : Splits(s, w)
  BY <1>1, <1>2 DEF SplitsFrom, Splits
<1> DEFINE w == CHOOSE w : Splits(s, w)
<1>4. Splits(s, w)
  BY <1>3
<1>5. split(s) = w[1]
  BY DEF split, Splits, Pass
<1> QED
  BY <1>4, <1>5

\* The longest pieces without blanks that begin at i or later.
Runs(s, i) ==
  {r \in (DOMAIN s) \X (DOMAIN s) :
     /\ r[1] >= i
     /\ r[1] <= r[2] /\ \A k \in r[1] .. r[2] : s[k] # Space
     /\ r[1] = 1 \/ s[r[1] - 1] = Space
     /\ r[2] = Len(s) \/ s[r[2] + 1] = Space}

\* Those that begin at p or before.
Upto(s, i, p) == {q \in Runs(s, i) : q[1] <= p}

\* t holds those of s that begin at i or later, in their order.
Tells(s, i, t) ==
  /\ IsText(t) /\ Len(t) = Cardinality(Runs(s, i))
  /\ \A r \in Runs(s, i) : t[Cardinality(Upto(s, i, r[1]))] = SubSeq(s, r[1], r[2])

LEMMA RunsFinite ==
  ASSUME NEW L \in Nat, NEW s, DOMAIN s = 1 .. L, NEW i
  PROVE  IsFiniteSet(Runs(s, i))
<1>1. IsFiniteSet(1 .. L)
  BY FS_Interval
<1>2. IsFiniteSet((1 .. L) \X (1 .. L))
  BY <1>1, FS_Product
<1>3. Runs(s, i) \in SUBSET ((1 .. L) \X (1 .. L))
  BY DEF Runs
<1> QED
  BY <1>2, <1>3, FS_Subset

\* One more piece in front.
LEMMA TellsNext ==
  ASSUME NEW L \in Nat, NEW s, DOMAIN s = 1 .. L, NEW i \in 1 .. L, NEW e \in i .. L, NEW j \in i + 1 .. L + 1,
         Runs(s, i) = Runs(s, j) \cup {<<i, e>>}, NEW t, Tells(s, j, t)
  PROVE  Tells(s, i, <<SubSeq(s, i, e)>> \o t)
<1> DEFINE x == SubSeq(s, i, e)
           u == <<x>> \o t
           R == Runs(s, j)
<1>1. IsFiniteSet(R)
  BY RunsFinite
<1>2. \A r \in R : r[1] \in Nat /\ r[1] >= j
  BY DEF Runs
<1>3. <<i, e>> \notin R
  BY <1>2
<1>4. IsText(t) /\ Len(t) = Cardinality(R)
  BY DEF Tells
<1>5. \A r \in R : t[Cardinality(Upto(s, j, r[1]))] = SubSeq(s, r[1], r[2])
  BY DEF Tells
<1>6. IsText(<<x>>) /\ Len(<<x>>) = 1 /\ <<x>>[1] = x
  <2>1. \A y : <<y>> \in Seq({y}) /\ Len(<<y>>) = 1 /\ <<y>>[1] = y
    OBVIOUS
  <2> HIDE DEF x
  <2> QED
    BY <2>1 DEF IsText
<1> HIDE DEF x
<1>7. /\ IsText(u) /\ Len(u) = 1 + Len(t) /\ u[1] = x
      /\ \A k \in 1 .. Len(t) : u[1 + k] = t[k]
  <2>1. \A k \in 1 .. Len(<<x>>) : u[k] = <<x>>[k]
    BY <1>4, <1>6, Join
  <2>2. \A k \in 1 .. Len(t) : u[Len(<<x>>) + k] = t[k]
    BY <1>4, <1>6, Join
  <2>3. IsText(u) /\ Len(u) = Len(<<x>>) + Len(t)
    BY <1>4, <1>6, Join
  <2> HIDE DEF u
  <2>4. 1 \in 1 .. Len(<<x>>)
    BY <1>6
  <2>5. u[1] = x
    BY <1>6, <2>1, <2>4
  <2> QED
    BY <1>6, <2>2, <2>3, <2>5
<1> HIDE DEF u
<1>8. Cardinality(Runs(s, i)) = Cardinality(R) + 1 /\ Cardinality(R) \in Nat
  BY <1>1, <1>3, FS_AddElement, FS_CardinalityType
<1>9. Len(u) = Cardinality(Runs(s, i))
  BY <1>4, <1>7, <1>8
<1>10. Upto(s, i, i) = {<<i, e>>}
  <2>1. \A r \in R : ~ (r[1] <= i)
    BY <1>2
  <2> HIDE DEF R
  <2>2. <<i, e>>[1] <= i
    OBVIOUS
  <2> QED
    BY <2>1, <2>2 DEF Upto, R
<1>11. u[Cardinality(Upto(s, i, i))] = x
  BY <1>7, <1>10, FS_Singleton
<1>12. ASSUME NEW r \in R
       PROVE  u[Cardinality(Upto(s, i, r[1]))] = SubSeq(s, r[1], r[2])
  <2> DEFINE U == Upto(s, j, r[1])
             k == Cardinality(U)
  <2>1. U \in SUBSET R /\ r \in U
    BY <1>2 DEF Upto
  <2>2. IsFiniteSet(U) /\ k <= Cardinality(R)
    <3> HIDE DEF U
    <3> QED
      BY <1>1, <2>1, FS_Subset
  <2>3. k \in Nat /\ k # 0
    <3> HIDE DEF U
    <3> QED
      BY <2>1, <2>2, FS_CardinalityType, FS_EmptySet
  <2>4. Upto(s, i, r[1]) = U \cup {<<i, e>>}
    <3>1. <<i, e>>[1] <= r[1]
      BY <1>2
    <3> QED
      BY <3>1 DEF Upto
  <2>5. <<i, e>> \notin U
    BY <1>3, <2>1
  <2>6. Cardinality(Upto(s, i, r[1])) = 1 + k
    <3>1. Cardinality(U \cup {<<i, e>>}) = k + 1
      <4> HIDE DEF U
      <4> QED
        BY <2>2, <2>5, FS_AddElement
    <3> HIDE DEF U
    <3> QED
      BY <2>3, <2>4, <3>1
  <2>7. k \in 1 .. Len(t)
    BY <1>4, <1>8, <2>2, <2>3
  <2>8. t[k] = SubSeq(s, r[1], r[2])
    BY <1>5
  <2> HIDE DEF k, U
  <2> QED
    BY <1>7, <2>6, <2>7, <2>8
<1>13. \A r \in Runs(s, i) : u[Cardinality(Upto(s, i, r[1]))] = SubSeq(s, r[1], r[2])
  <2>1. SubSeq(s, <<i, e>>[1], <<i, e>>[2]) = x /\ <<i, e>>[1] = i
    BY DEF x
  <2> HIDE DEF R
  <2>2. u[Cardinality(Upto(s, i, <<i, e>>[1]))] = SubSeq(s, <<i, e>>[1], <<i, e>>[2])
    BY <1>11, <2>1
  <2>3. Runs(s, i) = R \cup {<<i, e>>}
    BY DEF R
  <2> QED
    BY <1>12, <2>2, <2>3
<1> QED
  BY <1>7, <1>9, <1>13 DEF Tells, u, x

\* From the end of the line to its beginning, split finds the pieces.
LEMMA SplitTells ==
  ASSUME NEW L \in Nat, NEW s, DOMAIN s = 1 .. L, Len(s) = L
  PROVE  Tells(s, 1, split(s))
<1>1. PICK w : Splits(s, w) /\ split(s) = w[1]
  BY SplitIsSplits
<1>2. \A i \in 1 .. L + 1 : w[i] = Pass(s, w, i)
  BY <1>1 DEF Splits
\* i is no place within a word.
<1> DEFINE Outside(i) == i = 1 \/ i = L + 1 \/ s[i - 1] = Space \/ s[i] = Space
           Bad == {n \in 0 .. L : Outside(L + 1 - n) /\ ~Tells(s, L + 1 - n, w[L + 1 - n])}
<1>3. SUFFICES Bad = {}
  <2>1. L \in 0 .. L /\ L + 1 - L = 1 /\ Outside(1)
    OBVIOUS
  <2>2. L \notin Bad
    BY <1>3
  <2>3. Tells(s, 1, w[1])
    BY <2>1, <2>2
  <2> QED
    BY <1>1, <2>3
<1>4. SUFFICES ASSUME Bad # {} PROVE FALSE
  OBVIOUS
<1>5. PICK n \in Bad : \A k \in Bad : n <= k
  <2>1. Bad \in SUBSET Nat
    OBVIOUS
  <2> HIDE DEF Bad
  <2> QED
    BY <1>4, <2>1, Least
<1> DEFINE i == L + 1 - n
<1>6. i \in 1 .. L + 1 /\ Outside(i) /\ ~Tells(s, i, w[i])
  BY <1>5
<1>7. \A j \in i + 1 .. L + 1 : Outside(j) => Tells(s, j, w[j])
  <2> TAKE j \in i + 1 .. L + 1
  <2>1. L + 1 - j \in 0 .. L /\ ~ (n <= L + 1 - j) /\ L + 1 - (L + 1 - j) = j
    BY <1>5
  <2>2. L + 1 - j \notin Bad
    BY <1>5, <2>1
  <2> QED
    BY <2>1, <2>2
<1> HIDE DEF i, Bad
<1>8. CASE i = L + 1
  <2>1. w[i] = <<>>
    <3>1. w[i] = Pass(s, w, i) /\ i > Len(s)
      BY <1>2, <1>6, <1>8
    <3> QED
      BY <3>1 DEF Pass
  <2>2. Runs(s, i) = {}
    BY <1>8 DEF Runs
  <2>3. Tells(s, i, <<>>)
    BY <2>2, EmptyText, FS_EmptySet DEF Tells
  <2> QED
    BY <1>6, <2>1, <2>3
<1>9. CASE i \in 1 .. L
  <2>1. CASE s[i] = Space /\ \A v : Pass(s, v, i) = v[i + 1]
    <3>1. w[i] = w[i + 1]
      BY <1>2, <1>6, <2>1
    <3>2. Outside(i + 1)
      BY <1>9, <2>1
    <3>3. Tells(s, i + 1, w[i + 1])
      BY <1>7, <1>9, <3>2
    <3>4. Runs(s, i) = Runs(s, i + 1)
      <4>1. \A r \in Runs(s, i) : r[1] # i
        BY <1>9, <2>1 DEF Runs
      <4>2. \A p \in 1 .. L : p # i => (p >= i <=> p >= i + 1)
        BY <1>9
      <4>3. \A p \in 1 .. L : p >= i + 1 => p >= i
        BY <1>9
      <4>4. Runs(s, i) \subseteq Runs(s, i + 1)
        BY <4>1, <4>2 DEF Runs
      <4>5. Runs(s, i + 1) \subseteq Runs(s, i)
        BY <4>3 DEF Runs
      <4> QED
        BY <4>4, <4>5
    <3>5. Tells(s, i, w[i + 1])
      BY <3>3, <3>4 DEF Tells, Upto
    <3> QED
      BY <1>6, <3>1, <3>5
  <2>2. ASSUME NEW e \in i .. L, NEW j \in i + 1 .. L + 1, \A k \in i .. e : s[k] # Space,
               \/ e = L /\ j = L + 1
               \/ e = j - 1 /\ j <= L /\ s[j] = Space
        PROVE  Runs(s, i) = Runs(s, j) \cup {<<i, e>>}
    <3>1. i = 1 \/ s[i - 1] = Space
      BY <1>6, <1>9, <2>2
    <3>2. <<i, e>> \in Runs(s, i)
      BY <1>9, <2>2, <3>1 DEF Runs
    <3>3. Runs(s, j) \subseteq Runs(s, i)
      <4>1. \A p \in 1 .. L : p >= j => p >= i
        BY <1>9, <2>2
      <4> QED
        BY <4>1 DEF Runs
    <3>4. ASSUME NEW r \in Runs(s, i), r \notin Runs(s, j)
          PROVE  r = <<i, e>>
      <4>1. /\ r \in (1 .. L) \X (1 .. L) /\ r[1] >= i /\ r[1] <= r[2]
            /\ \A k \in r[1] .. r[2] : s[k] # Space
            /\ r[1] = 1 \/ s[r[1] - 1] = Space
            /\ r[2] = L \/ s[r[2] + 1] = Space
        BY DEF Runs
      <4>2. ~ (r[1] >= j)
        BY <3>4, <4>1 DEF Runs
      <4>3. r[1] <= e /\ r[1] \in Nat /\ r[2] \in Nat
        BY <2>2, <4>1, <4>2
      <4>4. r[1] = i
        <5>1. r[1] # i => r[1] - 1 \in i .. e /\ r[1] # 1
          BY <1>9, <4>1, <4>3
        <5> QED
          BY <2>2, <4>1, <5>1
      <4>5. ~ (r[2] < e)
        <5>1. r[2] < e => r[2] + 1 \in i .. e /\ r[2] # L
          BY <1>9, <2>2, <4>1, <4>3, <4>4
        <5> QED
          BY <2>2, <4>1, <5>1
      <4>6. ~ (r[2] > e)
        <5>1. r[2] > e => j \in r[1] .. r[2] /\ s[j] = Space
          BY <1>9, <2>2, <4>1, <4>3, <4>4
        <5> QED
          BY <4>1, <5>1
      <4>7. r[2] = e
        BY <4>3, <4>5, <4>6
      <4> QED
        BY <4>1, <4>4, <4>7
    <3> QED
      BY <3>2, <3>3, <3>4
  <2>3. CASE /\ \A k \in i .. L : s[k] # Space
             /\ \A v : Pass(s, v, i) = <<SubSeq(s, i, L)>>
    <3>1. L \in i .. L /\ L + 1 \in i + 1 .. L + 1
      BY <1>9
    <3>2. Runs(s, i) = Runs(s, L + 1) \cup {<<i, L>>}
      <4>1. \A k \in i .. L : s[k] # Space
        BY <2>3
      <4> QED
        BY <2>2, <3>1, <4>1
    <3>3. Tells(s, L + 1, w[L + 1])
      BY <1>7, <3>1
    <3>4. w[L + 1] = <<>>
      <4>1. w[L + 1] = Pass(s, w, L + 1) /\ L + 1 > Len(s)
        BY <1>2
      <4> QED
        BY <4>1 DEF Pass
    <3>5. Tells(s, i, <<SubSeq(s, i, L)>> \o <<>>)
      BY <1>9, <3>1, <3>2, <3>3, <3>4, TellsNext
    <3>6. \A x : <<x>> \o <<>> = <<x>>
      OBVIOUS
    <3>7. w[i] = <<SubSeq(s, i, L)>>
      BY <1>2, <1>6, <2>3
    <3> QED
      BY <1>6, <3>5, <3>6, <3>7
  <2>4. ASSUME NEW j \in i + 1 .. L, s[j] = Space, \A k \in i .. j - 1 : s[k] # Space,
               \A v : Pass(s, v, i) = <<SubSeq(s, i, j - 1)>> \o v[j]
        PROVE  FALSE
    <3>1. j - 1 \in i .. L /\ j \in i + 1 .. L + 1 /\ j <= L
      BY <1>9, <2>4
    <3>2. Runs(s, i) = Runs(s, j) \cup {<<i, j - 1>>}
      BY <2>2, <2>4, <3>1
    <3>3. Tells(s, j, w[j])
      BY <1>7, <2>4, <3>1
    <3>4. Tells(s, i, <<SubSeq(s, i, j - 1)>> \o w[j])
      BY <1>9, <3>1, <3>2, <3>3, TellsNext
    <3>5. w[i] = <<SubSeq(s, i, j - 1)>> \o w[j]
      BY <1>2, <1>6, <2>4
    <3> QED
      BY <1>6, <3>4, <3>5
  <2>5. \/ s[i] = Space /\ \A v : Pass(s, v, i) = v[i + 1]
        \/ /\ \A k \in i .. L : s[k] # Space
           /\ \A v : Pass(s, v, i) = <<SubSeq(s, i, L)>>
        \/ \E j \in i + 1 .. L :
             /\ s[j] = Space /\ \A k \in i .. j - 1 : s[k] # Space
             /\ \A v : Pass(s, v, i) = <<SubSeq(s, i, j - 1)>> \o v[j]
    <3>1. L \in Nat /\ Len(s) = L /\ i \in 1 .. L
      BY <1>9
    <3> QED
      BY <3>1, PassCases, Zenon
  <2> QED
    BY <2>1, <2>3, <2>4, <2>5
<1> QED
  BY <1>6, <1>8, <1>9
-----------------------------------------------------------------------------
(* The inductive invariant.                                                *)

ClientRecord(x) == \E at, line, tokens : x = [at |-> at, line |-> line, tokens |-> tokens]

CallRecord(x) ==
  \E at, cmd, given, text, mask, left, name, volumes, seen :
    x = [at |-> at, cmd |-> cmd, given |-> given, text |-> text, mask |-> mask,
         left |-> left, name |-> name, volumes |-> volumes, seen |-> seen]

Shape == ClientRecord(client) /\ CallRecord(call)

\* The types of the variables; no call is open while the client is at its prompt.
TypeOK ==
  /\ client.at \in {"prompt", "split", "call", "printed", "ended", "died"}
  /\ call.at \in {"idle", "run", "drives", "done", "died"}
  /\ call.left \subseteq call.mask /\ call.mask \subseteq Letter
  /\ (client.at \in {"prompt", "split"} => call = Idle)
  /\ changes \in 0 .. Changes

\* A call begins with an empty text, and a reply is printed when it is whole.
Begun ==
  /\ drives \in [Letter -> Drives \cup {Gone}]
  /\ IsText(call.text)
  /\ call.at = "run" => call.text = <<>> /\ call.volumes = {} /\ call.seen = <<>>
  /\ call.at = "drives" => call.cmd \in {"diskstype", "freespace"}
  /\ client.at = "printed" => call.at = "done"

\* What is in name_file_system is the name of the last volume there was.
NameIsLast(name, volumes) ==
  \E w \in {"fs", "junk"}, x, n \in Nat :
    /\ name = Field(w, x, n)
    /\ IF volumes = {} THEN w = "junk"
       ELSE w = "fs" /\ n > 0 /\ x \in volumes /\ \A v \in volumes : v <= x

\* The report of the drive types, as far as it has come.
TypesReport ==
  call.cmd = "diskstype" /\ call.at \in {"drives", "done"} =>
    /\ NoNul(call.text) /\ Covers(call.text, call.mask \ call.left)
    /\ \A d \in call.mask \ call.left, l \in call.left : d < l
    /\ call.at = "done" => call.left = {}
    /\ call.volumes \subseteq call.mask \ call.left
    /\ NameIsLast(call.name, call.volumes) /\ LastNames(call.text, call.volumes)

\* The report of the free space: whole before strlen, cut after it.
SpaceReport ==
  call.cmd = "freespace" =>
    /\ call.at = "drives" =>
         call.seen \in Seq([drive : Letter, width : Nat]) /\ FreeRows(call.text, call.seen)
    /\ call.at = "done" => FreeSpaceEndsAtAShortNumber

UptimeReport ==
  call.cmd = "ostime" /\ call.at = "done" =>
    call.given \in Ticks /\ call.text = os_time_handler(call.given)

IInv == TypeOK /\ Shape /\ Begun /\ TypesReport /\ SpaceReport /\ UptimeReport

LEMMA IdleAt == Idle.at = "idle"
BY DEF Idle

LEMMA InitIInv == Init => IInv
<1> SUFFICES ASSUME Init PROVE IInv
  OBVIOUS
<1>1. /\ drives \in [Letter -> Drives \cup {Gone}] /\ client = Prompt /\ call = Idle /\ changes = 0
  BY DEF Init
<1>2. client.at = "prompt" /\ call.at = "idle" /\ call.text = <<>> /\ call.mask = {} /\ call.left = {}
      /\ call.cmd = ""
  BY <1>1 DEF Prompt, Idle
<1>3. Shape
  BY <1>1 DEF Shape, ClientRecord, CallRecord, Prompt, Idle
<1>4. TypeOK
  <2>1. Changes \in Nat
    BY ServiceAssumption
  <2>2. changes \in 0 .. Changes
    BY <1>1, <2>1
  <2> QED
    BY <1>1, <1>2, <2>2 DEF TypeOK
<1>5. Begun
  BY <1>1, <1>2, EmptyText DEF Begun
<1> QED
  BY <1>2, <1>3, <1>4, <1>5 DEF IInv, TypesReport, SpaceReport, UptimeReport

\* What a routine does at its end.
LEMMA FinishEffect ==
  ASSUME Shape, NEW text, NEW given, Finish(text, given)
  PROVE  /\ call'.at \in {"done", "died"}
         /\ call'.text = text /\ call'.given = given /\ call'.cmd = call.cmd
         /\ call'.mask = call.mask /\ call'.left = call.left
         /\ call'.name = call.name /\ call'.volumes = call.volumes /\ call'.seen = call.seen
         /\ \E at, cmd, giv, txt, mask, left, name, vol, seen :
              call' = [at |-> at, cmd |-> cmd, given |-> giv, text |-> txt, mask |-> mask,
                       left |-> left, name |-> name, volumes |-> vol, seen |-> seen]
<1>1. PICK at, cmd, giv, txt, mask, left, name, vol, seen :
        call = [at |-> at, cmd |-> cmd, given |-> giv, text |-> txt, mask |-> mask,
                left |-> left, name |-> name, volumes |-> vol, seen |-> seen]
  BY DEF Shape, ClientRecord, CallRecord
<1>2. PICK a \in {"done", "died"} : call' = [call EXCEPT !.at = a, !.text = text, !.given = given]
  BY DEF Finish
<1>3. call' = [at |-> a, cmd |-> cmd, given |-> given, text |-> text, mask |-> mask,
               left |-> left, name |-> name, volumes |-> vol, seen |-> seen]
  BY <1>1, <1>2
<1>4. /\ call'.at = a /\ call'.text = text /\ call'.given = given /\ call'.cmd = call.cmd
      /\ call'.mask = call.mask /\ call'.left = call.left
      /\ call'.name = call.name /\ call'.volumes = call.volumes /\ call'.seen = call.seen
  BY <1>1, <1>3
<1> QED
  BY <1>2, <1>3, <1>4

\* A routine without drives ends.
LEMMA FinishKeeps ==
  ASSUME IInv, NEW text, NEW given, Finish(text, given), call.at = "run",
         call.cmd \notin {"diskstype", "freespace"}, IsText(text),
         call.cmd = "ostime" => given \in Ticks /\ text = os_time_handler(given),
         UNCHANGED <<drives, client, changes>>
  PROVE  IInv'
<1> USE DEF IInv
<1>1. /\ call'.at \in {"done", "died"}
      /\ call'.text = text /\ call'.given = given /\ call'.cmd = call.cmd
      /\ call'.mask = call.mask /\ call'.left = call.left
  BY FinishEffect
<1>2. \E at, cmd, giv, txt, mask, left, name, vol, seen :
        call' = [at |-> at, cmd |-> cmd, given |-> giv, text |-> txt, mask |-> mask,
                 left |-> left, name |-> name, volumes |-> vol, seen |-> seen]
  BY FinishEffect
<1>3. Shape'
  BY <1>2 DEF Shape, ClientRecord, CallRecord
<1>4. client.at \notin {"prompt", "split", "printed"}
  <2>1. call # Idle
    BY IdleAt
  <2> QED
    BY <2>1 DEF TypeOK, Begun
<1>5. TypeOK'
  BY <1>1, <1>4 DEF TypeOK
<1>6. Begun'
  BY <1>1, <1>4 DEF Begun
<1>7. TypesReport' /\ SpaceReport'
  BY <1>1 DEF TypesReport, SpaceReport
<1>8. UptimeReport'
  BY <1>1 DEF UptimeReport
<1> QED
  BY <1>3, <1>5, <1>6, <1>7, <1>8
-----------------------------------------------------------------------------
(* Every step keeps it.                                                    *)

LEMMA EmptyRows == FreeRows(<<>>, <<>>)
<1>1. Starts(<<>>, {"drive"}) = {}
  BY DEF Starts
<1>2. Len(<<>>) = 0
  OBVIOUS
<1> QED
  BY <1>1, <1>2 DEF FreeRows

LEMMA DriveType ==
  ASSUME IInv, NEW l \in Letter
  PROVE  drives[l].type \in 1 .. 6 /\ drives[l].fs \in Nat
<1>1. drives[l] \in Drives \cup {Gone}
  BY DEF IInv, Begun
<1>2. \A d \in Drives : d.type \in 1 .. 6 /\ d.fs \in Nat
  BY ServiceAssumption DEF DriveTypes
<1>3. Gone.type \in 1 .. 6 /\ Gone.fs \in Nat
  BY DEF Gone, NoRoot
<1> QED
  BY <1>1, <1>2, <1>3

\* While a routine runs, the client is waiting for it.
LEMMA Waiting ==
  ASSUME IInv, call.at \in {"run", "drives"}
  PROVE  client.at \notin {"prompt", "split", "printed"}
<1>1. call # Idle
  BY IdleAt
<1> QED
  BY <1>1 DEF IInv, TypeOK, Begun

\* The drives are asked for.
LEMMA GetLogicalDrivesKeeps ==
  ASSUME IInv, GetLogicalDrives
  PROVE  IInv'
<1> USE DEF IInv
<1> DEFINE mask == {l \in Letter : drives[l] # Gone}
<1>1. /\ call.at = "run" /\ call.cmd \in {"diskstype", "freespace"}
      /\ UNCHANGED <<drives, client, changes>>
  BY DEF GetLogicalDrives
<1>2. PICK n \in Junk :
        call' = [call EXCEPT !.at = "drives", !.mask = mask, !.left = mask, !.name = Field("junk", 0, n)]
  BY DEF GetLogicalDrives
<1>3. mask \subseteq Letter
  OBVIOUS
<1> HIDE DEF mask
<1>4. PICK at, cmd, giv, txt, msk, left, name, vol, seen :
        call = [at |-> at, cmd |-> cmd, given |-> giv, text |-> txt, mask |-> msk,
                left |-> left, name |-> name, volumes |-> vol, seen |-> seen]
  BY DEF Shape, ClientRecord, CallRecord
<1>5. call' = [at |-> "drives", cmd |-> cmd, given |-> giv, text |-> txt, mask |-> mask,
               left |-> mask, name |-> Field("junk", 0, n), volumes |-> vol, seen |-> seen]
  BY <1>2, <1>4
<1>6. /\ call'.at = "drives" /\ call'.cmd = call.cmd /\ call'.text = call.text /\ call'.mask = mask
      /\ call'.left = mask /\ call'.name = Field("junk", 0, n)
      /\ call'.volumes = call.volumes /\ call'.seen = call.seen
  BY <1>4, <1>5
<1>7. Shape'
  BY <1>1, <1>5 DEF Shape, ClientRecord, CallRecord
<1>8. client.at \notin {"prompt", "split", "printed"}
  BY <1>1, Waiting
<1>9. TypeOK'
  BY <1>1, <1>3, <1>6, <1>8 DEF TypeOK
<1>10. call.text = <<>> /\ call.volumes = {} /\ call.seen = <<>>
  BY <1>1 DEF Begun
<1>11. Begun'
  BY <1>1, <1>6, <1>8 DEF Begun
<1>12. TypesReport'
  <2>1. mask \ mask = {} /\ n \in Nat /\ "junk" \in {"fs", "junk"} /\ 0 \in Nat
    BY ServiceAssumption
  <2>2. NameIsLast(Field("junk", 0, n), {})
    BY <2>1 DEF NameIsLast
  <2> QED
    BY <1>6, <1>10, <2>1, <2>2, EmptyReport DEF TypesReport
<1>13. SpaceReport'
  <2>1. <<>> \in Seq([drive : Letter, width : Nat])
    OBVIOUS
  <2> QED
    BY <1>6, <1>10, <2>1, EmptyRows DEF SpaceReport
<1>14. UptimeReport'
  BY <1>6 DEF UptimeReport
<1> QED
  BY <1>7, <1>9, <1>11, <1>12, <1>13, <1>14

\* A row is added for the next drive.
LEMMA DisksTypesKeeps ==
  ASSUME IInv, NEW l \in Letter, serv_disks_types(l)
  PROVE  IInv'
<1> USE DEF IInv
<1> DEFINE fsname == FileSystem(l)
           done == call.mask \ call.left
           more == call.volumes \cup {v \in {l} : drives[v].fs > 0}
<1>1. /\ call.at = "drives" /\ call.cmd = "diskstype" /\ l \in call.left
      /\ \A m \in call.left : l <= m
      /\ UNCHANGED <<drives, client, changes>>
  BY DEF serv_disks_types, NextDrive
<1>2. PICK past \in Junk :
        call' = [call EXCEPT !.left = call.left \ {l}, !.name = fsname, !.volumes = more,
                             !.text = call.text \o DriveRow(l, drives[l].type, past, fsname)]
  BY DEF serv_disks_types
<1>3. /\ NoNul(call.text) /\ Covers(call.text, done)
      /\ \A d \in done, m \in call.left : d < m
      /\ call.volumes \subseteq done
      /\ NameIsLast(call.name, call.volumes) /\ LastNames(call.text, call.volumes)
  BY <1>1 DEF TypesReport
<1>4. drives[l].type \in 1 .. 6 /\ drives[l].fs \in Nat /\ l \in Nat
  BY DriveType DEF Begun, Letter
<1>a. \A v \in call.volumes : v \in Nat /\ v < l
  BY <1>1, <1>3 DEF TypeOK, Letter
<1>b. IF drives[l].fs = 0 THEN more = call.volumes ELSE more = call.volumes \cup {l}
  BY <1>4
<1> HIDE DEF more
<1>5. PICK w \in {"fs", "junk"}, x \in Nat, n \in Nat :
        /\ fsname = Field(w, x, n)
        /\ IF more = {} THEN w = "junk"
           ELSE w = "fs" /\ n > 0 /\ x \in more /\ \A v \in more : v <= x
  <2>1. CASE drives[l].fs = 0
    <3>1. fsname = call.name /\ more = call.volumes
      BY <1>b, <2>1 DEF FileSystem
    <3> QED
      BY <1>3, <3>1 DEF NameIsLast
  <2>2. CASE drives[l].fs # 0
    <3>1. fsname = Field("fs", l, drives[l].fs) /\ drives[l].fs > 0
      BY <1>4, <2>2 DEF FileSystem
    <3>2. l \in more /\ \A v \in more : v <= l
      BY <1>4, <1>a, <1>b, <2>2
    <3> QED
      BY <1>4, <3>1, <3>2
  <2> QED
    BY <2>1, <2>2
<1>6. past \in Nat
  BY ServiceAssumption
<1> HIDE DEF fsname
<1> DEFINE r == DriveRow(l, drives[l].type, past, fsname)
<1>7. /\ IsText(r) /\ NoNul(r)
      /\ Starts(r, {"drive"}) = {1} /\ r[1] = <<"drive", l, 1>>
      /\ n > 0 => \E p \in 2 .. Len(r) : Starts(r, {"fs", "junk"}) = {p} /\ r[p] = <<w, x, 1>>
      /\ n = 0 => Starts(r, {"fs", "junk"}) = {}
  <2>1. RowOf(DriveRow(l, drives[l].type, past, Field(w, x, n)), l, w, x, n)
    BY <1>4, <1>5, <1>6, RowText
  <2>2. r = DriveRow(l, drives[l].type, past, Field(w, x, n))
    BY <1>5
  <2> HIDE DEF r
  <2>3. RowOf(r, l, w, x, n)
    BY <2>1, <2>2
  <2> QED
    BY <2>3 DEF RowOf
<1> HIDE DEF r
<1>8. PICK at, cmd, giv, txt, msk, left, name, vol, seen :
        call = [at |-> at, cmd |-> cmd, given |-> giv, text |-> txt, mask |-> msk,
                left |-> left, name |-> name, volumes |-> vol, seen |-> seen]
  BY DEF Shape, ClientRecord, CallRecord
<1>9. call' = [at |-> at, cmd |-> cmd, given |-> giv, text |-> txt \o r, mask |-> msk,
               left |-> left \ {l}, name |-> fsname, volumes |-> more, seen |-> seen]
  BY <1>2, <1>8 DEF r
<1>10. /\ call'.at = call.at /\ call'.cmd = call.cmd /\ call'.text = call.text \o r
       /\ call'.mask = call.mask /\ call'.left = call.left \ {l} /\ call'.name = fsname
       /\ call'.volumes = more /\ call'.seen = call.seen
  BY <1>8, <1>9
<1>11. Shape'
  BY <1>1, <1>9 DEF Shape, ClientRecord, CallRecord
<1>12. client.at \notin {"prompt", "split", "printed"}
  BY <1>1, Waiting
<1>13. TypeOK'
  BY <1>1, <1>10, <1>12 DEF TypeOK
<1>14. IsText(call.text) /\ IsText(call.text \o r)
  BY <1>7, Join DEF Begun
<1>15. Begun'
  BY <1>1, <1>10, <1>12, <1>14 DEF Begun
<1>16. call.mask \ (call.left \ {l}) = done \cup {l}
  BY <1>1 DEF TypeOK
<1>17. \A d \in done : d \in Nat /\ d < l
  BY <1>1, <1>3 DEF TypeOK, Letter
<1> HIDE DEF done
<1>18. NoNul(call.text \o r)
  BY <1>3, <1>7, <1>14, JoinNoNul
<1>19. Covers(call.text \o r, done \cup {l})
  <2>1. l \in Nat
    BY DEF Letter
  <2> QED
    BY <1>3, <1>7, <1>14, <1>17, <2>1, CoversNext
<1>20. \A d \in done \cup {l}, m \in call.left \ {l} : d < m
  <2>1. \A m \in call.left \ {l} : l < m
    BY <1>1 DEF TypeOK, Letter
  <2> QED
    BY <1>3, <2>1
<1>21. more \subseteq done \cup {l}
  BY <1>3, <1>b
<1>22. LastNames(call.text \o r, more)
  <2> DEFINE P == Starts(r, {"fs", "junk"})
  <2>1. \A i \in Starts(call.text, {"drive"}) : call.text[i][2] \in Nat /\ call.text[i][2] < l
    BY <1>3, <1>17 DEF Covers
  <2>2. P \subseteq 2 .. Len(r)
    BY <1>5, <1>7
  <2>3. IF more = {} THEN \A p \in P : r[p][1] = "junk"
        ELSE \E p \in P : /\ P = {p} /\ r[p][1] = "fs"
                          /\ r[p][2] \in more /\ \A v \in more : v <= r[p][2]
    <3>1. CASE n = 0
      BY <1>5, <1>7, <3>1
    <3>2. CASE n > 0
      <4>1. PICK p \in 2 .. Len(r) : P = {p} /\ r[p] = <<w, x, 1>>
        BY <1>7, <3>2
      <4>2. r[p][1] = w /\ r[p][2] = x /\ p \in P
        BY <4>1
      <4> QED
        BY <1>5, <4>1, <4>2
    <3> QED
      BY <1>5, <3>1, <3>2
  <2>4. more = call.volumes \/ more = call.volumes \cup {l}
    BY <1>b
  <2> HIDE DEF P
  <2>5. P = Starts(r, {"fs", "junk"})
    BY DEF P
  <2> QED
    BY <1>3, <1>4, <1>7, <1>14, <1>a, <2>1, <2>2, <2>3, <2>4, <2>5, NamesNext
<1>23. TypesReport'
  <2>1. NameIsLast(fsname, more)
    BY <1>5 DEF NameIsLast
  <2> QED
    BY <1>1, <1>10, <1>16, <1>18, <1>19, <1>20, <1>21, <1>22, <2>1 DEF TypesReport
<1>24. SpaceReport' /\ UptimeReport'
  BY <1>1, <1>10 DEF SpaceReport, UptimeReport
<1> QED
  BY <1>11, <1>13, <1>15, <1>23, <1>24

\* A row is added for the next fixed drive; any other drive is passed over.
LEMMA FreeSpaceKeeps ==
  ASSUME IInv, NEW l \in Letter, serv_free_space(l)
  PROVE  IInv'
<1> USE DEF IInv
<1>1. /\ call.at = "drives" /\ call.cmd = "freespace" /\ l \in call.left
      /\ UNCHANGED <<drives, client, changes>>
  BY DEF serv_free_space, NextDrive
<1>2. client.at \notin {"prompt", "split", "printed"}
  BY <1>1, Waiting
<1>3. PICK at, cmd, giv, txt, msk, left, name, vol, seen :
        call = [at |-> at, cmd |-> cmd, given |-> giv, text |-> txt, mask |-> msk,
                left |-> left, name |-> name, volumes |-> vol, seen |-> seen]
  BY DEF Shape, ClientRecord, CallRecord
<1>4. call.seen \in Seq([drive : Letter, width : Nat]) /\ FreeRows(call.text, call.seen)
  BY <1>1 DEF SpaceReport
<1>5. CASE drives[l].type = Fixed
  <2>1. PICK n \in NumberWidths :
          call' = [call EXCEPT !.left = call.left \ {l}, !.seen = Append(call.seen, [drive |-> l, width |-> n]),
                               !.text = call.text \o FreeCell(l, n)]
    BY <1>5 DEF serv_free_space
  <2> DEFINE c == FreeCell(l, n)
             e == [drive |-> l, width |-> n]
  <2>2. n \in Nat
    BY ServiceAssumption
  <2>3. IsText(c)
    BY <2>2, CellText
  <2>4. FreeRows(call.text \o c, Append(call.seen, e))
    <3>1. IsText(call.text)
      BY DEF Begun
    <3> QED
      BY <1>4, <2>2, <3>1, FreeRowsNext
  <2>5. e \in [drive : Letter, width : Nat]
    BY <2>2
  <2> HIDE DEF c, e
  <2>6. call' = [at |-> at, cmd |-> cmd, given |-> giv, text |-> txt \o c, mask |-> msk,
                 left |-> left \ {l}, name |-> name, volumes |-> vol, seen |-> Append(seen, e)]
    BY <1>3, <2>1 DEF c, e
  <2>7. /\ call'.at = call.at /\ call'.cmd = call.cmd /\ call'.text = call.text \o c
        /\ call'.mask = call.mask /\ call'.left = call.left \ {l} /\ call'.seen = Append(call.seen, e)
    BY <1>3, <2>6
  <2>8. Shape'
    BY <1>1, <2>6 DEF Shape, ClientRecord, CallRecord
  <2>9. TypeOK'
    BY <1>1, <1>2, <2>7 DEF TypeOK
  <2>10. IsText(call.text \o c)
    BY <2>3, Join DEF Begun
  <2>11. Begun'
    BY <1>1, <1>2, <2>7, <2>10 DEF Begun
  <2>12. Append(call.seen, e) \in Seq([drive : Letter, width : Nat])
    BY <1>4, <2>5
  <2>13. SpaceReport'
    BY <1>1, <2>4, <2>7, <2>12 DEF SpaceReport
  <2>14. TypesReport' /\ UptimeReport'
    BY <1>1, <2>7 DEF TypesReport, UptimeReport
  <2> QED
    BY <2>8, <2>9, <2>11, <2>13, <2>14
<1>6. CASE drives[l].type # Fixed
  <2>1. call' = [call EXCEPT !.left = call.left \ {l}]
    BY <1>6 DEF serv_free_space
  <2>2. call' = [at |-> at, cmd |-> cmd, given |-> giv, text |-> txt, mask |-> msk,
                 left |-> left \ {l}, name |-> name, volumes |-> vol, seen |-> seen]
    BY <1>3, <2>1
  <2>3. /\ call'.at = call.at /\ call'.cmd = call.cmd /\ call'.text = call.text
        /\ call'.mask = call.mask /\ call'.left = call.left \ {l} /\ call'.seen = call.seen
    BY <1>3, <2>2
  <2>4. Shape'
    BY <1>1, <2>2 DEF Shape, ClientRecord, CallRecord
  <2>5. TypeOK'
    BY <1>1, <1>2, <2>3 DEF TypeOK
  <2>6. Begun'
    BY <1>1, <1>2, <2>3 DEF Begun
  <2>7. SpaceReport'
    BY <1>1, <1>4, <2>3 DEF SpaceReport
  <2>8. TypesReport' /\ UptimeReport'
    BY <1>1, <2>3 DEF TypesReport, UptimeReport
  <2> QED
    BY <2>4, <2>5, <2>6, <2>7, <2>8
<1> QED
  BY <1>5, <1>6

\* The report ends: that of the types as it is, that of the free space cut at its
\* first NUL.
LEMMA DrivesDoneKeeps ==
  ASSUME IInv, DrivesDone
  PROVE  IInv'
<1> USE DEF IInv
<1> DEFINE text == CString(call.text)
<1>1. /\ call.at = "drives" /\ call.left = {} /\ Finish(text, 0)
      /\ UNCHANGED <<drives, client, changes>>
  BY DEF DrivesDone
<1>2. call.cmd \in {"diskstype", "freespace"}
  BY <1>1 DEF Begun
<1>3. client.at \notin {"prompt", "split", "printed"}
  BY <1>1, Waiting
<1>4. IsText(text)
  BY CStringType DEF Begun
<1> HIDE DEF text
<1>5. /\ call'.at \in {"done", "died"}
      /\ call'.text = text /\ call'.given = 0 /\ call'.cmd = call.cmd
      /\ call'.mask = call.mask /\ call'.left = call.left
      /\ call'.name = call.name /\ call'.volumes = call.volumes /\ call'.seen = call.seen
  BY <1>1, FinishEffect
<1>6. Shape'
  <2>1. \E at, cmd, giv, txt, mask, left, name, vol, seen :
          call' = [at |-> at, cmd |-> cmd, given |-> giv, text |-> txt, mask |-> mask,
                   left |-> left, name |-> name, volumes |-> vol, seen |-> seen]
    BY <1>1, FinishEffect
  <2> QED
    BY <1>1, <2>1 DEF Shape, ClientRecord, CallRecord
<1>7. TypeOK'
  BY <1>1, <1>3, <1>5 DEF TypeOK
<1>8. call'.at \notin {"run", "drives"}
  BY <1>5
<1>9. Begun'
  BY <1>1, <1>3, <1>4, <1>5, <1>8 DEF Begun
<1>10. TypesReport'
  <2> SUFFICES ASSUME call.cmd = "diskstype" PROVE TypesReport'
    BY <1>5 DEF TypesReport
  <2>1. /\ NoNul(call.text) /\ Covers(call.text, call.mask \ call.left)
        /\ call.volumes \subseteq call.mask \ call.left
        /\ NameIsLast(call.name, call.volumes) /\ LastNames(call.text, call.volumes)
    BY <1>1 DEF TypesReport
  <2>2. call'.text = call.text
    BY <1>5, <2>1, CStringOfAll DEF text
  <2> QED
    BY <1>1, <1>5, <1>8, <2>1, <2>2 DEF TypesReport
<1>11. SpaceReport'
  <2> SUFFICES ASSUME call.cmd = "freespace" PROVE FreeSpaceEndsAtAShortNumber'
    BY <1>5, <1>8 DEF SpaceReport
  <2>1. call.seen \in Seq([drive : Letter, width : Nat]) /\ FreeRows(call.text, call.seen)
    BY <1>1 DEF SpaceReport
  <2>2. PICK m \in Nat : DOMAIN call.seen = 1 .. m /\ Len(call.seen) = m
    BY <2>1
  <2>3. \A j \in 1 .. m : call.seen[j].width \in Nat
    <3>1. \A T, s : s \in Seq(T) => \A j \in DOMAIN s : s[j] \in T
      OBVIOUS
    <3>2. \A j \in DOMAIN call.seen : call.seen[j] \in [drive : Letter, width : Nat]
      BY <2>1, <3>1
    <3> QED
      BY <2>2, <3>2
  <2>4. /\ Starts(text, {"drive"}) = {13 * j - 12 : j \in Listed(call.seen)}
        /\ \A j \in Listed(call.seen) : text[13 * j - 12][2] = call.seen[j].drive
    <3>1. IsText(call.text)
      BY DEF Begun
    <3>2. FreeRows(call.text, call.seen)
      BY <2>1
    <3> QED
      BY <2>2, <2>3, <3>1, <3>2, FreeRowsCut DEF text
  <2>5. FreeSpaceEndsAtAShortNumber'
        <=> ((call'.cmd = "freespace" /\ call'.at = "done") =>
               /\ Starts(call'.text, {"drive"}) = {13 * j - 12 : j \in Listed(call'.seen)}
               /\ \A j \in Listed(call'.seen) : call'.text[13 * j - 12][2] = call'.seen[j].drive)
    BY DEF FreeSpaceEndsAtAShortNumber, Listed
  <2> QED
    BY <1>5, <2>4, <2>5
<1>12. UptimeReport'
  BY <1>2, <1>5 DEF UptimeReport
<1> QED
  BY <1>6, <1>7, <1>9, <1>10, <1>11, <1>12


\* A step of the client alone, that neither prints a reply nor goes to the prompt
\* while a call is open.
LEMMA ClientKeeps ==
  ASSUME IInv, UNCHANGED <<drives, call, changes>>,
         \E at, line, tokens : client' = [at |-> at, line |-> line, tokens |-> tokens],
         client'.at \in {"prompt", "split", "call", "printed", "ended", "died"},
         client'.at \in {"prompt", "split"} => call = Idle,
         client'.at = "printed" => call.at = "done"
  PROVE  IInv'
<1> USE DEF IInv
<1>1. Shape'
  <2>1. ClientRecord(client')
    BY DEF ClientRecord
  <2>2. CallRecord(call')
    BY DEF Shape
  <2> QED
    BY <2>1, <2>2 DEF Shape
<1>2. TypeOK'
  BY DEF TypeOK
<1>3. Begun'
  BY DEF Begun
<1>4. TypesReport' /\ UptimeReport'
  BY DEF TypesReport, UptimeReport
<1>5. SpaceReport'
  BY DEF SpaceReport, FreeSpaceEndsAtAShortNumber
<1> QED
  BY <1>1, <1>2, <1>3, <1>4, <1>5

LEMMA ReadLineKeeps ==
  ASSUME IInv, ReadLine
  PROVE  IInv'
<1>1. client.at = "prompt" /\ UNCHANGED <<drives, call, changes>>
  BY DEF ReadLine
<1>2. PICK s \in Lines : client' = [Prompt EXCEPT !.at = "split", !.line = s, !.tokens = split(s)]
  BY DEF ReadLine
<1> DEFINE t == split(s)
<1> HIDE DEF t
<1>3. client' = [at |-> "split", line |-> s, tokens |-> t]
  BY <1>2 DEF Prompt, t
<1>4. client'.at = "split"
  BY <1>3
<1>5. call = Idle
  BY <1>1 DEF IInv, TypeOK
<1> QED
  BY <1>1, <1>3, <1>4, <1>5, ClientKeeps

LEMMA InterpretKeeps ==
  ASSUME IInv, Interpret
  PROVE  IInv'
<1> DEFINE t   == client.tokens
           cmd == IF t # <<>> /\ Len(t[1]) = 1 /\ t[1][1] \in Commands THEN t[1][1] ELSE "no command"
<1>1. client.at = "split" /\ UNCHANGED <<drives, changes>>
  BY DEF Interpret
<1>2. call = Idle
  BY <1>1 DEF IInv, TypeOK
<1>3. PICK at, line, tokens : client = [at |-> at, line |-> line, tokens |-> tokens]
  BY DEF IInv, Shape, ClientRecord, CallRecord
<1>4. \/ client' = [client EXCEPT !.at = "died"] /\ UNCHANGED call
      \/ client' = [client EXCEPT !.at = "ended"] /\ UNCHANGED call
      \/ client' = Prompt /\ UNCHANGED call
      \/ \E c \in Commands \ {"exit", "help"} :
           client' = [client EXCEPT !.at = "call"] /\ call' = [Idle EXCEPT !.at = "run", !.cmd = c]
  <2>1. \/ client' = [client EXCEPT !.at = "died"] /\ UNCHANGED call
        \/ client' = [client EXCEPT !.at = "ended"] /\ UNCHANGED call
        \/ client' = Prompt /\ UNCHANGED call
        \/ /\ cmd \in Commands \ {"exit", "help"}
           /\ client' = [client EXCEPT !.at = "call"] /\ call' = [Idle EXCEPT !.at = "run", !.cmd = cmd]
    BY DEF Interpret
  <2> HIDE DEF cmd
  <2> QED
    BY <2>1
<1>5. CASE client' = [client EXCEPT !.at = "died"] /\ UNCHANGED call
  <2>1. client' = [at |-> "died", line |-> line, tokens |-> tokens]
    BY <1>3, <1>5
  <2> QED
    BY <1>1, <1>5, <2>1, ClientKeeps
<1>6. CASE client' = [client EXCEPT !.at = "ended"] /\ UNCHANGED call
  <2>1. client' = [at |-> "ended", line |-> line, tokens |-> tokens]
    BY <1>3, <1>6
  <2> QED
    BY <1>1, <1>6, <2>1, ClientKeeps
<1>7. CASE client' = Prompt /\ UNCHANGED call
  <2>1. client' = [at |-> "prompt", line |-> <<>>, tokens |-> <<>>]
    BY <1>7 DEF Prompt
  <2>2. client'.at = "prompt"
    BY <2>1
  <2> QED
    BY <1>1, <1>2, <1>7, <2>1, <2>2, ClientKeeps
<1>8. ASSUME NEW c \in Commands \ {"exit", "help"}, client' = [client EXCEPT !.at = "call"],
             call' = [Idle EXCEPT !.at = "run", !.cmd = c]
      PROVE  IInv'
  <2>1. client' = [at |-> "call", line |-> line, tokens |-> tokens]
    BY <1>3, <1>8
  <2>2. call' = [at |-> "run", cmd |-> c, given |-> 0, text |-> <<>>, mask |-> {}, left |-> {},
                 name |-> <<>>, volumes |-> {}, seen |-> <<>>]
    BY <1>8 DEF Idle
  <2>3. client'.at = "call"
    BY <2>1
  <2>4. call'.at = "run" /\ call'.text = <<>> /\ call'.mask = {} /\ call'.left = {}
        /\ call'.volumes = {} /\ call'.seen = <<>>
    BY <2>2
  <2>5. Shape'
    BY <2>1, <2>2 DEF Shape, ClientRecord, CallRecord
  <2>6. TypeOK'
    BY <1>1, <2>3, <2>4 DEF IInv, TypeOK
  <2>7. Begun'
    BY <1>1, <2>3, <2>4, EmptyText DEF IInv, Begun
  <2>8. TypesReport' /\ SpaceReport' /\ UptimeReport'
    BY <2>4 DEF TypesReport, SpaceReport, UptimeReport
  <2> QED
    BY <2>5, <2>6, <2>7, <2>8 DEF IInv
<1> QED
  BY <1>4, <1>5, <1>6, <1>7, <1>8

LEMMA LoopKeeps ==
  ASSUME IInv, Loop
  PROVE  IInv'
<1>1. client' = Prompt /\ call' = Idle /\ changes' = 0 /\ UNCHANGED drives
  BY DEF Loop
<1>2. client'.at = "prompt" /\ \E at, line, tokens : client' = [at |-> at, line |-> line, tokens |-> tokens]
  BY <1>1 DEF Prompt
<1>3. call'.at = "idle" /\ call'.cmd = "" /\ call'.text = <<>> /\ call'.mask = {} /\ call'.left = {}
  BY <1>1 DEF Idle
<1>4. \E at, cmd, given, text, mask, left, name, vol, seen :
        call' = [at |-> at, cmd |-> cmd, given |-> given, text |-> text, mask |-> mask,
                 left |-> left, name |-> name, volumes |-> vol, seen |-> seen]
  BY <1>1 DEF Idle
<1>5. Shape'
  BY <1>2, <1>4 DEF Shape, ClientRecord, CallRecord
<1>6. TypeOK'
  <2>1. Changes \in Nat
    BY ServiceAssumption
  <2>2. changes' \in 0 .. Changes
    BY <1>1, <2>1
  <2> QED
    BY <1>1, <1>2, <1>3, <2>2 DEF TypeOK, Idle
<1>7. Begun'
  BY <1>1, <1>2, <1>3, EmptyText DEF IInv, Begun
<1>8. TypesReport' /\ SpaceReport' /\ UptimeReport'
  BY <1>3 DEF TypesReport, SpaceReport, UptimeReport
<1> QED
  BY <1>5, <1>6, <1>7, <1>8 DEF IInv

\* A drive that comes or goes changes no report.
LEMMA ReplugKeeps ==
  ASSUME IInv, NEW l \in Letter, Replug(l)
  PROVE  IInv'
<1> USE DEF IInv
<1>1. changes < Changes /\ changes' = changes + 1 /\ UNCHANGED <<client, call>>
  BY DEF Replug
<1>2. PICK d \in Drives \cup {Gone} : drives' = [drives EXCEPT ![l] = d]
  BY DEF Replug
<1>3. Shape'
  BY <1>1 DEF Shape, ClientRecord, CallRecord
<1>4. TypeOK'
  <2>1. changes \in 0 .. Changes /\ Changes \in Nat
    BY ServiceAssumption DEF TypeOK
  <2>2. changes' \in 0 .. Changes
    BY <1>1, <2>1
  <2> QED
    BY <1>1, <2>2 DEF TypeOK
<1>5. Begun'
  <2>1. drives' \in [Letter -> Drives \cup {Gone}]
    BY <1>2 DEF Begun
  <2> QED
    BY <1>1, <2>1 DEF Begun
<1>6. TypesReport' /\ UptimeReport'
  BY <1>1 DEF TypesReport, UptimeReport
<1>7. SpaceReport'
  BY <1>1 DEF SpaceReport, FreeSpaceEndsAtAShortNumber
<1> QED
  BY <1>3, <1>4, <1>5, <1>6, <1>7

\* The two routines that look at a file may end the server.
LEMMA FileRoutineKeeps ==
  ASSUME IInv, serv_file_owner \/ serv_file_access_right
  PROVE  IInv'
<1>1. /\ call.at = "run" /\ call.cmd \in {"fowner", "frights"}
      /\ UNCHANGED <<drives, client, changes>>
  BY DEF serv_file_owner, serv_file_access_right, Running
<1>2. ASSUME NEW n \in NameWidths, NEW text, text = owner_handler(n) \/ text = access_right_handler(n, 12, 8),
             Finish(text, n)
      PROVE  IInv'
  <2>1. IsText(text)
    BY <1>2, FileTexts
  <2> QED
    BY <1>1, <1>2, <2>1, FinishKeeps
<1>3. CASE call' = [call EXCEPT !.at = "died"]
  <2>1. PICK at, cmd, giv, txt, msk, left, name, vol, seen :
          call = [at |-> at, cmd |-> cmd, given |-> giv, text |-> txt, mask |-> msk,
                  left |-> left, name |-> name, volumes |-> vol, seen |-> seen]
    BY DEF IInv, Shape, ClientRecord, CallRecord
  <2>2. call' = [at |-> "died", cmd |-> cmd, given |-> giv, text |-> txt, mask |-> msk,
                 left |-> left, name |-> name, volumes |-> vol, seen |-> seen]
    BY <1>3, <2>1
  <2>3. call'.at = "died" /\ call'.text = call.text /\ call'.mask = call.mask /\ call'.left = call.left
    BY <2>1, <2>2
  <2>4. client.at \notin {"prompt", "split", "printed"}
    BY <1>1, Waiting
  <2>5. Shape'
    BY <1>1, <2>2 DEF IInv, Shape, ClientRecord, CallRecord
  <2>6. TypeOK'
    BY <1>1, <2>3, <2>4 DEF IInv, TypeOK
  <2>7. Begun'
    BY <1>1, <2>3, <2>4 DEF IInv, Begun
  <2>8. TypesReport' /\ SpaceReport' /\ UptimeReport'
    BY <2>3 DEF TypesReport, SpaceReport, UptimeReport
  <2> QED
    BY <2>5, <2>6, <2>7, <2>8 DEF IInv
<1> QED
  BY <1>2, <1>3 DEF serv_file_owner, serv_file_access_right

LEMMA NextIInv == IInv /\ [Next]_vars => IInv'
<1> SUFFICES ASSUME IInv, [Next]_vars PROVE IInv'
  OBVIOUS
<1>1. CASE ReadLine
  BY <1>1, ReadLineKeeps
<1>2. CASE Interpret
  BY <1>2, InterpretKeeps
<1>3. CASE print_response
  <2>1. /\ client.at = "call" /\ call.at = "done" /\ UNCHANGED <<drives, call, changes>>
        /\ \E a \in {"printed", "died"} : client' = [client EXCEPT !.at = a]
    BY <1>3 DEF print_response
  <2>2. PICK at, line, tokens : client = [at |-> at, line |-> line, tokens |-> tokens]
    BY DEF IInv, Shape, ClientRecord, CallRecord
  <2>3. PICK a \in {"printed", "died"} : client' = [at |-> a, line |-> line, tokens |-> tokens]
    BY <2>1, <2>2
  <2>4. client'.at = a
    BY <2>3
  <2> QED
    BY <2>1, <2>3, <2>4, ClientKeeps
<1>4. CASE Loop
  BY <1>4, LoopKeeps
<1>5. CASE Fail
  <2>1. client' = [client EXCEPT !.at = "died"] /\ UNCHANGED <<drives, call, changes>>
    BY <1>5 DEF Fail
  <2>2. PICK at, line, tokens : client = [at |-> at, line |-> line, tokens |-> tokens]
    BY DEF IInv, Shape, ClientRecord, CallRecord
  <2>3. client' = [at |-> "died", line |-> line, tokens |-> tokens]
    BY <2>1, <2>2
  <2> QED
    BY <2>1, <2>3, ClientKeeps
<1>6. CASE serv_os_version
  BY <1>6, VersionText, FinishKeeps DEF serv_os_version, Running
<1>7. CASE serv_current_time
  BY <1>7, TimeText, FinishKeeps DEF serv_current_time, Running
<1>8. CASE serv_os_time
  <2>1. \A t \in Ticks : IsText(os_time_handler(t))
    BY ServiceAssumption, UptimeText
  <2> QED
    BY <1>8, <2>1, FinishKeeps DEF serv_os_time, Running
<1>9. CASE serv_memory_status
  BY <1>9, MemoryText, FinishKeeps DEF serv_memory_status, Running
<1>10. CASE serv_file_owner \/ serv_file_access_right
  BY <1>10, FileRoutineKeeps
<1>11. CASE GetLogicalDrives
  BY <1>11, GetLogicalDrivesKeeps
<1>12. CASE DrivesDone
  BY <1>12, DrivesDoneKeeps
<1>13. ASSUME NEW l \in Letter, serv_disks_types(l) \/ serv_free_space(l)
       PROVE  IInv'
  BY <1>13, DisksTypesKeeps, FreeSpaceKeeps
<1>14. ASSUME NEW l \in Letter, Replug(l)
       PROVE  IInv'
  BY <1>14, ReplugKeeps
<1>15. CASE UNCHANGED vars
  <2>1. UNCHANGED <<drives, client, call, changes>>
    BY <1>15 DEF vars
  <2>2. TypeOK'
    BY <2>1 DEF IInv, TypeOK
  <2>3. Shape' /\ Begun'
    <3>1. client' = client /\ call' = call /\ ClientRecord(client) /\ CallRecord(call)
      BY <2>1 DEF IInv, Shape
    <3>2. ClientRecord(client') /\ CallRecord(call')
      BY <3>1
    <3> QED
      BY <2>1, <3>2 DEF IInv, Shape, Begun
  <2>4. TypesReport' /\ UptimeReport'
    BY <2>1 DEF IInv, TypesReport, UptimeReport
  <2>5. SpaceReport'
    BY <2>1 DEF IInv, SpaceReport, FreeSpaceEndsAtAShortNumber
  <2> QED
    BY <2>2, <2>3, <2>4, <2>5 DEF IInv
<1> QED
  BY <1>1, <1>2, <1>3, <1>4, <1>5, <1>6, <1>7, <1>8, <1>9, <1>10, <1>11, <1>12, <1>13,
     <1>14, <1>15 DEF Next, Program, Server

LEMMA Invariant == Spec => []IInv
<1>1. Init => IInv
  BY InitIInv
<1>2. IInv /\ [Next]_vars => IInv'
  BY NextIInv
<1> QED
  BY <1>1, <1>2, PTL DEF Spec

-----------------------------------------------------------------------------
(* What follows from it.                                                   *)

LEMMA DonePrints ==
  ASSUME IInv
  PROVE  Shown(call.text) = [i \in 1 .. Len(call.text) |->
                               IF i + 4 <= BufSize THEN call.text[i] ELSE <<"foreign", 0, i + 3>>]
<1>1. PICK S : call.text \in Seq(S)
  BY DEF IInv, Begun, IsText
<1> QED
  BY <1>1, ShownIsTheText

\* The client prints the text the routine wrote, byte for byte, whatever its length,
\* as far as it fits the reply: the loop at the end of every handler moves it up by
\* four bytes from its last byte down, and the four bytes of the length take the place
\* it leaves.  The end of a text that does not fit is never printed.
THEOREM PrintsTheText == Spec => []PrintedIsTheText
<1>1. IInv => PrintedIsTheText
  <2> SUFFICES ASSUME IInv PROVE PrintedIsTheText
    OBVIOUS
  <2> DEFINE shown == Shown(call.text)
  <2>1. shown = [i \in 1 .. Len(call.text) |->
                   IF i + 4 <= BufSize THEN call.text[i] ELSE <<"foreign", 0, i + 3>>]
    BY DonePrints
  <2>2. Len(call.text) \in Nat
    BY LenType DEF IInv, Begun
  <2> HIDE DEF shown
  <2>3. DOMAIN shown = 1 .. Len(call.text) /\ Len(shown) = Len(call.text)
    BY <2>1, <2>2
  <2>4. \A i \in DOMAIN shown :
          IF i + 4 <= BufSize THEN shown[i] = call.text[i] ELSE shown[i][1] = "foreign"
    BY <2>1, <2>3
  <2> QED
    BY <2>3, <2>4 DEF PrintedIsTheText, shown
<1> QED
  BY <1>1, Invariant, PTL

\* The report of the drive types has a row for every drive there was when the mask
\* was read, and for no other, in the order of the letters, for any number of
\* drives and however they come and go while the loop runs.
THEOREM CoversTheMask == Spec => []ReportCoversTheMask
<1>1. IInv => ReportCoversTheMask
  <2> SUFFICES ASSUME IInv, call.cmd = "diskstype", call.at = "done" PROVE ReportCoversTheMask
    BY DEF ReportCoversTheMask
  <2>1. call.left = {} /\ Covers(call.text, call.mask \ call.left)
    BY DEF IInv, TypesReport
  <2>2. call.mask \ call.left = call.mask
    BY <2>1
  <2> QED
    BY <2>1, <2>2 DEF Covers, ReportCoversTheMask
<1> QED
  BY <1>1, Invariant, PTL

\* Each row shows the file system of the last drive up to its own that had a volume
\* when its row was made, and none if there was no such drive: all rows read the name
\* from one buffer nobody clears.
THEOREM LastFileSystems == Spec => []RowsShowTheLastFileSystem
<1>1. IInv => RowsShowTheLastFileSystem
  BY DEF IInv, TypesReport, LastNames, RowsShowTheLastFileSystem
<1> QED
  BY <1>1, Invariant, PTL

\* The report of the free space ends at the first number of fewer than six
\* characters: strlen stops at the NUL gcvt wrote.
THEOREM FreeSpaceIsCut == Spec => []FreeSpaceEndsAtAShortNumber
<1>1. IInv => FreeSpaceEndsAtAShortNumber
  BY DEF IInv, SpaceReport, FreeSpaceEndsAtAShortNumber
<1> QED
  BY <1>1, Invariant, PTL

\* The hours, minutes and seconds printed add up to the uptime the int holds, for
\* every value of the tick counter, the negative ones included.
THEOREM UptimeIsWhole == Spec => []UptimeAddsUp
<1>1. IInv => UptimeAddsUp
  <2> SUFFICES ASSUME IInv, client.at = "printed", call.cmd = "ostime", ~Overrun(call.text)
               PROVE  UptimeAddsUp
    BY DEF UptimeAddsUp
  <2> DEFINE t == call.given
             shown == Shown(call.text)
  <2>1. call.at = "done"
    BY DEF IInv, Begun
  <2>2. t \in Ticks /\ call.text = os_time_handler(t)
    BY <2>1 DEF IInv, UptimeReport
  <2>3. t \in 0 .. Word - 1
    BY <2>2, ServiceAssumption
  <2>4. shown = os_time_handler(t)
    <3>1. Len(call.text) \in Nat /\ BufSize \in Nat /\ call.text = [i \in 1 .. Len(call.text) |-> call.text[i]]
      BY LenType, ServiceAssumption DEF IInv, Begun, IsText
    <3>2. \A i \in 1 .. Len(call.text) : i + 4 <= BufSize
      BY <3>1 DEF Overrun
    <3> QED
      BY <2>2, <3>1, <3>2, DonePrints
  <2> HIDE DEF t, shown
  <2>5. PICK h, m, s \in Starts(shown, {"number"}) :
          /\ Starts(shown, {"number"}) = {h, m, s} /\ h < m /\ m < s
          /\ shown[h][2] = Hours(t) /\ shown[m][2] = Minutes(t) /\ shown[s][2] = Seconds(t)
    BY <2>3, <2>4, UptimeText
  <2>6. /\ Minutes(t) \in -59 .. 59 /\ Seconds(t) \in -59 .. 59
        /\ Hours(t) * 3600 + Minutes(t) * 60 + Seconds(t) = Quot(AsInt(t), Second)
        /\ t < Word \div 2 => Hours(t) >= 0 /\ Minutes(t) >= 0 /\ Seconds(t) >= 0
    BY <2>3, UptimeParts
  <2>7. /\ shown[h][2] * 3600 + shown[m][2] * 60 + shown[s][2] = Quot(AsInt(t), Second)
        /\ shown[m][2] \in -59 .. 59 /\ shown[s][2] \in -59 .. 59
        /\ t < Word \div 2 => shown[h][2] >= 0 /\ shown[m][2] >= 0 /\ shown[s][2] >= 0
    BY <2>5, <2>6
  <2> QED
    <3>1. TimeOf(shown, t)
      BY <2>5, <2>7 DEF TimeOf
    <3> QED
      BY <3>1 DEF UptimeAddsUp, t, shown
<1> QED
  BY <1>1, Invariant, PTL


\* The tokens are those of the line.
Split ==
  client.at = "split" =>
    /\ client.tokens = split(client.line)
    /\ \E n \in Nat : DOMAIN client.line = 1 .. n /\ Len(client.line) = n

LEMMA LinesAreSequences ==
  ASSUME NEW s \in Lines
  PROVE  \E n \in Nat : DOMAIN s = 1 .. n /\ Len(s) = n
<1>1. ASSUME NEW n \in Nat, s \in [1 .. n -> Char]
      PROVE  DOMAIN s = 1 .. n /\ Len(s) = n
  BY <1>1
<1>2. \A a : DOMAIN <<a>> = 1 .. 1 /\ Len(<<a>>) = 1
  OBVIOUS
<1>3. \A a, b, c : DOMAIN <<a, b, c>> = 1 .. 3 /\ Len(<<a, b, c>>) = 3
  OBVIOUS
<1>4. CASE \E n \in 1 .. LineLen : s \in [1 .. n -> Char]
  <2>1. LineLen \in Nat
    BY ServiceAssumption
  <2> QED
    BY <1>1, <1>4, <2>1
<1>5. CASE \E a : s = <<a>>
  BY <1>2, <1>5
<1>6. CASE \E a, b, c : s = <<a, b, c>>
  BY <1>3, <1>6
<1>7. \/ s \in UNION {[1 .. n -> Char] : n \in 1 .. LineLen}
      \/ s \in {<<cmd>> : cmd \in Commands}
      \/ s \in {<<cmd, Space, "x">> : cmd \in {"fowner", "frights"}}
  BY Zenon DEF Lines
<1>8. s \in UNION {[1 .. n -> Char] : n \in 1 .. LineLen} => \E n \in 1 .. LineLen : s \in [1 .. n -> Char]
  BY Zenon
<1>9. s \in {<<cmd>> : cmd \in Commands} => \E a : s = <<a>>
  BY Zenon
<1>10. s \in {<<cmd, Space, "x">> : cmd \in {"fowner", "frights"}} => \E a, b, c : s = <<a, b, c>>
  BY Zenon
<1> QED
  BY <1>4, <1>5, <1>6, <1>7, <1>8, <1>9, <1>10

LEMMA NextSplit == IInv /\ Split /\ [Next]_vars => Split'
<1> SUFFICES ASSUME IInv, Split, [Next]_vars, client'.at = "split" PROVE Split'
  BY DEF Split
<1>1. PICK at, line, tokens : client = [at |-> at, line |-> line, tokens |-> tokens]
  BY DEF IInv, Shape, ClientRecord, CallRecord
<1>2. CASE ReadLine
  <2>1. PICK s \in Lines : client' = [Prompt EXCEPT !.at = "split", !.line = s, !.tokens = split(s)]
    BY <1>2 DEF ReadLine
  <2> DEFINE t == split(s)
  <2>2. t = split(s)
    OBVIOUS
  <2> HIDE DEF t
  <2>3. client' = [at |-> "split", line |-> s, tokens |-> t]
    BY <2>1, <2>2 DEF Prompt
  <2>4. client'.line = s /\ client'.tokens = t
    BY <2>3
  <2> QED
    BY <2>2, <2>4, LinesAreSequences DEF Split
<1>3. ASSUME NEW a, client' = [client EXCEPT !.at = a]
      PROVE  a = "split"
  <2>1. client' = [at |-> a, line |-> line, tokens |-> tokens]
    BY <1>1, <1>3
  <2> QED
    BY <2>1
<1>4. client' # Prompt
  BY DEF Prompt
<1>5. CASE UNCHANGED client
  BY <1>5 DEF Split
<1>6. CASE Program
  <2>1. CASE Interpret
    BY <1>3, <1>4, <2>1 DEF Interpret
  <2>2. CASE print_response \/ Fail
    BY <1>3, <2>2 DEF print_response, Fail
  <2>3. CASE Loop
    BY <1>4, <2>3 DEF Loop
  <2>4. CASE Server
    <3>1. UNCHANGED client
      BY <2>4 DEF Server, serv_os_version, serv_current_time, serv_os_time, serv_memory_status,
                  serv_file_owner, serv_file_access_right, GetLogicalDrives, DrivesDone,
                  serv_disks_types, serv_free_space
    <3> QED
      BY <1>5, <3>1
  <2> QED
    BY <1>6, <2>1, <2>2, <2>3, <2>4 DEF Program
<1>7. ASSUME NEW l \in Letter, Replug(l)
      PROVE  UNCHANGED client
  BY <1>7 DEF Replug
<1> QED
  BY <1>2, <1>5, <1>6, <1>7 DEF Next, vars

\* split finds the words of every line, whatever the number of blanks between,
\* before and behind them, and the order it gives them in is theirs.
THEOREM SplitIsRight == Spec => []SplitFindsWords
<1>1. Init => Split
  BY DEF Init, Prompt, Split
<1>2. Spec => []Split
  BY <1>1, NextSplit, Invariant, PTL DEF Spec
<1>3. Split => SplitFindsWords
  <2> SUFFICES ASSUME Split, client.at = "split" PROVE SplitFindsWords
    BY DEF SplitFindsWords
  <2> DEFINE s == client.line
  <2>1. PICK n \in Nat : DOMAIN s = 1 .. n /\ Len(s) = n
    BY DEF Split
  <2>2. client.tokens = split(s)
    BY DEF Split
  <2> HIDE DEF s
  <2>3. Tells(s, 1, client.tokens)
    BY <2>1, <2>2, SplitTells
  <2>4. Runs(s, 1) = {r \in (DOMAIN s) \X (DOMAIN s) :
                        /\ r[1] <= r[2] /\ \A i \in r[1] .. r[2] : s[i] # Space
                        /\ r[1] = 1 \/ s[r[1] - 1] = Space
                        /\ r[2] = Len(s) \/ s[r[2] + 1] = Space}
    BY <2>1 DEF Runs
  <2>5. /\ Len(client.tokens) = Cardinality(Runs(s, 1))
        /\ \A r \in Runs(s, 1) :
             client.tokens[Cardinality({q \in Runs(s, 1) : q[1] <= r[1]})] = SubSeq(s, r[1], r[2])
    BY <2>3 DEF Tells, Upto
  <2> QED
    BY <2>4, <2>5 DEF SplitFindsWords, s
<1> QED
  BY <1>2, <1>3, PTL

=============================================================================
