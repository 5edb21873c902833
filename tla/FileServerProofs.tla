--------------------------- MODULE FileServerProofs ---------------------------
(***************************************************************************)
(* Proofs about FileServer, for any clients, paths, files and faults, for  *)
(* any width of an int and whether or not the clients exclude each other:  *)
(* what a transfer can do to a file.  And for clients that do exclude each *)
(* other, that every command is one step of AtomicFiles.                   *)
(***************************************************************************)
EXTENDS FileServer, TLAPS

File == Seq(Byte)

States == {"loop", "ask", "asked", "read", "fetched", "loaded", "write", "died"}

Calls == [at : States, path : Path \cup {Absent}, size : Nat, buf : File, pos : Nat,
          hurt : BOOLEAN, was : File \cup {Absent}]

\* What every variable is.
StateType ==
  /\ store \in [Path -> File \cup {Absent}]
  /\ local \in [Client -> File \cup {Absent}]
  /\ call \in [Client -> Calls]
  /\ up \in BOOLEAN

\* A command has a path, and from the time the buffer is there it is `size` long
\* and the transfer has not gone past its end.
Shape(k) ==
  /\ k.at \notin {"loop", "died"} => k.path \in Path
  /\ k.at \in {"loop", "died", "ask", "asked"} => k.buf = <<>>
  /\ k.at \in {"loop", "died", "ask", "asked", "loaded"} => k.pos = 0
  /\ k.at \in {"read", "fetched", "loaded", "write"} => Len(k.buf) = k.size /\ k.pos <= k.size

\* A file that is open is there.
OpenIsThere(k) == k.at \in {"ask", "read", "write"} => store[k.path] \in File

Buffers == \A c \in Client : Shape(call[c]) /\ OpenIsThere(call[c])

\* A file is overlaid, never shifted.
Placed(f) == f # Absent => \A i \in 1 .. Len(f) : f[i] = Fill \/ f[i][2] = i

InPlace ==
  /\ \A p \in Path : Placed(store[p])
  /\ \A c \in Client : Placed(local[c]) /\ Placed(call[c].buf)

\* What is known of a download as long as nobody else touches the file.
CleanDownload(k, f) ==
  ~k.hurt =>
    /\ k.at \in {"ask", "asked", "read", "fetched"} => f # Absent /\ f \in File
    /\ k.at \in {"asked", "read", "fetched"} => k.size = AsInt(Len(f))
    /\ k.at = "read" => k.pos <= Len(f) /\ \A i \in 1 .. k.pos : k.buf[i] = f[i]
    /\ k.at = "fetched" => k.buf = SubSeq(f, 1, k.size)

\* Of an upload.
CleanUpload(k, f) == k.at = "write" /\ ~k.hurt => f = SubSeq(k.buf, 1, k.pos)

Clean == \A c \in Client : /\ CleanDownload(call[c], store[call[c].path])
                           /\ CleanUpload(call[c], store[call[c].path])

IInv == StateType /\ Buffers /\ InPlace /\ Clean

-----------------------------------------------------------------------------
(* Numbers, files and what a transfer makes of them.                       *)

\* The conversion to an int never makes a length longer, and leaves one that
\* fits as it is.
LEMMA AsIntIs ==
  ASSUME NEW n \in Nat
  PROVE  /\ AsInt(n) \in Int /\ AsInt(n) <= n
         /\ n < Word \div 2 => AsInt(n) = n
<1>1. Word \in Nat /\ Word > 0
  BY FileAssumption
<1>2. n % Word \in Nat /\ n % Word <= n /\ (n < Word => n % Word = n)
  BY <1>1
<1>3. Word \div 2 \in Nat /\ Word \div 2 <= Word
  BY <1>1
<1> QED
  BY <1>1, <1>2, <1>3 DEF AsInt

\* A function of n bytes is a file of length n.
LEMMA FileIs ==
  ASSUME NEW n \in Nat, NEW f \in [1..n -> Byte]
  PROVE  f \in File /\ Len(f) = n
BY DEF File

\* A beginning of a file.
LEMMA PrefixIs ==
  ASSUME NEW f \in File, NEW n \in Nat, n <= Len(f)
  PROVE  /\ SubSeq(f, 1, n) \in File /\ Len(SubSeq(f, 1, n)) = n
         /\ \A i \in 1..n : SubSeq(f, 1, n)[i] = f[i]
BY DEF File

\* Two files are the same when they have the same bytes.
LEMMA SameFile ==
  ASSUME NEW f \in File, NEW g \in File, Len(f) = Len(g), \A i \in 1 .. Len(f) : f[i] = g[i]
  PROVE  f = g
BY DEF File

LEMMA AbsentIsNoFile == Absent \notin File
BY FileAssumption DEF File

LEMMA EmptyFile == <<>> \in File /\ Len(<<>>) = 0
BY DEF File

\* The whole of a file, and a beginning of a beginning.
LEMMA Prefixes ==
  ASSUME NEW f \in File
  PROVE  /\ SubSeq(f, 1, Len(f)) = f
         /\ SubSeq(f, 1, 0) = <<>>
         /\ \A n \in 0 .. Len(f) : \A m \in 0 .. n : SubSeq(SubSeq(f, 1, n), 1, m) = SubSeq(f, 1, m)
<1>0. Len(f) \in Nat
  BY DEF File
<1>1. SubSeq(f, 1, Len(f)) = f
  <2>1. /\ SubSeq(f, 1, Len(f)) \in File /\ Len(SubSeq(f, 1, Len(f))) = Len(f)
        /\ \A i \in 1 .. Len(f) : SubSeq(f, 1, Len(f))[i] = f[i]
    BY <1>0, PrefixIs
  <2> QED
    BY <2>1, SameFile
<1>2. SubSeq(f, 1, 0) = <<>>
  BY <1>0, PrefixIs, SameFile, EmptyFile
<1>3. ASSUME NEW n \in 0 .. Len(f), NEW m \in 0 .. n
      PROVE  SubSeq(SubSeq(f, 1, n), 1, m) = SubSeq(f, 1, m)
  <2>1. SubSeq(f, 1, n) \in File /\ Len(SubSeq(f, 1, n)) = n /\ \A i \in 1..n : SubSeq(f, 1, n)[i] = f[i]
    BY <1>0, <1>3, PrefixIs
  <2>2. /\ SubSeq(f, 1, m) \in File /\ Len(SubSeq(f, 1, m)) = m
        /\ \A i \in 1..m : SubSeq(f, 1, m)[i] = f[i]
    BY <1>0, <1>3, PrefixIs
  <2>3. ASSUME NEW g \in File, Len(g) = n
        PROVE  /\ SubSeq(g, 1, m) \in File /\ Len(SubSeq(g, 1, m)) = m
               /\ \A i \in 1..m : SubSeq(g, 1, m)[i] = g[i]
    BY <1>3, <2>3, PrefixIs
  <2>4. \A i \in 1..m : SubSeq(SubSeq(f, 1, n), 1, m)[i] = SubSeq(f, 1, m)[i]
    BY <1>3, <2>1, <2>2, <2>3
  <2> QED
    BY <2>1, <2>2, <2>3, <2>4, SameFile
<1> QED
  BY <1>1, <1>2, <1>3

\* A write of the next bytes of a buffer: the file is as long as before or ends
\* where the write ended, bytes m + 1 .. n are the buffer's, the others are the
\* old ones or the zeros of a gap.
LEMMA WrittenIs ==
  ASSUME NEW f \in File, NEW b \in File, NEW m \in Nat, NEW n \in Nat, m < n, n <= Len(b)
  PROVE  LET g == Written(f, b, m, n)
         IN  /\ g \in File
             /\ Len(g) = IF n > Len(f) THEN n ELSE Len(f)
             /\ \A i \in 1 .. Len(g) :
                  \/ i \in m + 1 .. n /\ g[i] = b[i]
                  \/ i \notin m + 1 .. n /\ i <= Len(f) /\ g[i] = f[i]
                  \/ i \in 1 .. m /\ i > Len(f) /\ g[i] = Fill
<1> DEFINE l == IF n > Len(f) THEN n ELSE Len(f)
           e(i) == CASE i \in m + 1 .. n -> b[i]
                     [] i \in 1 .. m /\ i > Len(f) -> Fill
                     [] OTHER -> f[i]
<1>1. Len(f) \in Nat /\ Len(b) \in Nat /\ l \in Nat
  BY DEF File
<1>2. ASSUME NEW i \in 1..l
      PROVE  /\ e(i) \in Byte
             /\ \/ i \in m + 1 .. n /\ e(i) = b[i]
                \/ i \notin m + 1 .. n /\ i <= Len(f) /\ e(i) = f[i]
                \/ i \in 1 .. m /\ i > Len(f) /\ e(i) = Fill
  <2>1. CASE i \in m + 1 .. n
    <3>1. e(i) = b[i] /\ i \in 1 .. Len(b)
      BY <1>1, <2>1
    <3> QED
      BY <2>1, <3>1 DEF File
  <2>2. CASE i \in 1 .. m /\ i > Len(f)
    <3>1. e(i) = Fill /\ Fill \in Byte
      BY <1>1, <2>2 DEF Byte
    <3> QED
      BY <2>2, <3>1
  <2>3. CASE i \notin m + 1 .. n /\ ~(i \in 1 .. m /\ i > Len(f))
    <3>1. e(i) = f[i] /\ i \in 1 .. Len(f)
      BY <1>1, <1>2, <2>3
    <3> QED
      BY <2>3, <3>1 DEF File
  <2> QED
    BY <2>1, <2>2, <2>3
<1>3. Written(f, b, m, n) = [i \in 1..l |-> e(i)]
  BY DEF Written
<1>4. [i \in 1..l |-> e(i)] \in [1..l -> Byte]
  BY <1>2
<1>5. [i \in 1..l |-> e(i)] \in File /\ Len([i \in 1..l |-> e(i)]) = l
  BY <1>1, <1>4, FileIs
<1>6. \A i \in 1..l : [j \in 1..l |-> e(j)][i] = e(i)
  OBVIOUS
<1> HIDE DEF l, e
<1>7. Len(Written(f, b, m, n)) = IF n > Len(f) THEN n ELSE Len(f)
  BY <1>3, <1>5 DEF l
<1> QED
  BY <1>2, <1>3, <1>5, <1>6, <1>7

-----------------------------------------------------------------------------
(* What a step has to respect, by the kind of step.                        *)

\* A call as it should be, of a file f on the server.
Sound(k, f) ==
  /\ k \in Calls /\ Shape(k) /\ Placed(k.buf)
  /\ k.at \in {"ask", "read", "write"} => f \in File
  /\ CleanDownload(k, f) /\ CleanUpload(k, f)

LEMMA AtRest ==
  /\ Idle \in Calls /\ Dead \in Calls
  /\ \A f : Sound(Idle, f) /\ Sound(Dead, f)
<1>1. Idle \in Calls /\ Dead \in Calls
  BY EmptyFile DEF Idle, Dead, Calls, States
<1>2. Idle.at = "loop" /\ Idle.buf = <<>> /\ Idle.pos = 0 /\ Dead.at = "died" /\ Dead.buf = <<>> /\ Dead.pos = 0
  BY DEF Idle, Dead
<1>3. Placed(<<>>)
  BY EmptyFile DEF Placed
<1> QED
  BY <1>1, <1>2, <1>3 DEF Sound, Shape, CleanDownload, CleanUpload

\* A step that changes the call of one client, and at most its local file.
LEMMA CallStep ==
  ASSUME IInv, NEW c \in Client, NEW k, Sound(k, store[k.path]),
         call' = [call EXCEPT ![c] = k], store' = store, up' \in BOOLEAN,
         local' \in [Client -> File \cup {Absent}], \A d \in Client : Placed(local'[d])
  PROVE  IInv'
<1> USE DEF IInv
<1>1. call'[c] = k /\ \A d \in Client : d # c => call'[d] = call[d]
  BY DEF StateType
<1>2. StateType'
  BY DEF StateType, Sound
<1>3. \A d \in Client : d # c =>
        /\ Shape(call'[d]) /\ OpenIsThere(call'[d]) /\ Placed(call'[d].buf)
        /\ CleanDownload(call'[d], store[call'[d].path]) /\ CleanUpload(call'[d], store[call'[d].path])
  BY <1>1 DEF Buffers, Clean, InPlace
<1>4. /\ Shape(call'[c]) /\ OpenIsThere(call'[c]) /\ Placed(call'[c].buf)
      /\ CleanDownload(call'[c], store[call'[c].path]) /\ CleanUpload(call'[c], store[call'[c].path])
  BY <1>1 DEF Sound, OpenIsThere
<1>5. Buffers'
  BY <1>3, <1>4 DEF Buffers, OpenIsThere
<1>6. InPlace'
  BY <1>3, <1>4 DEF InPlace
<1>7. Clean'
  BY <1>3, <1>4 DEF Clean
<1> QED
  BY <1>2, <1>5, <1>6, <1>7

\* A step that changes a file of the server: to the others it is touched.
LEMMA StoreStep ==
  ASSUME IInv, NEW c \in Client, NEW p \in Path, NEW k, NEW f \in File \cup {Absent},
         store' = [store EXCEPT ![p] = f], call' = Touch(c, p, k),
         k.path = p \/ k = Idle, Sound(k, f), Placed(f),
         f \notin File => ~OpenOn(p), UNCHANGED <<local, up>>
  PROVE  IInv'
<1> USE DEF IInv
<1> DEFINE T(d) == [call[d] EXCEPT !.hurt = @ \/ call[d].path = p]
<1>1. call'[c] = k /\ \A d \in Client : d # c => call'[d] = T(d)
  BY DEF Touch
<1>2. store'[p] = f /\ \A q \in Path : q # p => store'[q] = store[q]
  BY DEF StateType
<1>3. ASSUME NEW d \in Client, d # c
      PROVE  /\ T(d) \in Calls /\ Shape(T(d)) /\ Placed(T(d).buf)
             /\ T(d).at \in {"ask", "read", "write"} => store'[T(d).path] \in File
             /\ CleanDownload(T(d), store'[T(d).path]) /\ CleanUpload(T(d), store'[T(d).path])
  <2>1. /\ call[d] \in Calls /\ Shape(call[d]) /\ Placed(call[d].buf) /\ OpenIsThere(call[d])
        /\ CleanDownload(call[d], store[call[d].path]) /\ CleanUpload(call[d], store[call[d].path])
    BY DEF StateType, Buffers, InPlace, Clean
  <2>2. /\ T(d) \in Calls /\ T(d).at = call[d].at /\ T(d).path = call[d].path /\ T(d).size = call[d].size
        /\ T(d).buf = call[d].buf /\ T(d).pos = call[d].pos
        /\ T(d).hurt = (call[d].hurt \/ call[d].path = p)
    BY <2>1 DEF Calls
  <2> HIDE DEF T
  <2>3. Shape(T(d)) /\ Placed(T(d).buf)
    BY <2>1, <2>2 DEF Shape
  <2>4. CASE call[d].path = p
    <3>1. T(d).at \in {"ask", "read", "write"} => f \in File
      BY <2>2, <2>4 DEF OpenOn
    <3> QED
      BY <1>2, <2>2, <2>3, <2>4, <3>1 DEF CleanDownload, CleanUpload
  <2>5. CASE call[d].path # p /\ call[d].path \in Path
    <3>1. store'[T(d).path] = store[call[d].path]
      BY <1>2, <2>2, <2>5
    <3> QED
      BY <2>1, <2>2, <2>3, <2>5, <3>1 DEF CleanDownload, CleanUpload, OpenIsThere
  <2>6. CASE call[d].path \notin Path
    <3>1. T(d).at \in {"loop", "died"}
      BY <2>1, <2>2, <2>6 DEF Shape
    <3> QED
      BY <2>2, <2>3, <3>1 DEF CleanDownload, CleanUpload
  <2> QED
    BY <2>4, <2>5, <2>6
<1>4. /\ Shape(k) /\ k \in Calls /\ Placed(k.buf)
      /\ k.at \in {"ask", "read", "write"} => store'[k.path] \in File
      /\ CleanDownload(k, store'[k.path]) /\ CleanUpload(k, store'[k.path])
  <2>1. CASE k = Idle
    BY <2>1, AtRest DEF Sound, Idle, CleanDownload, CleanUpload
  <2>2. CASE k.path = p
    BY <1>2, <2>2 DEF Sound
  <2> QED
    BY <2>1, <2>2
<1> HIDE DEF T
<1>5. /\ \A d \in Client : /\ call'[d] \in Calls /\ Shape(call'[d]) /\ Placed(call'[d].buf)
                           /\ call'[d].at \in {"ask", "read", "write"} => store'[call'[d].path] \in File
                           /\ CleanDownload(call'[d], store'[call'[d].path])
                           /\ CleanUpload(call'[d], store'[call'[d].path])
  BY <1>1, <1>3, <1>4
<1>6. StateType'
  <2>1. call' \in [Client -> Calls]
    BY <1>5 DEF Touch
  <2> QED
    BY <2>1 DEF StateType
<1>7. Buffers'
  BY <1>5 DEF Buffers, OpenIsThere
<1>8. InPlace'
  BY <1>2, <1>5 DEF InPlace
<1>9. Clean'
  BY <1>5 DEF Clean
<1> QED
  BY <1>6, <1>7, <1>8, <1>9

-----------------------------------------------------------------------------
(* The steps, one by one.                                                  *)

LEMMA InitIInv == Init => IInv
<1> SUFFICES ASSUME Init PROVE IInv
  OBVIOUS
<1>1. ASSUME NEW o \in Client \cup {"server"}, NEW f \in Some(o)
      PROVE  f \in File \cup {Absent} /\ Placed(f)
  <2>1. CASE f = Absent
    BY <2>1 DEF Placed
  <2>2. ASSUME NEW n \in Lengths, f = FileOf(o, n) PROVE f \in File /\ Placed(f)
    <3>1. n \in Nat
      BY FileAssumption
    <3>2. f \in [1..n -> Byte] /\ \A i \in 1..n : f[i] = <<o, i>>
      BY <2>2, <3>1 DEF FileOf, Byte
    <3> QED
      BY <3>1, <3>2, FileIs DEF Placed
  <2> QED
    BY <2>1, <2>2 DEF Some
<1>2. StateType
  <2>1. store \in [Path -> File \cup {Absent}]
    BY <1>1 DEF Init
  <2>2. local \in [Client -> File \cup {Absent}]
    BY <1>1 DEF Init
  <2> QED
    BY <2>1, <2>2, AtRest DEF Init, StateType
<1>3. InPlace
  <2>1. \A c \in Client : Placed(call[c].buf)
    BY AtRest DEF Init, Sound
  <2> QED
    BY <1>1, <2>1 DEF Init, InPlace
<1>4. Buffers /\ Clean
  BY AtRest DEF Init, Buffers, Clean, Sound, OpenIsThere, Idle
<1> QED
  BY <1>2, <1>3, <1>4 DEF IInv

\* What is known of a call and of the file it is about.
LEMMA OfCall ==
  ASSUME IInv, NEW c \in Client
  PROVE  /\ Sound(call[c], store[call[c].path]) /\ call[c] \in Calls
         /\ local \in [Client -> File \cup {Absent}] /\ \A d \in Client : Placed(local[d])
         /\ \A p \in Path : store[p] \in File \cup {Absent} /\ Placed(store[p])
         /\ up \in BOOLEAN
BY DEF IInv, StateType, Buffers, InPlace, Clean, Sound, OpenIsThere

LEMMA RemoveIInv ==
  ASSUME IInv, NEW c \in Client, NEW p \in Path, Remove(c, p)
  PROVE  IInv'
<1>1. Sound(Idle, Absent) /\ Placed(Absent)
  BY AtRest DEF Placed
<1> QED
  BY <1>1, StoreStep DEF Remove

\* Steps after which the client is back at its prompt or dead.
LEMMA CallEnds ==
  ASSUME IInv, NEW c \in Client, NEW k \in {Idle, Dead},
         call' = [call EXCEPT ![c] = k], UNCHANGED <<store, local, up>>
  PROVE  IInv'
BY AtRest, CallStep, OfCall

LEMMA DownIInv ==
  ASSUME IInv, NEW c \in Client, NEW p \in Path, Down(c, p)
  PROVE  IInv'
<1> DEFINE k == [Idle EXCEPT !.at = "ask", !.path = p, !.hurt = WrittenByOther(c, p)]
<1>1. store[p] \in File /\ store[p] # Absent
  BY OfCall DEF Down
<1>2. /\ k.at = "ask" /\ k.path = p /\ k.size = 0 /\ k.buf = <<>> /\ k.pos = 0 /\ k.was = Absent
      /\ k.hurt = WrittenByOther(c, p)
  BY DEF Idle
<1>3. k \in Calls
  BY <1>2, EmptyFile DEF Idle, Calls, States, WrittenByOther
<1> HIDE DEF k
<1>4. Sound(k, store[k.path])
  BY <1>1, <1>2, <1>3, EmptyFile DEF Sound, Shape, Placed, CleanDownload, CleanUpload
<1>5. call' = [call EXCEPT ![c] = k] /\ UNCHANGED <<store, local, up>>
  BY DEF Down, k
<1> QED
  BY <1>4, <1>5, CallStep, OfCall

LEMMA SizeIInv ==
  ASSUME IInv, NEW c \in Client, Size(c)
  PROVE  IInv'
<1> DEFINE n == AsInt(Len(store[call[c].path]))
           k == [call[c] EXCEPT !.at = "asked", !.size = n]
<1>1. /\ Sound(call[c], store[call[c].path]) /\ call[c] \in Calls /\ call[c].at = "ask"
      /\ store[call[c].path] \in File
  BY OfCall DEF Size, Sound
<1>2. n \in Int
  BY <1>1, AsIntIs DEF File
<1>3. UNCHANGED <<store, local, up>>
  BY DEF Size
<1>4. CASE n = -1 \/ n < -1
  <2>1. call' = [call EXCEPT ![c] = CASE n = -1 -> Idle [] n < -1 -> Dead [] OTHER -> k]
    BY DEF Size
  <2> HIDE DEF n, k
  <2>2. CASE n = -1
    <3>1. ~(n < -1)
      BY <2>2
    <3>2. (CASE n = -1 -> Idle [] n < -1 -> Dead [] OTHER -> k) = Idle
      BY <2>2, <3>1
    <3> QED
      BY <1>3, <2>1, <3>2, CallEnds
  <2>3. CASE n # -1 /\ n < -1
    <3>1. (CASE n = -1 -> Idle [] n < -1 -> Dead [] OTHER -> k) = Dead
      BY <2>3
    <3> QED
      BY <1>3, <2>1, <3>1, CallEnds
  <2> QED
    BY <1>4, <2>2, <2>3
<1>5. CASE ~(n = -1 \/ n < -1)
  <2>1. n \in Nat
    BY <1>2, <1>5
  <2>2. /\ k \in Calls /\ k.at = "asked" /\ k.size = n /\ k.path = call[c].path /\ k.buf = call[c].buf
        /\ k.pos = call[c].pos /\ k.hurt = call[c].hurt
    BY <1>1, <2>1 DEF Calls, States
  <2>3. call' = [call EXCEPT ![c] = k]
    BY <1>2, <1>5, <2>1 DEF Size
  <2> HIDE DEF k
  <2>4. Sound(k, store[k.path])
    BY <1>1, <2>2 DEF Sound, Shape, CleanDownload, CleanUpload
  <2> QED
    BY <1>3, <2>3, <2>4, CallStep, OfCall
<1> QED
  BY <1>4, <1>5

LEMMA DownloadIInv ==
  ASSUME IInv, NEW c \in Client, Download(c)
  PROVE  IInv'
<1> DEFINE z == call[c].size
           b == [i \in 1..z |-> Fill]
           k == [call[c] EXCEPT !.at = "read", !.buf = b]
<1>1. /\ Sound(call[c], store[call[c].path]) /\ call[c] \in Calls /\ call[c].at = "asked"
      /\ call[c].path \in Path
  BY OfCall DEF Download, Sound, Shape
<1>2. UNCHANGED <<store, local, up>>
  BY DEF Download
<1>3. CASE store[call[c].path] # Absent /\ call' = [call EXCEPT ![c] = k]
  <2>1. z \in Nat /\ b \in [1..z -> Byte]
    BY <1>1 DEF Calls, Byte
  <2>2. b \in File /\ Len(b) = z /\ Placed(b)
    <3>1. b \in File /\ Len(b) = z
      BY <2>1, FileIs
    <3> QED
      BY <3>1 DEF Placed
  <2> HIDE DEF b
  <2>3. /\ k \in Calls /\ k.at = "read" /\ k.buf = b /\ k.size = z /\ k.path = call[c].path
        /\ k.pos = 0 /\ k.hurt = call[c].hurt
    BY <1>1, <2>2 DEF Calls, States, Sound, Shape
  <2> HIDE DEF k
  <2>4. store[call[c].path] \in File
    BY <1>1, <1>3, OfCall
  <2>5. Sound(k, store[k.path])
    BY <1>1, <2>1, <2>2, <2>3, <2>4 DEF Sound, Shape, CleanDownload, CleanUpload, File
  <2> QED
    BY <1>2, <1>3, <2>5, CallStep, OfCall
<1>4. CASE \E j \in {Idle, Dead} : call' = [call EXCEPT ![c] = j]
  BY <1>2, <1>4, CallEnds
<1> QED
  BY <1>3, <1>4 DEF Download

\* A byte of a file in place.
LEMMA ByteOf ==
  ASSUME NEW f \in File, Placed(f), NEW i \in 1 .. Len(f)
  PROVE  f[i] \in Byte /\ (f[i] = Fill \/ f[i][2] = i)
BY AbsentIsNoFile DEF File, Placed

LEMMA ReadIInv ==
  ASSUME IInv, NEW c \in Client, NEW n \in Nat, Read(c, n)
  PROVE  IInv'
<1> DEFINE f == store[call[c].path]
           o == call[c].buf
           m == call[c].pos
           z == call[c].size
           b == [i \in 1..z |-> IF i \in m + 1 .. n THEN f[i] ELSE o[i]]
           k == [call[c] EXCEPT !.buf = b, !.pos = n]
<1>1. /\ Sound(call[c], f) /\ call[c] \in Calls /\ call[c].at = "read" /\ f \in File /\ Placed(f)
      /\ z \in Nat /\ m \in Nat /\ o \in File /\ Placed(o) /\ Len(o) = z
      /\ m < n /\ n <= z /\ n <= Len(f)
  <2>1. Sound(call[c], f) /\ call[c] \in Calls /\ call[c].at = "read" /\ m < n /\ n <= z /\ n <= Len(f)
    BY OfCall DEF Read
  <2>2. call[c].path \in Path
    BY <2>1 DEF Sound, Shape
  <2> QED
    BY <2>1, <2>2, OfCall DEF Sound, Shape, Calls
<1>2. ASSUME NEW i \in 1..z PROVE b[i] \in Byte /\ (b[i] = Fill \/ b[i][2] = i)
  <2> HIDE DEF f, o, m, k
  <2>1. CASE i \in m + 1 .. n
    <3>1. b[i] = f[i] /\ i \in 1 .. Len(f)
      BY <1>1, <2>1 DEF File
    <3>2. f[i] \in Byte /\ (f[i] = Fill \/ f[i][2] = i)
      BY <1>1, <3>1, ByteOf
    <3> QED
      BY <3>1, <3>2
  <2>2. CASE i \notin m + 1 .. n
    <3>1. b[i] = o[i] /\ i \in 1 .. Len(o)
      BY <1>1, <2>2
    <3>2. o[i] \in Byte /\ (o[i] = Fill \/ o[i][2] = i)
      BY <1>1, <3>1, ByteOf
    <3> QED
      BY <3>1, <3>2
  <2> QED
    BY <2>1, <2>2
<1>3. b \in File /\ Len(b) = z
  <2>1. b \in [1..z -> Byte]
    BY <1>2
  <2> HIDE DEF b
  <2> QED
    BY <1>1, <2>1, FileIs
<1>4. Placed(b)
  BY <1>2, <1>3 DEF Placed
<1>5. \A i \in 1..z : b[i] = IF i \in m + 1 .. n THEN f[i] ELSE o[i]
  OBVIOUS
<1> HIDE DEF b
<1>6. /\ k \in Calls /\ k.at = "read" /\ k.buf = b /\ k.size = z /\ k.path = call[c].path
      /\ k.pos = n /\ k.hurt = call[c].hurt
  BY <1>1, <1>3 DEF Calls
<1>7. call' = [call EXCEPT ![c] = k] /\ UNCHANGED <<store, local, up>>
  BY DEF Read, b
<1> HIDE DEF k
<1>8. ~k.hurt => \A i \in 1..n : b[i] = f[i]
  BY <1>1, <1>5, <1>6 DEF Sound, CleanDownload
<1>9. Sound(k, store[k.path])
  BY <1>1, <1>3, <1>4, <1>6, <1>8 DEF Sound, Shape, CleanDownload, CleanUpload
<1> QED
  BY <1>7, <1>9, CallStep, OfCall

LEMMA ReadEndIInv ==
  ASSUME IInv, NEW c \in Client, ReadEnd(c)
  PROVE  IInv'
<1> DEFINE f == store[call[c].path]
           k == [call[c] EXCEPT !.at = "fetched"]
<1>1. /\ Sound(call[c], f) /\ call[c] \in Calls /\ call[c].at = "read"
      /\ call[c].pos = call[c].size \/ call[c].pos >= Len(f)
      /\ call' = [call EXCEPT ![c] = k] /\ UNCHANGED <<store, local, up>>
  BY OfCall DEF ReadEnd
<1>2. /\ k \in Calls /\ k.at = "fetched" /\ k.path = call[c].path /\ k.size = call[c].size
      /\ k.buf = call[c].buf /\ k.pos = call[c].pos /\ k.hurt = call[c].hurt
  BY <1>1 DEF Calls, States
<1> HIDE DEF k
<1>3. ASSUME ~k.hurt PROVE k.buf = SubSeq(f, 1, k.size)
  <2>1. /\ f \in File /\ k.size = AsInt(Len(f)) /\ k.pos <= Len(f) /\ k.pos <= k.size
        /\ \A i \in 1 .. k.pos : k.buf[i] = f[i]
        /\ k.buf \in File /\ Len(k.buf) = k.size /\ k.size \in Nat /\ k.pos \in Nat
    BY <1>1, <1>2, <1>3 DEF Sound, CleanDownload, Shape, Calls
  <2>2. Len(f) \in Nat /\ k.size <= Len(f)
    BY <2>1, AsIntIs DEF File
  <2>3. k.pos = k.size
    BY <1>1, <1>2, <2>1, <2>2
  <2>4. /\ SubSeq(f, 1, k.size) \in File /\ Len(SubSeq(f, 1, k.size)) = k.size
        /\ \A i \in 1 .. k.size : SubSeq(f, 1, k.size)[i] = f[i]
    BY <2>1, <2>2, PrefixIs
  <2>5. Len(k.buf) = Len(SubSeq(f, 1, k.size))
        /\ \A i \in 1 .. Len(k.buf) : k.buf[i] = SubSeq(f, 1, k.size)[i]
    BY <2>1, <2>3, <2>4
  <2> QED
    BY <2>1, <2>4, <2>5, SameFile
<1>4. Sound(k, store[k.path])
  BY <1>1, <1>2, <1>3 DEF Sound, Shape, CleanDownload, CleanUpload
<1> QED
  BY <1>1, <1>4, CallStep, OfCall

LEMMA SaveIInv ==
  ASSUME IInv, NEW c \in Client, Save(c)
  PROVE  IInv'
<1>1. call[c].buf \in File /\ Placed(call[c].buf)
  BY OfCall DEF Sound, Calls
<1>2. local' \in [Client -> File \cup {Absent}] /\ \A d \in Client : Placed(local'[d])
  BY <1>1, OfCall DEF Save
<1> QED
  BY <1>2, AtRest, CallStep, OfCall DEF Save

LEMMA UpIInv ==
  ASSUME IInv, NEW c \in Client, NEW p \in Path, Up(c, p)
  PROVE  IInv'
<1> DEFINE n == AsInt(Len(local[c]))
           k == [Idle EXCEPT !.at = "loaded", !.path = p, !.size = n, !.buf = SubSeq(local[c], 1, n)]
<1>1. local[c] \in File /\ Placed(local[c]) /\ local[c] # Absent /\ n # -1
  BY OfCall DEF Up
<1>2. Len(local[c]) \in Nat /\ n \in Int /\ n <= Len(local[c])
  BY <1>1, AsIntIs DEF File
<1>3. UNCHANGED <<store, local, up>> /\ call' = [call EXCEPT ![c] = IF n < -1 THEN Dead ELSE k]
  BY DEF Up
<1>4. CASE n < -1
  BY <1>3, <1>4, CallEnds
<1>5. CASE ~(n < -1)
  <2>1. n \in Nat
    BY <1>1, <1>2, <1>5
  <2>2. SubSeq(local[c], 1, n) \in File /\ Len(SubSeq(local[c], 1, n)) = n /\ Placed(SubSeq(local[c], 1, n))
    <3>1. /\ SubSeq(local[c], 1, n) \in File /\ Len(SubSeq(local[c], 1, n)) = n
          /\ \A i \in 1..n : SubSeq(local[c], 1, n)[i] = local[c][i]
      BY <1>1, <1>2, <2>1, PrefixIs
    <3> QED
      BY <1>1, <1>2, <2>1, <3>1 DEF Placed
  <2>3. /\ k.at = "loaded" /\ k.path = p /\ k.size = n /\ k.buf = SubSeq(local[c], 1, n)
        /\ k.pos = 0 /\ k.hurt = FALSE /\ k.was = Absent
    BY DEF Idle
  <2>4. k \in Calls
    BY <2>1, <2>2 DEF Idle, Calls, States
  <2> HIDE DEF k, n
  <2>5. Sound(k, store[k.path])
    BY <2>1, <2>2, <2>3, <2>4 DEF Sound, Shape, CleanDownload, CleanUpload
  <2>6. call' = [call EXCEPT ![c] = k]
    BY <1>3, <1>5
  <2> QED
    BY <1>3, <2>5, <2>6, CallStep, OfCall
<1> QED
  BY <1>4, <1>5

LEMMA UploadIInv ==
  ASSUME IInv, NEW c \in Client, Upload(c)
  PROVE  IInv'
<1> DEFINE p == call[c].path
           k == Opened(c, p)
<1>1. /\ Sound(call[c], store[p]) /\ call[c] \in Calls /\ call[c].at = "loaded" /\ p \in Path
      /\ UNCHANGED <<local, up>>
  BY OfCall DEF Upload, Sound, Shape
<1>2. CASE store' = [store EXCEPT ![p] = <<>>] /\ call' = Touch(c, p, k)
  <2>1. /\ k.at = "write" /\ k.path = p /\ k.size = call[c].size /\ k.buf = call[c].buf /\ k.pos = 0
        /\ k \in Calls
    <3>1. store[p] \in File \cup {Absent}
      BY <1>1, OfCall
    <3>2. WrittenByOther(c, p) \in BOOLEAN
      BY DEF WrittenByOther
    <3>3. (IF Exclusive THEN store[p] ELSE Absent) \in File \cup {Absent}
      BY <3>1
    <3> DEFINE h == WrittenByOther(c, p)
               w == IF Exclusive THEN store[p] ELSE Absent
    <3>4. k = [call[c] EXCEPT !.at = "write", !.hurt = h, !.was = w]
      BY DEF Opened
    <3>5. call[c].pos = 0
      BY <1>1 DEF Sound, Shape
    <3> HIDE DEF h, w, k
    <3> QED
      BY <1>1, <3>2, <3>3, <3>4, <3>5 DEF Calls, States, h, w
  <2>2. SubSeq(k.buf, 1, k.pos) = <<>>
    <3>1. k.buf \in File
      BY <2>1 DEF Calls
    <3> QED
      BY <2>1, <3>1, Prefixes
  <2> HIDE DEF k
  <2>3. Sound(k, <<>>)
    BY <1>1, <2>1, <2>2, EmptyFile DEF Sound, Shape, CleanDownload, CleanUpload
  <2>4. Placed(<<>>)
    BY EmptyFile DEF Placed
  <2> QED
    BY <1>1, <1>2, <2>1, <2>3, <2>4, EmptyFile, StoreStep
<1>3. CASE store' = store /\ \E j \in {Idle, Dead} : call' = [call EXCEPT ![c] = j]
  BY <1>1, <1>3, CallEnds
<1> QED
  BY <1>2, <1>3 DEF Upload

LEMMA WriteIInv ==
  ASSUME IInv, NEW c \in Client, NEW n \in Nat, Write(c, n)
  PROVE  IInv'
<1> DEFINE p == call[c].path
           f == store[p]
           b == call[c].buf
           m == call[c].pos
           g == Written(f, b, m, n)
           k == [call[c] EXCEPT !.pos = n]
<1>1. /\ Sound(call[c], f) /\ call[c] \in Calls /\ call[c].at = "write" /\ p \in Path
      /\ f \in File /\ f # Absent /\ Placed(f) /\ b \in File /\ b # Absent /\ Placed(b)
      /\ m \in Nat /\ m < n /\ n <= Len(b) /\ Len(b) = call[c].size
  <2>1. Sound(call[c], f) /\ call[c] \in Calls /\ call[c].at = "write" /\ m < n /\ n <= call[c].size
    BY OfCall DEF Write
  <2>2. p \in Path
    BY <2>1 DEF Sound, Shape
  <2> QED
    BY <2>1, <2>2, OfCall, AbsentIsNoFile DEF Sound, Shape, Calls
<1>2. /\ store' = [store EXCEPT ![p] = g] /\ call' = Touch(c, p, k) /\ UNCHANGED <<local, up>>
  BY DEF Write
<1>3. /\ k \in Calls /\ k.at = "write" /\ k.path = p /\ k.size = call[c].size /\ k.buf = b
      /\ k.pos = n /\ k.hurt = call[c].hurt
  BY <1>1 DEF Calls
<1>4. /\ g \in File
      /\ Len(g) = IF n > Len(f) THEN n ELSE Len(f)
      /\ \A i \in 1 .. Len(g) :
           \/ i \in m + 1 .. n /\ g[i] = b[i]
           \/ i \notin m + 1 .. n /\ i <= Len(f) /\ g[i] = f[i]
           \/ i \in 1 .. m /\ i > Len(f) /\ g[i] = Fill
  <2>1. f \in File /\ b \in File /\ m \in Nat /\ m < n /\ n <= Len(b)
    BY <1>1
  <2> HIDE DEF p, f, b, m, k
  <2> QED
    BY ONLY <2>1, n \in Nat, WrittenIs
<1> HIDE DEF g, k
<1>5. Len(f) \in Nat /\ Len(b) \in Nat /\ Len(g) \in Nat
  BY <1>1, <1>4 DEF File
<1>6. Placed(g)
  <2>1. ASSUME NEW i \in 1 .. Len(g) PROVE g[i] = Fill \/ g[i][2] = i
    <3>1. CASE i \in m + 1 .. n /\ g[i] = b[i]
      <4>1. i \in 1 .. Len(b)
        BY <1>1, <1>5, <3>1
      <4> QED
        BY <1>1, <3>1, <4>1 DEF Placed
    <3>2. CASE i <= Len(f) /\ g[i] = f[i]
      BY <1>1, <1>5, <3>2 DEF Placed
    <3> QED
      BY <1>4, <3>1, <3>2
  <2> QED
    BY <2>1 DEF Placed
<1>7. ASSUME ~k.hurt PROVE g = SubSeq(k.buf, 1, k.pos)
  <2>1. f = SubSeq(b, 1, m)
    BY <1>1, <1>3, <1>7 DEF Sound, CleanUpload
  <2>2. m <= Len(b)
    BY <1>1, <1>5
  <2>3. Len(f) = m /\ \A i \in 1..m : f[i] = b[i]
    BY <1>1, <2>1, <2>2, PrefixIs
  <2>4. Len(g) = n /\ \A i \in 1..n : g[i] = b[i]
    <3>1. m \in Nat /\ m < n
      BY <1>1
    <3> HIDE DEF p, f, b, m
    <3>2. Len(g) = n
      BY <1>4, <2>3, <3>1
    <3>3. ASSUME NEW i \in 1..n PROVE g[i] = b[i]
      <4>1. i \in 1 .. Len(g) /\ (i \in m + 1 .. n \/ i \in 1 .. m)
        BY <3>1, <3>2
      <4>2. CASE i \in m + 1 .. n
        BY <1>4, <3>1, <4>1, <4>2
      <4>3. CASE i \in 1 .. m
        BY <1>4, <2>3, <3>1, <4>1, <4>3
      <4> QED
        BY <4>1, <4>2, <4>3
    <3> QED
      BY <3>2, <3>3
  <2>5. /\ SubSeq(b, 1, n) \in File /\ Len(SubSeq(b, 1, n)) = n
        /\ \A i \in 1..n : SubSeq(b, 1, n)[i] = b[i]
    BY <1>1, PrefixIs
  <2>6. Len(g) = Len(SubSeq(b, 1, n)) /\ \A i \in 1 .. Len(g) : g[i] = SubSeq(b, 1, n)[i]
    BY <2>4, <2>5
  <2>7. g = SubSeq(b, 1, n)
    BY <1>4, <2>5, <2>6, SameFile
  <2> QED
    BY <1>3, <2>7
<1>8. Sound(k, g)
  BY <1>1, <1>3, <1>4, <1>7 DEF Sound, Shape, CleanDownload, CleanUpload
<1> QED
  BY <1>1, <1>2, <1>3, <1>4, <1>6, <1>8, StoreStep

LEMMA CrashIInv ==
  ASSUME IInv, Crash
  PROVE  IInv'
<1>1. ASSUME NEW c \in Client PROVE Sound(call'[c], store[call'[c].path])
  <2>1. CASE call'[c] = Dead
    BY <2>1, AtRest
  <2>2. CASE call'[c] = call[c]
    BY <2>2, OfCall
  <2> QED
    BY <2>1, <2>2 DEF Crash
<1>2. store' = store /\ local' = local /\ up' = FALSE /\ call' \in [Client -> Calls]
  BY <1>1 DEF Crash, Sound
<1> QED
  BY <1>1, <1>2 DEF IInv, StateType, Buffers, InPlace, Clean, OpenIsThere, Sound

LEMMA NextIInv ==
  ASSUME IInv, [Next]_vars
  PROVE  IInv'
<1>1. ASSUME NEW c \in Client, NEW p \in Path, Remove(c, p) \/ Down(c, p) \/ Up(c, p) PROVE IInv'
  BY <1>1, RemoveIInv, DownIInv, UpIInv
<1>2. ASSUME NEW c \in Client, NEW p \in Path, Complain(c, p) PROVE UNCHANGED vars
  BY <1>2 DEF Complain
<1>3. ASSUME NEW c \in Client, Size(c) \/ Download(c) \/ ReadEnd(c) \/ Save(c) \/ Upload(c) PROVE IInv'
  BY <1>3, SizeIInv, DownloadIInv, ReadEndIInv, SaveIInv, UploadIInv
<1>4. ASSUME NEW c \in Client, NEW n \in 1 .. call[c].size, Read(c, n) \/ Write(c, n) PROVE IInv'
  <2>1. n \in Nat
    BY OfCall DEF Calls
  <2> QED
    BY <1>4, <2>1, ReadIInv, WriteIInv
<1>5. ASSUME NEW c \in Client, WriteEnd(c) \/ Unserved(c) \/ Again(c) PROVE IInv'
  BY <1>5, CallEnds DEF WriteEnd, Unserved, Again
<1>6. CASE Restart
  BY <1>6 DEF Restart, IInv, StateType, Buffers, InPlace, Clean, OpenIsThere
<1>7. CASE UNCHANGED vars
  BY <1>7 DEF vars, IInv, StateType, Buffers, InPlace, Clean, OpenIsThere
<1>8. CASE Next
  <2>1. ASSUME NEW c \in Client, Progress(c) PROVE IInv'
    BY <1>3, <1>4, <1>5, <2>1 DEF Progress
  <2> QED
    BY <1>1, <1>2, <1>5, <1>6, <1>7, <1>8, <2>1, CrashIInv DEF Next
<1> QED
  BY <1>7, <1>8

LEMMA SpecIInv == Spec => []IInv
<1>1. Init => IInv
  BY InitIInv
<1>2. IInv /\ [Next]_vars => IInv'
  BY NextIInv
<1> QED
  BY <1>1, <1>2, PTL DEF Spec

-----------------------------------------------------------------------------
(* What the runs check, for every value of the constants.                  *)

\* A transfer never leaves its buffer, and files and buffers hold bytes.
THEOREM TypeCorrect == Spec => []TypeOK
<1>1. ASSUME IInv PROVE TypeOK
  <2>1. ASSUME NEW f \in File PROVE DOMAIN f = 1 .. Len(f) /\ \A i \in DOMAIN f : f[i] \in Byte
    BY DEF File
  <2>2. \A p \in Path : store[p] # Absent => store[p] \in File
    BY <1>1 DEF IInv, StateType
  <2>3. ASSUME NEW c \in Client
        PROVE  /\ call[c].at \in States
               /\ call[c].pos \in 0 .. call[c].size /\ Len(call[c].buf) \in {0, call[c].size}
    <3>1. call[c] \in Calls /\ Shape(call[c])
      BY <1>1 DEF IInv, StateType, Buffers
    <3>2. call[c].size \in Nat /\ call[c].pos \in Nat /\ call[c].at \in States
      BY <3>1 DEF Calls
    <3> QED
      BY <3>1, <3>2, EmptyFile DEF Shape, States
  <2> QED
    BY <1>1, <2>1, <2>2, <2>3 DEF TypeOK, States, IInv, StateType
<1> QED
  BY <1>1, SpecIInv, PTL

\* serv_upload and serv_download overlay a file and never shift it: whatever
\* overlaps, truncates, crashes or fails, a byte is where its maker put it.
THEOREM NeverShifted == Spec => []BytesKeepTheirPlace
<1>1. IInv => BytesKeepTheirPlace
  BY DEF IInv, InPlace, Placed, BytesKeepTheirPlace
<1> QED
  BY <1>1, SpecIInv, PTL

\* An upload nobody disturbs: the file on the server is what was written of it
\* so far, whatever serv_upload found there.
THEOREM UndisturbedUpload == Spec => []CleanUploadGrows
<1>1. IInv => CleanUploadGrows
  BY DEF IInv, Clean, CleanUpload, CleanUploadGrows
<1> QED
  BY <1>1, SpecIInv, PTL

\* A download nobody disturbs brings the whole file, if its length fits an int,
\* though serv_get_file_size and serv_download open the file each on its own.
THEOREM UndisturbedDownload == Spec => []CleanDownloadIsExact
<1>1. ASSUME IInv, NEW c \in Client,
             call[c].at = "fetched", ~call[c].hurt,
             Len(store[call[c].path]) < Word \div 2
      PROVE  call[c].buf = store[call[c].path]
  <2> DEFINE f == store[call[c].path]
  <2>1. f \in File /\ call[c].size = AsInt(Len(f)) /\ call[c].buf = SubSeq(f, 1, call[c].size)
    BY <1>1 DEF IInv, Clean, CleanDownload
  <2>2. call[c].size = Len(f)
    BY <1>1, <2>1, AsIntIs DEF File
  <2> QED
    BY <2>1, <2>2, Prefixes
<1>2. IInv => CleanDownloadIsExact
  BY <1>1 DEF IInv, Clean, CleanDownload, CleanDownloadIsExact
<1> QED
  BY <1>2, SpecIInv, PTL
===============================================================================
