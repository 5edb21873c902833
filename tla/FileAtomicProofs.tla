--------------------------- MODULE FileAtomicProofs ---------------------------
(***************************************************************************)
(* Proof that clients of FileServer that exclude each other see commands   *)
(* that are one step each: those of AtomicFiles.  The argument: the path of *)
(* a command is nobody else's, so nothing is ever hurt, a command has one  *)
(* effect on the files as they are seen, that of its end, and what was      *)
(* loaded from the local file is still what the local file holds.           *)
(***************************************************************************)
EXTENDS FileServerProofs

Busy(k) == k.at \notin {"loop", "died"}

\* The path of a command is nobody else's.
Alone(c) == Busy(call[c]) =>
  /\ ~call[c].hurt /\ call[c].path # Absent
  /\ \A d \in Client \ {c} : call[d].path # call[c].path

\* An upload has loaded what the local file still is.
Held(k, f) == k.at \in {"loaded", "write"} =>
  f \in File /\ k.size = AsInt(Len(f)) /\ k.buf = SubSeq(f, 1, k.size)

Excl == \A c \in Client : Alone(c) /\ Held(call[c], local[c])

\* The files as clients that exclude each other see them.
Seen == [p \in Path |-> Before(p)]

-----------------------------------------------------------------------------
(* Steps of clients that exclude each other.                               *)

\* p is nobody's but c's.
Own(c, p) == p # Absent /\ \A d \in Client \ {c} : call[d].path # p

LEMMA Started ==
  ASSUME Exclusive, NEW c \in Client, NEW p \in Path, Start(c, p)
  PROVE  Own(c, p) /\ call[c] = Idle /\ \A d \in Client : call[d].path # p
BY DEF Start, Own, Idle

LEMMA BusyOwns ==
  ASSUME IInv, Excl, NEW c \in Client, Busy(call[c])
  PROVE  Own(c, call[c].path) /\ call[c].path \in Path /\ ~call[c].hurt
BY OfCall DEF Excl, Alone, Own, Sound, Shape, Busy

\* Touching a path that is nobody else's touches nobody.
LEMMA TouchesNobody ==
  ASSUME IInv, NEW c \in Client, NEW p \in Path, NEW k, Own(c, p)
  PROVE  Touch(c, p, k) = [call EXCEPT ![c] = k]
<1>1. ASSUME NEW d \in Client, d # c
      PROVE  [call[d] EXCEPT !.hurt = @ \/ call[d].path = p] = call[d]
  <2>1. call[d] \in Calls /\ call[d].path # p
    BY <1>1, OfCall DEF Own
  <2>2. (call[d].hurt \/ call[d].path = p) = call[d].hurt
    BY <2>1 DEF Calls
  <2> QED
    BY <2>1, <2>2 DEF Calls
<1>2. call \in [Client -> Calls]
  BY DEF IInv, StateType
<1> QED
  BY <1>1, <1>2 DEF Touch

\* What a step of client c with its call becoming k has to respect.
LEMMA ExclStep ==
  ASSUME IInv, Excl, NEW c \in Client, NEW k, call' = [call EXCEPT ![c] = k],
         Busy(k) => ~k.hurt /\ Own(c, k.path),
         ~Busy(k) => k.path = Absent,
         Held(k, local'[c]), \A d \in Client : d # c => local'[d] = local[d]
  PROVE  Excl'
<1>1. call'[c] = k /\ \A d \in Client : d # c => call'[d] = call[d]
  BY DEF IInv, StateType
<1>2. ASSUME NEW d \in Client PROVE Alone(d)'
  <2>1. CASE d = c
    BY <1>1, <2>1 DEF Alone, Own
  <2>2. CASE d # c
    <3>1. call'[d] = call[d] /\ Alone(d)
      BY <1>1, <2>2 DEF Excl
    <3>2. Busy(call[d]) => call'[c].path # call[d].path
      BY <1>1, <2>2, <3>1 DEF Alone, Own
    <3> QED
      BY <1>1, <3>1, <3>2 DEF Alone
  <2> QED
    BY <2>1, <2>2
<1>3. \A d \in Client : Held(call'[d], local'[d])
  BY <1>1 DEF Excl
<1> QED
  BY <1>2, <1>3 DEF Excl

-----------------------------------------------------------------------------
(* The files as they are seen.                                             *)

\* Before, of given calls and files.
BeforeOf(cl, st, p) ==
  IF \E c \in Client : cl[c].at = "write" /\ cl[c].path = p
  THEN cl[CHOOSE c \in Client : cl[c].at = "write" /\ cl[c].path = p].was
  ELSE st[p]

LEMMA SeenIs ==
  /\ Seen = [p \in Path |-> BeforeOf(call, store, p)]
  /\ Seen' = [p \in Path |-> BeforeOf(call', store', p)]
BY DEF Seen, Before, BeforeOf

\* A path that at most client c writes to.
LEMMA BeforeIs ==
  ASSUME NEW cl, NEW st, NEW p, NEW c \in Client, \A d \in Client \ {c} : cl[d].path # p
  PROVE  BeforeOf(cl, st, p) = IF cl[c].at = "write" /\ cl[c].path = p THEN cl[c].was ELSE st[p]
<1>1. CASE cl[c].at = "write" /\ cl[c].path = p
  <2>1. (CHOOSE d \in Client : cl[d].at = "write" /\ cl[d].path = p) = c
    BY <1>1
  <2> QED
    BY <1>1, <2>1 DEF BeforeOf
<1>2. CASE ~(cl[c].at = "write" /\ cl[c].path = p)
  BY <1>2 DEF BeforeOf
<1> QED
  BY <1>1, <1>2

\* A path that client c is not writing to, before its step or after it, is seen
\* as it was.
LEMMA Elsewhere ==
  ASSUME IInv, Excl, NEW c \in Client, NEW k, NEW q \in Path,
         call' = [call EXCEPT ![c] = k], store'[q] = store[q],
         ~(call[c].at = "write" /\ call[c].path = q), ~(k.at = "write" /\ k.path = q)
  PROVE  BeforeOf(call', store', q) = BeforeOf(call, store, q)
<1>1. call'[c] = k /\ \A d \in Client : d # c => call'[d] = call[d]
  BY DEF IInv, StateType
<1>2. CASE \E d \in Client : call[d].at = "write" /\ call[d].path = q
  <2>1. PICK d \in Client : call[d].at = "write" /\ call[d].path = q
    BY <1>2
  <2>2. d # c /\ call'[d] = call[d]
    BY <1>1, <2>1
  <2>3. \A e \in Client \ {d} : call[e].path # q
    BY <2>1 DEF Excl, Alone, Busy
  <2>4. BeforeOf(call, store, q) = call[d].was
    BY <2>1, <2>3, BeforeIs
  <2>5. \A e \in Client : e # d /\ call'[e].path = q => ~(call'[e].at = "write")
    BY <1>1, <2>3
  <2>6. (CHOOSE e \in Client : call'[e].at = "write" /\ call'[e].path = q) = d
    BY <2>1, <2>2, <2>5
  <2>7. BeforeOf(call', store', q) = call'[d].was
    BY <2>1, <2>2, <2>6 DEF BeforeOf
  <2> QED
    BY <2>2, <2>4, <2>7
<1>3. CASE ~\E d \in Client : call[d].at = "write" /\ call[d].path = q
  <2>1. ~\E d \in Client : call'[d].at = "write" /\ call'[d].path = q
    BY <1>1, <1>3
  <2> QED
    BY <1>3, <2>1 DEF BeforeOf
<1> QED
  BY <1>2, <1>3

\* What a step of client c does to what is seen: nothing but at the path of its
\* command, and there as its upload begins or ends.
LEMMA Effect ==
  ASSUME IInv, Excl, NEW c \in Client, NEW k, NEW p \in Path, Own(c, p),
         call' = [call EXCEPT ![c] = k],
         Busy(call[c]) => call[c].path = p, Busy(k) => k.path = p,
         \A q \in Path : q # p => store'[q] = store[q]
  PROVE  /\ Seen[p] = IF call[c].at = "write" THEN call[c].was ELSE store[p]
         /\ Seen'[p] = IF k.at = "write" THEN k.was ELSE store'[p]
         /\ \A q \in Path : q # p => Seen'[q] = Seen[q]
<1>1. call'[c] = k /\ \A d \in Client : d # c => call'[d] = call[d]
  BY DEF IInv, StateType
<1>2. Seen[p] = IF call[c].at = "write" THEN call[c].was ELSE store[p]
  <2>1. BeforeOf(call, store, p) = IF call[c].at = "write" /\ call[c].path = p THEN call[c].was ELSE store[p]
    BY BeforeIs DEF Own
  <2> QED
    BY <2>1, SeenIs DEF Busy
<1>3. Seen'[p] = IF k.at = "write" THEN k.was ELSE store'[p]
  <2>1. \A d \in Client \ {c} : call'[d].path # p
    BY <1>1 DEF Own
  <2>2. BeforeOf(call', store', p) = IF call'[c].at = "write" /\ call'[c].path = p THEN call'[c].was ELSE store'[p]
    <3>1. ASSUME NEW cl, cl = call', NEW st, st = store'
          PROVE  BeforeOf(cl, st, p) = IF cl[c].at = "write" /\ cl[c].path = p THEN cl[c].was ELSE st[p]
      <4>1. \A d \in Client \ {c} : cl[d].path # p
        BY <2>1, <3>1
      <4> QED
        BY <4>1, BeforeIs
    <3> QED
      BY <3>1
  <2> QED
    BY <1>1, <2>2, SeenIs DEF Busy
<1>4. ASSUME NEW q \in Path, q # p PROVE BeforeOf(call', store', q) = BeforeOf(call, store, q)
  <2>1. ~(call[c].at = "write" /\ call[c].path = q) /\ ~(k.at = "write" /\ k.path = q)
    BY <1>4 DEF Busy
  <2>2. store'[q] = store[q]
    BY <1>4
  <2> QED
    BY <2>1, <2>2, Elsewhere
<1> QED
  BY <1>2, <1>3, <1>4, SeenIs

\* A step of an upload that goes on, with the file it found: nothing is seen.
LEMMA StillWriting ==
  ASSUME IInv, Excl, NEW c \in Client, NEW k, NEW p \in Path, Own(c, p),
         call' = [call EXCEPT ![c] = k], call[c].path = p, k.path = p, k.at = "write",
         k.was = IF call[c].at = "write" THEN call[c].was ELSE store[p],
         \A q \in Path : q # p => store'[q] = store[q]
  PROVE  Seen' = Seen
<1>1. /\ Seen[p] = IF call[c].at = "write" THEN call[c].was ELSE store[p]
      /\ Seen'[p] = IF k.at = "write" THEN k.was ELSE store'[p]
      /\ \A q \in Path : q # p => Seen'[q] = Seen[q]
  BY Effect
<1>2. Seen'[p] = Seen[p]
  BY <1>1
<1>3. \A q \in Path : Seen'[q] = Seen[q]
  BY <1>1, <1>2
<1> QED
  BY <1>3, SeenIs

-----------------------------------------------------------------------------
(* The steps, one by one: what clients that exclude each other rely on is   *)
(* kept, and the step is one of AtomicFiles or nobody sees it.              *)

Stutter == Seen' = Seen /\ local' = local

Simulated == Excl' /\ (Atomic!Next \/ Stutter)

\* A step of a command that is not writing.
LEMMA Unseen ==
  ASSUME IInv, Excl, NEW c \in Client, NEW k, call' = [call EXCEPT ![c] = k],
         store' = store, local' = local,
         call[c].at # "write", k.at # "write",
         Busy(k) => ~k.hurt /\ Own(c, k.path),
         ~Busy(k) => k.path = Absent,
         Held(k, local[c])
  PROVE  Simulated
<1>1. Excl'
  BY ExclStep
<1>2. \A q \in Path : BeforeOf(call', store', q) = BeforeOf(call, store, q)
  BY Elsewhere
<1> QED
  BY <1>1, <1>2, SeenIs DEF Simulated, Stutter

LEMMA Resting ==
  /\ ~Busy(Idle) /\ ~Busy(Dead) /\ Idle.path = Absent /\ Dead.path = Absent
  /\ Idle.at = "loop" /\ Dead.at = "died" /\ \A f : Held(Idle, f) /\ Held(Dead, f)
BY DEF Idle, Dead, Busy, Held

\* A command that is not writing ends, or its client dies.
LEMMA Ends ==
  ASSUME IInv, Excl, NEW c \in Client, NEW k \in {Idle, Dead},
         call' = [call EXCEPT ![c] = k], UNCHANGED <<store, local>>, call[c].at # "write"
  PROVE  Simulated
<1>1. k.at # "write" /\ ~Busy(k) /\ k.path = Absent /\ Held(k, local[c])
  BY Resting
<1> QED
  BY <1>1, Unseen

\* A command goes on with the same path, not yet or no longer writing.
LEMMA GoesOn ==
  ASSUME IInv, Excl, NEW c \in Client, NEW k,
         call' = [call EXCEPT ![c] = k], UNCHANGED <<store, local>>,
         Busy(call[c]), Busy(k), k.path = call[c].path, k.hurt = call[c].hurt,
         call[c].at # "write", k.at \notin {"loaded", "write"}
  PROVE  Simulated
<1>1. ~k.hurt /\ Own(c, k.path) /\ Held(k, local[c])
  BY BusyOwns DEF Held
<1> QED
  BY <1>1, Unseen

LEMMA RemoveSim ==
  ASSUME IInv, Excl, Exclusive, NEW c \in Client, NEW p \in Path, Remove(c, p)
  PROVE  Simulated
<1>1. Own(c, p) /\ call[c] = Idle
  BY Started DEF Remove
<1>2. call' = [call EXCEPT ![c] = Idle] /\ local' = local /\ store[p] # Absent
  BY <1>1, TouchesNobody DEF Remove
<1>3. Excl'
  BY <1>2, ExclStep, Resting
<1>4. store'[p] = Absent /\ \A q \in Path : q # p => store'[q] = store[q]
  BY DEF Remove, IInv, StateType
<1>5. Seen[p] = store[p] /\ Seen' = [Seen EXCEPT ![p] = Absent]
  <2>1. Seen[p] = store[p] /\ Seen'[p] = Absent /\ \A q \in Path : q # p => Seen'[q] = Seen[q]
    BY <1>1, <1>2, <1>4, Effect, Resting
  <2> QED
    BY <2>1, SeenIs
<1>6. Atomic!Delete(p)
  BY <1>2, <1>5 DEF Atomic!Delete, Seen
<1> QED
  BY <1>3, <1>6 DEF Simulated, Atomic!Next

LEMMA DownSim ==
  ASSUME IInv, Excl, Exclusive, NEW c \in Client, NEW p \in Path, Down(c, p)
  PROVE  Simulated
<1> DEFINE k == [Idle EXCEPT !.at = "ask", !.path = p, !.hurt = WrittenByOther(c, p)]
<1>1. Own(c, p) /\ call[c] = Idle
  BY Started DEF Down
<1>2. ~WrittenByOther(c, p)
  BY <1>1 DEF WrittenByOther, Own
<1>3. k.at = "ask" /\ k.path = p /\ k.hurt = WrittenByOther(c, p)
  BY DEF Idle
<1>4. call' = [call EXCEPT ![c] = k] /\ UNCHANGED <<store, local>>
  BY DEF Down
<1> HIDE DEF k
<1>5. Busy(k) /\ Held(k, local[c]) /\ call[c].at # "write"
  BY <1>1, <1>3, Resting DEF Busy, Held
<1> QED
  BY <1>1, <1>2, <1>3, <1>4, <1>5, Unseen

LEMMA SizeSim ==
  ASSUME IInv, Excl, NEW c \in Client, Size(c)
  PROVE  Simulated
<1> DEFINE n == AsInt(Len(store[call[c].path]))
           k == [call[c] EXCEPT !.at = "asked", !.size = n]
<1>1. call' = [call EXCEPT ![c] = CASE n = -1 -> Idle [] n < -1 -> Dead [] OTHER -> k]
  BY DEF Size
<1>2. call[c].at = "ask" /\ UNCHANGED <<store, local>> /\ call[c] \in Calls
  BY OfCall DEF Size
<1>3. k.at = "asked" /\ k.path = call[c].path /\ k.hurt = call[c].hurt
  BY <1>2 DEF Calls
<1> HIDE DEF n, k
<1>4. CASE (CASE n = -1 -> Idle [] n < -1 -> Dead [] OTHER -> k) \in {Idle, Dead}
  BY <1>1, <1>2, <1>4, Ends
<1>5. CASE (CASE n = -1 -> Idle [] n < -1 -> Dead [] OTHER -> k) = k
  BY <1>1, <1>2, <1>3, <1>5, GoesOn DEF Busy
<1>6. (CASE n = -1 -> Idle [] n < -1 -> Dead [] OTHER -> k) \in {Idle, Dead, k}
  <2>1. CASE n = -1 /\ ~(n < -1)
    BY <2>1
  <2>2. CASE n # -1 /\ n < -1
    BY <2>2
  <2>3. CASE n # -1 /\ ~(n < -1)
    BY <2>3
  <2>4. ~(n = -1 /\ n < -1)
    OBVIOUS
  <2> QED
    BY <2>1, <2>2, <2>3, <2>4
<1> QED
  BY <1>4, <1>5, <1>6

LEMMA DownloadSim ==
  ASSUME IInv, Excl, NEW c \in Client, Download(c)
  PROVE  Simulated
<1> DEFINE k == [call[c] EXCEPT !.at = "read", !.buf = [i \in 1..call[c].size |-> Fill]]
<1>1. call[c].at = "asked" /\ UNCHANGED <<store, local>> /\ call[c] \in Calls
  BY OfCall DEF Download
<1>2. k.at = "read" /\ k.path = call[c].path /\ k.hurt = call[c].hurt
  BY <1>1 DEF Calls
<1>3. CASE call' = [call EXCEPT ![c] = k]
  <2> HIDE DEF k
  <2> QED
    BY <1>1, <1>2, <1>3, GoesOn DEF Busy
<1>4. CASE \E j \in {Idle, Dead} : call' = [call EXCEPT ![c] = j]
  BY <1>1, <1>4, Ends
<1> QED
  BY <1>3, <1>4 DEF Download

LEMMA ReadSim ==
  ASSUME IInv, Excl, NEW c \in Client, NEW n, Read(c, n)
  PROVE  Simulated
<1>1. PICK b : call' = [call EXCEPT ![c] = [call[c] EXCEPT !.buf = b, !.pos = n]]
  BY DEF Read
<1> DEFINE k == [call[c] EXCEPT !.buf = b, !.pos = n]
<1>2. call[c].at = "read" /\ UNCHANGED <<store, local>> /\ call[c] \in Calls
  BY OfCall DEF Read
<1>3. k.at = "read" /\ k.path = call[c].path /\ k.hurt = call[c].hurt
  BY <1>2 DEF Calls
<1>4. call' = [call EXCEPT ![c] = k]
  BY <1>1
<1> HIDE DEF k
<1> QED
  BY <1>2, <1>3, <1>4, GoesOn DEF Busy

LEMMA ReadEndSim ==
  ASSUME IInv, Excl, NEW c \in Client, ReadEnd(c)
  PROVE  Simulated
<1> DEFINE k == [call[c] EXCEPT !.at = "fetched"]
<1>1. call[c].at = "read" /\ UNCHANGED <<store, local>> /\ call[c] \in Calls
  BY OfCall DEF ReadEnd
<1>2. k.at = "fetched" /\ k.path = call[c].path /\ k.hurt = call[c].hurt
  BY <1>1 DEF Calls
<1>3. call' = [call EXCEPT ![c] = k]
  BY DEF ReadEnd
<1> HIDE DEF k
<1> QED
  BY <1>1, <1>2, <1>3, GoesOn DEF Busy

\* What was fetched of a file nobody touched is what arrives of it.
LEMMA SaveSim ==
  ASSUME IInv, Excl, NEW c \in Client, Save(c)
  PROVE  Simulated
<1> DEFINE p == call[c].path
           b == call[c].buf
<1>1. /\ call[c].at = "fetched" /\ call' = [call EXCEPT ![c] = Idle] /\ store' = store
      /\ local' = [local EXCEPT ![c] = b] \/ local' = local
  BY DEF Save
<1>2. Busy(call[c]) /\ Own(c, p) /\ p \in Path /\ ~call[c].hurt
  BY <1>1, BusyOwns DEF Busy
<1>3. /\ store[p] \in File /\ store[p] # Absent
      /\ call[c].size = AsInt(Len(store[p])) /\ call[c].size \in Nat
      /\ b = SubSeq(store[p], 1, call[c].size)
  BY <1>1, <1>2, OfCall DEF Sound, CleanDownload, Calls
<1>4. CASE local' = local
  BY <1>1, <1>4, Ends
<1>5. CASE local' = [local EXCEPT ![c] = b]
  <2>1. Excl'
    <3>1. \A d \in Client : d # c => local'[d] = local[d]
      BY <1>5, OfCall
    <3> QED
      BY <1>1, <3>1, ExclStep, Resting
  <2>2. Seen[p] = store[p] /\ Seen'[p] = store[p] /\ \A q \in Path : q # p => Seen'[q] = Seen[q]
    BY <1>1, <1>2, Effect, Resting
  <2>3. Seen' = Seen
    BY <2>2, SeenIs
  <2>4. b \in Atomic!Arrives(store[p])
    <3>1. Len(store[p]) \in Nat /\ call[c].size <= Len(store[p])
      BY <1>3, AsIntIs DEF File
    <3>2. Len(store[p]) < Word \div 2 => call[c].size = Len(store[p])
      BY <1>3, <3>1, AsIntIs
    <3>3. call[c].size \in IF Len(store[p]) < Word \div 2 THEN {Len(store[p])} ELSE 0 .. Len(store[p])
      BY <1>3, <3>1, <3>2
    <3> QED
      BY <1>3, <3>3 DEF Atomic!Arrives
  <2>5. Atomic!Fetch(c, p)
    BY <1>2, <1>3, <1>5, <2>2, <2>3, <2>4 DEF Atomic!Fetch, Seen
  <2> QED
    BY <1>2, <2>1, <2>5 DEF Simulated, Atomic!Next
<1> QED
  BY <1>1, <1>4, <1>5

LEMMA UpSim ==
  ASSUME IInv, Excl, Exclusive, NEW c \in Client, NEW p \in Path, Up(c, p)
  PROVE  Simulated
<1> DEFINE n == AsInt(Len(local[c]))
           k == [Idle EXCEPT !.at = "loaded", !.path = p, !.size = n, !.buf = SubSeq(local[c], 1, n)]
<1>1. Own(c, p) /\ call[c] = Idle /\ UNCHANGED <<store, local>>
  BY Started DEF Up
<1>2. call[c].at # "write"
  BY <1>1, Resting
<1>3. local[c] \in File
  BY OfCall DEF Up
<1>4. call' = [call EXCEPT ![c] = IF n < -1 THEN Dead ELSE k]
  BY DEF Up
<1>5. /\ k.at = "loaded" /\ k.path = p /\ k.hurt = FALSE /\ k.size = n
      /\ k.buf = SubSeq(local[c], 1, n)
  BY DEF Idle
<1> HIDE DEF k
<1>6. Busy(k) /\ Held(k, local[c])
  BY <1>3, <1>5 DEF Busy, Held
<1>7. CASE n < -1
  BY <1>1, <1>2, <1>4, <1>7, Ends
<1>8. CASE ~(n < -1)
  BY <1>1, <1>2, <1>4, <1>5, <1>6, <1>8, Unseen
<1> QED
  BY <1>7, <1>8

\* The beginning of an upload is not seen.
LEMMA UploadSim ==
  ASSUME IInv, Excl, Exclusive, NEW c \in Client, Upload(c)
  PROVE  Simulated
<1> DEFINE p == call[c].path
           k == Opened(c, p)
<1>1. call[c].at = "loaded" /\ local' = local /\ call[c] \in Calls
  BY OfCall DEF Upload
<1>2. Busy(call[c]) /\ Own(c, p) /\ p \in Path /\ ~call[c].hurt
  BY <1>1, BusyOwns DEF Busy
<1>3. CASE store' = [store EXCEPT ![p] = <<>>] /\ call' = Touch(c, p, k)
  <2>1. call' = [call EXCEPT ![c] = k]
    BY <1>2, <1>3, TouchesNobody
  <2>2. ~WrittenByOther(c, p)
    BY <1>2 DEF WrittenByOther, Own
  <2>3. /\ k.at = "write" /\ k.path = p /\ k.hurt = WrittenByOther(c, p) /\ k.was = store[p]
        /\ k.size = call[c].size /\ k.buf = call[c].buf
    BY <1>1 DEF Opened, Calls
  <2> HIDE DEF k
  <2>4. Busy(k) /\ Held(k, local'[c])
    BY <1>1, <2>3 DEF Busy, Held, Excl
  <2>5. Excl'
    BY <1>1, <1>2, <2>1, <2>2, <2>3, <2>4, ExclStep
  <2>6. \A q \in Path : q # p => store'[q] = store[q]
    BY <1>3 DEF IInv, StateType
  <2>7. Seen' = Seen
    BY <1>1, <1>2, <2>1, <2>3, <2>6, StillWriting
  <2> QED
    BY <1>1, <2>5, <2>7 DEF Simulated, Stutter
<1>4. CASE store' = store /\ \E j \in {Idle, Dead} : call' = [call EXCEPT ![c] = j]
  BY <1>1, <1>4, Ends
<1> QED
  BY <1>3, <1>4 DEF Upload

\* Nor is the writing.
LEMMA WriteSim ==
  ASSUME IInv, Excl, NEW c \in Client, NEW n, Write(c, n)
  PROVE  Simulated
<1> DEFINE p == call[c].path
           k == [call[c] EXCEPT !.pos = n]
<1>1. call[c].at = "write" /\ local' = local /\ call[c] \in Calls /\ call' = Touch(c, p, k)
  BY OfCall DEF Write
<1>2. Busy(call[c]) /\ Own(c, p) /\ p \in Path /\ ~call[c].hurt
  BY <1>1, BusyOwns DEF Busy
<1>3. call' = [call EXCEPT ![c] = k]
  BY <1>1, <1>2, TouchesNobody
<1>4. /\ k.at = "write" /\ k.path = p /\ k.hurt = call[c].hurt /\ k.was = call[c].was
      /\ k.size = call[c].size /\ k.buf = call[c].buf
  BY <1>1 DEF Calls
<1>5. \A q \in Path : q # p => store'[q] = store[q]
  BY DEF Write, IInv, StateType
<1> HIDE DEF k
<1>6. Busy(k) /\ Held(k, local'[c])
  <2>1. Held(call[c], local[c])
    BY DEF Excl
  <2> QED
    BY <1>1, <1>4, <2>1 DEF Busy, Held
<1>7. Excl'
  <2>1. ~k.hurt /\ Own(c, k.path)
    BY <1>2, <1>4
  <2>2. \A d \in Client : d # c => local'[d] = local[d]
    BY <1>1
  <2> HIDE DEF p
  <2> QED
    BY <1>3, <1>6, <2>1, <2>2, ExclStep
<1>8. Seen' = Seen
  <2>1. PICK q : q = p
    OBVIOUS
  <2>2. /\ q \in Path /\ Own(c, q) /\ call[c].path = q /\ k.path = q /\ k.at = "write"
        /\ k.was = IF call[c].at = "write" THEN call[c].was ELSE store[q]
        /\ \A x \in Path : x # q => store'[x] = store[x]
    BY <1>1, <1>2, <1>4, <1>5, <2>1
  <2> HIDE DEF p
  <2> QED
    BY <1>3, <2>2, StillWriting
<1> QED
  BY <1>1, <1>7, <1>8 DEF Simulated, Stutter

\* What is on the server of an upload is a beginning of the local file.
LEMMA UploadIsABeginning ==
  ASSUME IInv, Excl, NEW c \in Client, call[c].at = "write"
  PROVE  /\ local[c] # Absent /\ local[c] \in File
         /\ call[c].size = AsInt(Len(local[c])) /\ call[c].size \in 0 .. Len(local[c])
         /\ call[c].pos \in 0 .. call[c].size
         /\ store[call[c].path] = SubSeq(local[c], 1, call[c].pos)
<1> DEFINE f == local[c]
<1>1. f \in File /\ call[c].size = AsInt(Len(f)) /\ call[c].buf = SubSeq(f, 1, call[c].size)
  BY DEF Excl, Held
<1>2. ~call[c].hurt /\ Sound(call[c], store[call[c].path]) /\ call[c] \in Calls
  BY OfCall, BusyOwns DEF Busy
<1>3. Len(f) \in Nat /\ call[c].size \in 0 .. Len(f)
  BY <1>1, <1>2, AsIntIs DEF File, Calls
<1>4. call[c].pos \in 0 .. call[c].size /\ store[call[c].path] = SubSeq(call[c].buf, 1, call[c].pos)
  BY <1>2 DEF Sound, Shape, CleanUpload, Calls
<1> QED
  BY <1>1, <1>3, <1>4, Prefixes, AbsentIsNoFile

\* The end of an upload: the file is put, or when the disk is full, torn.
LEMMA WriteEndSim ==
  ASSUME IInv, Excl, NEW c \in Client, WriteEnd(c)
  PROVE  Simulated
<1> DEFINE p == call[c].path
           f == local[c]
<1>1. /\ call[c].at = "write" /\ local' = local /\ store' = store /\ call' = [call EXCEPT ![c] = Idle]
      /\ call[c].pos = call[c].size \/ "full" \in Faults
  BY DEF WriteEnd
<1>2. Busy(call[c]) /\ Own(c, p) /\ p \in Path
  BY <1>1, BusyOwns DEF Busy
<1>3. Excl'
  BY <1>1, ExclStep, Resting
<1>4. /\ f # Absent /\ f \in File /\ call[c].size = AsInt(Len(f)) /\ call[c].size \in 0 .. Len(f)
      /\ call[c].pos \in 0 .. call[c].size /\ store[p] = SubSeq(f, 1, call[c].pos)
  BY <1>1, UploadIsABeginning
<1>5. Seen' = [Seen EXCEPT ![p] = store[p]]
  <2>1. Seen'[p] = store[p] /\ \A q \in Path : q # p => Seen'[q] = Seen[q]
    BY <1>1, <1>2, Effect, Resting
  <2> QED
    BY <2>1, SeenIs
<1>6. Len(f) \in Nat
  BY <1>4 DEF File
<1>7. CASE call[c].pos = call[c].size
  <2>1. Len(f) < Word \div 2 => call[c].size = Len(f)
    BY <1>4, <1>6, AsIntIs
  <2>2. call[c].pos \in IF Len(f) < Word \div 2 THEN {Len(f)} ELSE 0 .. Len(f)
    BY <1>4, <1>6, <1>7, <2>1
  <2>3. store[p] \in Atomic!Arrives(f)
    BY <1>4, <2>2 DEF Atomic!Arrives
  <2>4. Atomic!Put(c, p)
    BY <1>1, <1>4, <1>5, <2>3 DEF Atomic!Put, Seen
  <2> QED
    BY <1>2, <1>3, <2>4 DEF Simulated, Atomic!Next
<1>8. CASE call[c].pos # call[c].size
  <2>1. store[p] \in Atomic!Prefixes(f)
    <3>1. call[c].pos \in 0 .. Len(f)
      BY <1>4, <1>6
    <3> QED
      BY <1>4, <3>1, Zenon DEF Atomic!Prefixes
  <2>2. \A q \in Path : Seen'[q] = Seen[q] \/ (q = p /\ Seen'[q] = store[p])
    BY <1>5 DEF Seen
  <2>3. Seen' = [q \in Path |-> Seen'[q]]
    BY <1>5 DEF Seen
  <2>4. Atomic!Tear
    BY <1>1, <1>4, <2>1, <2>2, <2>3 DEF Atomic!Tear, Seen
  <2> QED
    BY <1>3, <2>4 DEF Simulated, Atomic!Next
<1> QED
  BY <1>7, <1>8

\* The server ends: every upload under way is torn.
LEMMA CrashSim ==
  ASSUME IInv, Excl, Crash
  PROVE  Simulated
<1>1. \A c \in Client : call'[c] = IF call[c].at \in {"ask", "read", "write"} THEN Dead ELSE call[c]
  BY DEF Crash
<1>2. local' = local /\ store' = store
  BY DEF Crash
<1>3. Excl'
  <2>1. ASSUME NEW c \in Client PROVE Alone(c)' /\ Held(call'[c], local'[c])
    <3>1. CASE call'[c] = Dead
      BY <3>1, Resting DEF Alone
    <3>2. CASE call'[c] = call[c]
      <4>1. Alone(c) /\ Held(call'[c], local'[c])
        BY <1>2, <3>2 DEF Excl
      <4>2. ASSUME Busy(call[c]), NEW d \in Client \ {c} PROVE call'[d].path # call[c].path
        BY <1>1, <4>1, <4>2, Resting DEF Alone
      <4> QED
        BY <3>2, <4>1, <4>2 DEF Alone
    <3> QED
      BY <1>1, <3>1, <3>2
  <2> QED
    BY <2>1 DEF Excl
<1>4. ASSUME NEW p \in Path
      PROVE  Seen'[p] = Seen[p] \/ \E c \in Client : local[c] # Absent /\ Seen'[p] \in Atomic!Prefixes(local[c])
  <2>1. Seen'[p] = store[p]
    <3>1. ~\E c \in Client : call'[c].at = "write" /\ call'[c].path = p
      BY <1>1, Resting
    <3>2. BeforeOf(call', store', p) = store[p]
      BY <1>2, <3>1 DEF BeforeOf
    <3> QED
      BY <3>2, SeenIs
  <2>2. CASE \E c \in Client : call[c].at = "write" /\ call[c].path = p
    <3>1. PICK c \in Client : call[c].at = "write" /\ call[c].path = p
      BY <2>2
    <3>2. /\ local[c] # Absent /\ local[c] \in File /\ store[p] = SubSeq(local[c], 1, call[c].pos)
          /\ call[c].size \in 0 .. Len(local[c]) /\ call[c].pos \in 0 .. call[c].size
      BY <3>1, UploadIsABeginning
    <3>3. call[c].pos \in 0 .. Len(local[c])
      BY <3>2 DEF File
    <3> QED
      BY <2>1, <3>2, <3>3 DEF Atomic!Prefixes
  <2>3. CASE ~\E c \in Client : call[c].at = "write" /\ call[c].path = p
    <3>1. Seen[p] = store[p]
      BY <2>3, SeenIs DEF BeforeOf
    <3> QED
      BY <2>1, <3>1
  <2> QED
    BY <2>2, <2>3
<1>5. Seen' = [p \in Path |-> Seen'[p]]
  BY SeenIs
<1>6. Atomic!Tear
  BY <1>2, <1>4, <1>5 DEF Atomic!Tear, Seen
<1> QED
  BY <1>3, <1>6 DEF Simulated, Atomic!Next

LEMMA NextSim ==
  ASSUME IInv, Excl, Exclusive, [Next]_vars
  PROVE  Simulated
<1>1. ASSUME NEW c \in Client, NEW p \in Path, Remove(c, p) \/ Down(c, p) \/ Up(c, p) PROVE Simulated
  BY <1>1, RemoveSim, DownSim, UpSim
<1>2. ASSUME NEW c \in Client, NEW p \in Path, Complain(c, p) PROVE UNCHANGED vars
  BY <1>2 DEF Complain
<1>3. ASSUME NEW c \in Client, Progress(c) PROVE Simulated
  BY <1>3, SizeSim, DownloadSim, ReadSim, ReadEndSim, SaveSim, UploadSim, WriteSim, WriteEndSim DEF Progress
<1>4. ASSUME NEW c \in Client, Unserved(c) \/ Again(c) PROVE Simulated
  BY <1>4, Ends, Resting DEF Unserved, Again
<1>5. CASE UNCHANGED <<store, local, call>>
  <2>1. Excl'
    BY <1>5 DEF Excl, Alone
  <2>2. Stutter
    BY <1>5, SeenIs DEF Stutter
  <2> QED
    BY <2>1, <2>2 DEF Simulated
<1>6. UNCHANGED vars => UNCHANGED <<store, local, call>>
  BY DEF vars
<1>7. Restart => UNCHANGED <<store, local, call>>
  BY DEF Restart
<1> QED
  BY <1>1, <1>2, <1>3, <1>4, <1>5, <1>6, <1>7, CrashSim DEF Next

\* Clients that keep out of each other's way see every command of the server as
\* one step: a removal, a whole file fetched or put, or one torn by a fault.
THEOREM CommandsAreAtomicSteps ==
  ASSUME Exclusive
  PROVE  Spec => CommandsAreAtomic
<1>1. Init => Excl
  BY Resting DEF Init, Excl, Alone
<1>2. IInv /\ Excl /\ [Next]_vars => Excl' /\ [Atomic!Next]_<<Seen, local>>
  BY NextSim DEF Simulated, Stutter
<1>3. [Atomic!Next]_<<Seen, local>> => [Atomic!Next]_<<[p \in Path |-> Before(p)], local>>
  BY DEF Seen
<1> QED
  BY <1>1, <1>2, <1>3, SpecIInv, PTL DEF Spec, CommandsAreAtomic, Atomic!Spec
===============================================================================
