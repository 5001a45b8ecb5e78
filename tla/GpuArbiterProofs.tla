-------------------------- MODULE GpuArbiterProofs --------------------------
(***************************************************************************)
(* Proofs about the arbiter for any processes, classes, sessions and       *)
(* number of events.                                                       *)
(*                                                                         *)
(* A caller in front of which others wait leaves the line of tickets only  *)
(* when their tickets are gone.  The ticket of a waiter is fresh, so those *)
(* that still wait have lost theirs while they were blocked on the flock:  *)
(* they are in its line already, in front of the caller, and the line is   *)
(* served in order.  Tickets and classes order the waiters, so that one of *)
(* them is always held back by no other.                                   *)
(***************************************************************************)
EXTENDS GpuArbiter, SequenceTheorems, FiniteSetTheorems, TLAPS

Steps == {"idle", "waiting", "locking", "granted", "holding", "dead"}
Marks == [todo : SUBSET Names, patch : SUBSET (Names \X File), doomed : SUBSET Procs]

\* The ticket files, their names, and a canceller among them.
FilesOK == /\ file \in [Names -> File]
           /\ ahead \in [Procs -> SUBSET Names] /\ last \subseteq Names
           /\ cli \in Marks
           /\ \A r \in cli.patch : r[2].there

InLine(p) == \E i \in 1 .. Len(line) : line[i] = p
Before(q, p) == \E i, j \in 1 .. Len(line) : i < j /\ line[i] = q /\ line[j] = p

\* The line of the flock: whoever is blocked on it, each once.
LineOK == /\ line \in Seq(Procs)
          /\ \A i, j \in 1 .. Len(line) : line[i] = line[j] => i = j
          /\ \A p \in Procs : pc[p] = "locking" <=> InLine(p)

\* The owner of the flock is whoever got it and has not given it back, or died and
\* left its review running.
OwnerOK == /\ pc \in [Procs -> Steps]
           /\ owner \in Procs \cup {Nobody}
           /\ \A p \in Procs : /\ pc[p] \in {"granted", "holding"} => owner = p
                               /\ owner = p => pc[p] \in {"granted", "holding", "dead"}

BoundsOK == /\ session \subseteq Placing
            /\ events \in 0 .. MaxEvents /\ jumped \in BOOLEAN
            /\ owed \in [Procs -> SUBSET Procs]
            /\ \A p \in Outside : owed[p] = {} /\ pc[p] # "waiting"

\* What says that its process holds the flock is the ticket of one that does.
Shown == \A n \in Names : file[n].there /\ file[n].holding /\ ~file[n].cancel /\ pc[n[1]] # "dead"
                            => pc[n[1]] = "holding" /\ n[2] = "ticket"

Waits(p) == pc[p] \in {"waiting", "locking"}

\* The ticket of a waiter is there and fresh.
Fresh == \A p \in Procs : pc[p] = "waiting" => file[Ticket(p)].there /\ ~file[Ticket(p)].old

\* Those that p has to let go first sort before it and wait, in the line of the
\* flock if p is there.
OwedTo(p) ==
  /\ Waits(p) => \A q \in owed[p] :
       /\ q # p /\ Waits(q)
       /\ Rank[q] < Rank[p] \/ (Rank[q] = Rank[p] /\ Ticket(q) \in ahead[p])
  /\ pc[p] = "locking" => \A q \in owed[p] : Before(q, p)
  /\ pc[p] \in {"granted", "holding"} => owed[p] = {}

Timely == Fresh /\ \A p \in Procs : OwedTo(p)

Inv == FilesOK /\ LineOK /\ OwnerOK /\ BoundsOK /\ Shown /\ (~jumped => Timely)
-----------------------------------------------------------------------------
(* The line of the flock.                                                  *)

LEMMA JoinsLine ==
  ASSUME LineOK, NEW p \in Procs, pc[p] # "locking", line' = Append(line, p)
  PROVE  /\ line' \in Seq(Procs)
         /\ \A i, j \in 1 .. Len(line') : line'[i] = line'[j] => i = j
         /\ \A q \in Procs : InLine(q)' <=> InLine(q) \/ q = p
         /\ \A a, b \in Procs : Before(a, b) => Before(a, b)'
         /\ \A q \in Procs : InLine(q) => Before(q, p)'
<1>1. /\ line' \in Seq(Procs) /\ Len(line') = Len(line) + 1
      /\ \A i \in 1 .. Len(line) : line'[i] = line[i]
      /\ line'[Len(line) + 1] = p
      /\ Len(line) \in Nat
  BY AppendProperties DEF LineOK
<1>2. \A i \in 1 .. Len(line) : line[i] # p
  BY DEF LineOK, InLine
<1>3. \A i, j \in 1 .. Len(line') : line'[i] = line'[j] => i = j
  BY <1>1, <1>2 DEF LineOK
<1>4. \A q \in Procs : InLine(q)' <=> InLine(q) \/ q = p
  BY <1>1 DEF InLine
<1>5. \A a, b \in Procs : Before(a, b) => Before(a, b)'
  BY <1>1 DEF Before
<1>6. \A q \in Procs : InLine(q) => Before(q, p)'
  BY <1>1 DEF InLine, Before
<1> QED
  BY <1>1, <1>3, <1>4, <1>5, <1>6

LEMMA HeadLeavesLine ==
  ASSUME LineOK, line # <<>>, line' = Tail(line)
  PROVE  /\ line' \in Seq(Procs)
         /\ \A i, j \in 1 .. Len(line') : line'[i] = line'[j] => i = j
         /\ \A q \in Procs : InLine(q)' <=> InLine(q) /\ q # Head(line)
         /\ \A a, b \in Procs : Before(a, b) /\ a # Head(line) => Before(a, b)'
         /\ \A a \in Procs : ~Before(a, Head(line))
<1>1. /\ line' \in Seq(Procs) /\ Len(line') = Len(line) - 1
      /\ \A i \in 1 .. Len(line') : line'[i] = line[i + 1]
      /\ Len(line) \in Nat \ {0} /\ Head(line) = line[1]
  BY HeadTailProperties, EmptySeq DEF LineOK
<1>2. \A i, j \in 1 .. Len(line) : line[i] = line[j] => i = j
  BY DEF LineOK
<1>3. \A i, j \in 1 .. Len(line') : line'[i] = line'[j] => i = j
  BY <1>1, <1>2
<1>4. ASSUME NEW i \in 1 .. Len(line), line[i] # line[1]
      PROVE  i - 1 \in 1 .. Len(line') /\ line'[i - 1] = line[i]
  BY <1>1, <1>4
<1>5. \A q \in Procs : InLine(q)' <=> InLine(q) /\ q # Head(line)
  <2> TAKE q \in Procs
  <2>1. InLine(q)' => InLine(q) /\ q # line[1]
    BY <1>1, <1>2 DEF InLine
  <2>2. InLine(q) /\ q # line[1] => InLine(q)'
    BY <1>4 DEF InLine
  <2> QED
    BY <1>1, <2>1, <2>2
<1>6. \A a, b \in Procs : Before(a, b) /\ a # Head(line) => Before(a, b)'
  <2> SUFFICES ASSUME NEW a \in Procs, NEW b \in Procs, Before(a, b), a # line[1] PROVE Before(a, b)'
    BY <1>1
  <2>1. PICK i, j \in 1 .. Len(line) : i < j /\ line[i] = a /\ line[j] = b
    BY DEF Before
  <2>2. line[j] # line[1]
    BY <1>1, <1>2, <2>1
  <2>3. i - 1 \in 1 .. Len(line') /\ line'[i - 1] = a
    BY <1>4, <2>1
  <2>4. j - 1 \in 1 .. Len(line') /\ line'[j - 1] = b
    BY <1>4, <2>1, <2>2
  <2>5. PICK m, n \in 1 .. Len(line') : m = i - 1 /\ n = j - 1
    BY <2>3, <2>4
  <2>6. m < n /\ line'[m] = a /\ line'[n] = b
    BY <2>1, <2>3, <2>4, <2>5
  <2> QED
    BY <2>6 DEF Before
<1>7. \A a \in Procs : ~Before(a, Head(line))
  BY <1>1, <1>2 DEF Before
<1> QED
  BY <1>1, <1>3, <1>5, <1>6, <1>7

LEMMA RemoveAtFacts ==
  ASSUME NEW S, NEW s \in Seq(S), NEW k \in 1 .. Len(s)
  PROVE  /\ RemoveAt(s, k) \in Seq(S)
         /\ Len(RemoveAt(s, k)) = Len(s) - 1
         /\ \A i \in 1 .. Len(s) - 1 : RemoveAt(s, k)[i] = IF i < k THEN s[i] ELSE s[i + 1]
<1> DEFINE a == SubSeq(s, 1, k - 1)
           b == SubSeq(s, k + 1, Len(s))
<1>1. Len(s) \in Nat /\ \A i \in 1 .. Len(s) : s[i] \in S
  OBVIOUS
<1>2. a \in Seq(S) /\ Len(a) = k - 1 /\ \A i \in 1 .. k - 1 : a[i] = s[i]
  BY <1>1, SubSeqProperties
<1>3. b \in Seq(S) /\ Len(b) = Len(s) - k /\ \A i \in 1 .. Len(s) - k : b[i] = s[k + i]
  BY <1>1, SubSeqProperties
<1>4. RemoveAt(s, k) = a \o b
  BY DEF RemoveAt
<1> HIDE DEF a, b
<1>5. a \o b \in Seq(S) /\ Len(a \o b) = Len(a) + Len(b)
  BY <1>2, <1>3, ConcatProperties
<1>6. \A i \in 1 .. Len(a) + Len(b) : (a \o b)[i] = IF i <= Len(a) THEN a[i] ELSE b[i - Len(a)]
  BY <1>2, <1>3, ConcatProperties
<1>7. Len(a) + Len(b) = Len(s) - 1
  BY <1>1, <1>2, <1>3
<1>8. ASSUME NEW i \in 1 .. Len(s) - 1
      PROVE  (a \o b)[i] = IF i < k THEN s[i] ELSE s[i + 1]
  <2>1. (a \o b)[i] = IF i <= Len(a) THEN a[i] ELSE b[i - Len(a)]
    BY <1>6, <1>7
  <2>2. CASE i < k
    <3>1. i \in 1 .. k - 1 /\ i <= Len(a)
      BY <1>1, <1>2, <2>2
    <3> QED
      BY <1>2, <2>1, <2>2, <3>1
  <2>3. CASE ~(i < k)
    <3>1. ~(i <= Len(a)) /\ i - Len(a) \in 1 .. Len(s) - k /\ k + (i - Len(a)) = i + 1
      BY <1>1, <1>2, <2>3
    <3>2. b[i - Len(a)] = s[i + 1]
      BY <1>3, <3>1
    <3> QED
      BY <2>1, <2>3, <3>1, <3>2
  <2> QED
    BY <2>2, <2>3
<1> QED
  BY <1>4, <1>5, <1>7, <1>8

LEMMA LeavesLine ==
  ASSUME LineOK, NEW p \in Procs, LeaveLine(p)
  PROVE  /\ line' \in Seq(Procs)
         /\ \A i, j \in 1 .. Len(line') : line'[i] = line'[j] => i = j
         /\ \A q \in Procs : InLine(q)' <=> InLine(q) /\ q # p
         /\ \A a, b \in Procs : Before(a, b) /\ p \notin {a, b} => Before(a, b)'
<1>1. CASE pc[p] # "locking"
  BY <1>1 DEF LineOK, LeaveLine, InLine, Before
<1>2. CASE pc[p] = "locking"
  <2> DEFINE k == CHOOSE i \in 1 .. Len(line) : line[i] = p
  <2>1. k \in 1 .. Len(line) /\ line[k] = p
    BY <1>2 DEF LineOK, InLine
  <2>2. line' = RemoveAt(line, k)
    BY <1>2 DEF LeaveLine
  <2> HIDE DEF k
  <2>3. /\ line' \in Seq(Procs) /\ Len(line') = Len(line) - 1 /\ Len(line) \in Nat
        /\ \A i \in 1 .. Len(line') : line'[i] = IF i < k THEN line[i] ELSE line[i + 1]
    <3> DEFINE rest == RemoveAt(line, k)
    <3>1. line \in Seq(Procs)
      BY DEF LineOK
    <3>2. /\ rest \in Seq(Procs) /\ Len(rest) = Len(line) - 1
          /\ \A i \in 1 .. Len(line) - 1 : rest[i] = IF i < k THEN line[i] ELSE line[i + 1]
      BY <2>1, <3>1, RemoveAtFacts
    <3> HIDE DEF rest
    <3>3. line' = rest
      BY <2>2 DEF rest
    <3> QED
      BY <3>1, <3>2, <3>3
  <2>4. \A i, j \in 1 .. Len(line) : line[i] = line[j] => i = j
    BY DEF LineOK
  <2>5. \A i, j \in 1 .. Len(line') : line'[i] = line'[j] => i = j
    BY <2>1, <2>3, <2>4
  <2> DEFINE Now(i) == IF i < k THEN i ELSE i - 1
  <2>6. ASSUME NEW i \in 1 .. Len(line), line[i] # p
        PROVE  Now(i) \in 1 .. Len(line') /\ line'[Now(i)] = line[i]
    <3>1. i # k
      BY <2>1, <2>6
    <3>2. CASE i < k
      <4>1. i \in 1 .. Len(line')
        BY <2>1, <2>3, <3>2
      <4> QED
        BY <2>3, <3>2, <4>1
    <3>3. CASE k < i
      <4>1. i - 1 \in 1 .. Len(line') /\ ~(i - 1 < k) /\ ~(i < k) /\ (i - 1) + 1 = i
        BY <2>1, <2>3, <3>3
      <4>2. line'[i - 1] = line[i]
        BY <2>3, <4>1
      <4> QED
        BY <4>1, <4>2
    <3> QED
      BY <2>1, <3>1, <3>2, <3>3
  <2>7. ASSUME NEW i \in 1 .. Len(line'), line'[i] = p PROVE FALSE
    <3>1. CASE i < k
      <4>1. i \in 1 .. Len(line) /\ line[i] = p
        BY <2>3, <2>7, <3>1
      <4> QED
        BY <2>1, <2>4, <3>1, <4>1
    <3>2. CASE ~(i < k)
      <4>1. i + 1 \in 1 .. Len(line) /\ line[i + 1] = p /\ i + 1 # k
        BY <2>1, <2>3, <2>7, <3>2
      <4> QED
        BY <2>1, <2>4, <4>1
    <3> QED
      BY <3>1, <3>2
  <2>8. ASSUME NEW q \in Procs PROVE InLine(q)' <=> InLine(q) /\ q # p
    <3>1. InLine(q)' => InLine(q)
      BY <2>1, <2>3 DEF InLine
    <3>2. InLine(q)' => q # p
      BY <2>7 DEF InLine
    <3>3. InLine(q) /\ q # p => InLine(q)'
      BY <2>6 DEF InLine
    <3> QED
      BY <3>1, <3>2, <3>3
  <2>9. ASSUME NEW a \in Procs, NEW b \in Procs, Before(a, b), p \notin {a, b} PROVE Before(a, b)'
    <3>1. PICK i, j \in 1 .. Len(line) : i < j /\ line[i] = a /\ line[j] = b
      BY <2>9 DEF Before
    <3>2. Now(i) < Now(j)
      BY <2>1, <2>9, <3>1
    <3>3. Now(i) \in 1 .. Len(line') /\ line'[Now(i)] = a /\ Now(j) \in 1 .. Len(line') /\ line'[Now(j)] = b
      BY <2>6, <2>9, <3>1
    <3> HIDE DEF Now
    <3> QED
      BY <3>2, <3>3 DEF Before
  <2> QED
    BY <2>3, <2>5, <2>8, <2>9
<1> QED
  BY <1>1, <1>2
-----------------------------------------------------------------------------
(* The ticket files.                                                       *)

LEMMA NamesOf ==
  /\ \A p \in Procs : Ticket(p) \in Names /\ Place(p) \in Names /\ <<p, "ghost">> \in Names
  /\ \A n \in Names : n[1] \in Procs /\ n[2] \in {"ticket", "place", "ghost"} /\ n = <<n[1], n[2]>>
BY DEF Names, Ticket, Place

LEMMA NewFile ==
  Gone \in File /\ New \in File /\ New.there /\ ~New.old /\ ~New.holding /\ ~New.cancel /\ ~Gone.there /\ ~Gone.holding
BY DEF File, Gone, New

LEMMA SweptFacts ==
  ASSUME NEW f \in [Names -> File]
  PROVE  /\ Swept(f) \in [Names -> File]
         /\ \A n \in Names : Swept(f)[n].there => Swept(f)[n] = f[n] /\ f[n].there
         /\ \A n \in Names : f[n].there /\ ~f[n].old /\ pc[n[1]] # "dead" => Swept(f)[n] = f[n]
BY NewFile DEF Swept

LEMMA TouchedFacts ==
  ASSUME NEW f \in [Names -> File], NEW n \in Names
  PROVE  /\ Touched(f, n) \in [Names -> File]
         /\ \A m \in Names : m # n => Touched(f, n)[m] = f[m]
         /\ Touched(f, n)[n] = [f[n] EXCEPT !.old = FALSE]
BY DEF Touched, File

\* An unlink takes one file away, and leaves the others and their order.
LEMMA UnlinkFacts ==
  ASSUME FilesOK, NEW n \in Names, Unlink(n)
  PROVE  /\ FilesOK'
         /\ file' = [file EXCEPT ![n] = Gone]
         /\ \A p \in Procs : \A m \in Names : m # n /\ m \in ahead[p] => m \in ahead'[p]
<1> DEFINE ghost == <<n[1], "ghost">>
           P == {IF r[1] = n THEN <<ghost, r[2]>> ELSE r : r \in cli.patch}
<1>1. ghost \in Names
  BY NamesOf
<1>2. file' = [file EXCEPT ![n] = Gone] /\ last' = last \ {n} /\ file \in [Names -> File] /\ last \subseteq Names
  BY DEF Unlink, FilesOK
<1>3. file' \in [Names -> File] /\ last' \subseteq Names
  BY <1>2, NewFile
<1>4. ahead' \in [Procs -> SUBSET Names]
  BY <1>1 DEF Unlink, FilesOK
<1>5. \A p \in Procs : \A m \in Names : m # n /\ m \in ahead[p] => m \in ahead'[p]
  BY DEF Unlink, FilesOK
<1>6. cli.patch \subseteq Names \X File /\ cli.todo \subseteq Names /\ cli.doomed \subseteq Procs
  BY DEF FilesOK, Marks
<1>7. P \subseteq Names \X File /\ \A r \in P : r[2].there
  BY <1>1, <1>6 DEF FilesOK
<1>8. cli' = [cli EXCEPT !.todo = cli.todo \ {n}, !.patch = P]
  BY DEF Unlink
<1> HIDE DEF P
<1>9. cli' = [todo |-> cli.todo \ {n}, patch |-> P, doomed |-> cli.doomed]
  BY <1>8 DEF FilesOK, Marks
<1>10. cli' \in Marks /\ \A r \in cli'.patch : r[2].there
  BY <1>6, <1>7, <1>9 DEF Marks
<1> QED
  BY <1>2, <1>3, <1>4, <1>5, <1>10 DEF FilesOK

LEMMA FilesStep ==
  ASSUME FilesOK, OwnerOK, Next
  PROVE  FilesOK'
<1>1. ASSUME NEW p \in Procs, OpenPlace(p) PROVE FilesOK'
  <2>1. Place(p) \in Names
    BY NamesOf
  <2> QED
    BY <1>1, <2>1, NewFile DEF OpenPlace, FilesOK
<1>2. ASSUME NEW p \in Procs, ClosePlace(p) \/ Cancelled(p) \/ TimesOut(p) \/ Release(p) PROVE FilesOK'
  BY <1>2, UnlinkFacts, NamesOf DEF ClosePlace, Cancelled, TimesOut, GiveUp, Release
<1>3. ASSUME NEW p \in Procs, Call(p) PROVE FilesOK'
  <2> DEFINE g == [file EXCEPT ![Ticket(p)] = New]
             f == Swept(g)
             others == {n \in Names : f[n].there /\ n[1] # p}
             names == others \cup {n \in Names : n[1] # p /\ CanComeBack(n)}
  <2>1. g \in [Names -> File] /\ Ticket(p) \in Names
    BY NewFile, NamesOf DEF FilesOK
  <2>2. f \in [Names -> File]
    BY <2>1, SweptFacts
  <2>3. PICK earlier \in {names, names \ last} :
          ahead' = [[q \in Procs |-> ahead[q] \ {Ticket(p)}] EXCEPT ![p] = earlier]
    BY <1>3 DEF Call
  <2>4. earlier \subseteq Names
    BY <2>3
  <2>5. ahead' \in [Procs -> SUBSET Names]
    BY <2>3, <2>4 DEF FilesOK
  <2> QED
    BY <1>3, <2>1, <2>2, <2>5 DEF Call, FilesOK
<1>4. ASSUME NEW p \in Procs, Poll(p) PROVE FilesOK'
  <2>1. Touched(file, Ticket(p)) \in [Names -> File] /\ Ticket(p) \in Names
    BY TouchedFacts, NamesOf DEF FilesOK
  <2>2. Swept(Touched(file, Ticket(p))) \in [Names -> File]
    BY <2>1, SweptFacts
  <2>3. file' \in [Names -> File]
    BY <1>4, <2>1, <2>2, NewFile DEF Poll
  <2> QED
    BY <1>4, <2>3 DEF Poll, FilesOK
<1>5. ASSUME NEW p \in Procs, ShowHolding(p) PROVE FilesOK'
  <2>1. Ticket(p) \in Names
    BY NamesOf
  <2>2. file' \in [Names -> File]
    BY <1>5, <2>1 DEF ShowHolding, FilesOK, File
  <2> QED
    BY <1>5, <2>2 DEF ShowHolding, FilesOK
<1>6. ASSUME NEW n \in Names, Age(n) \/ Refresh(n) PROVE FilesOK'
  <2>1. file[n] \in File /\ file \in [Names -> File]
    BY DEF FilesOK
  <2>2. [file[n] EXCEPT !.old = TRUE] \in File /\ [file[n] EXCEPT !.old = FALSE] \in File
    BY <2>1 DEF File
  <2>3. \/ file' = [file EXCEPT ![n] = [file[n] EXCEPT !.old = TRUE]]
        \/ file' = [file EXCEPT ![n] = [file[n] EXCEPT !.old = FALSE]]
    BY <1>6 DEF Age, Refresh, Touched
  <2>4. file' \in [Names -> File]
    BY <2>1, <2>2, <2>3
  <2> QED
    BY <1>6, <2>4 DEF Age, Refresh, FilesOK
<1>7. CASE ClockJumps
  <2>1. file' \in [Names -> File]
    BY <1>7 DEF ClockJumps, FilesOK, File
  <2> QED
    BY <1>7, <2>1 DEF ClockJumps, FilesOK
<1>8. CASE CancelBelow
  <2> DEFINE f == Swept(file)
             below == {n \in Names : f[n].there /\ Rank[n[1]] > 0}
             doomed == {n[1] : n \in {m \in below : f[m].holding}}
  <2>1. f \in [Names -> File]
    BY SweptFacts DEF FilesOK
  <2>2. doomed \subseteq Procs
    BY NamesOf
  <2>3. cli' = [Idle EXCEPT !.todo = below, !.doomed = doomed] /\ below \subseteq Names
    BY <1>8 DEF CancelBelow
  <2> HIDE DEF f, below, doomed
  <2>4. cli' = [todo |-> below, patch |-> {}, doomed |-> doomed]
    BY <2>3 DEF Idle
  <2>5. below \in SUBSET Names /\ {} \in SUBSET (Names \X File) /\ doomed \in SUBSET Procs
    BY <2>2, <2>3
  <2>6. cli' \in Marks /\ cli'.patch = {}
    BY <2>4, <2>5 DEF Marks
  <2> QED
    BY <1>8, <2>1, <2>6 DEF CancelBelow, FilesOK, f
<1>9. ASSUME NEW n \in Names, ReadToMark(n) PROVE FilesOK'
  <2> DEFINE P == IF file[n].there THEN {<<n, file[n]>>} ELSE {}
  <2>1. P \subseteq Names \X File /\ \A r \in P : r[2].there
    BY DEF FilesOK
  <2>2. cli' = [cli EXCEPT !.todo = cli.todo \ {n}, !.patch = P]
    BY <1>9 DEF ReadToMark
  <2> HIDE DEF P
  <2>3. cli' = [todo |-> cli.todo \ {n}, patch |-> P, doomed |-> cli.doomed]
    BY <2>2 DEF FilesOK, Marks
  <2>4. cli' \in Marks /\ cli'.patch = P
    BY <2>1, <2>3 DEF FilesOK, Marks
  <2> QED
    BY <1>9, <2>1, <2>4 DEF ReadToMark, FilesOK
<1>10. ASSUME NEW r \in cli.patch, WriteMark(r) PROVE FilesOK'
  <2>1. r[1] \in Names /\ r[2] \in File
    BY DEF FilesOK, Marks
  <2>2. [r[2] EXCEPT !.cancel = TRUE, !.old = FALSE] \in File
    BY <2>1 DEF File
  <2>3. file' \in [Names -> File]
    BY <1>10, <2>1, <2>2 DEF WriteMark, FilesOK
  <2>4. cli' = [cli EXCEPT !.patch = {}]
    BY <1>10 DEF WriteMark
  <2>5. cli' \in Marks /\ cli'.patch = {}
    BY <2>4 DEF FilesOK, Marks
  <2> QED
    BY <1>10, <2>3, <2>5 DEF WriteMark, FilesOK
<1>11. ASSUME NEW p \in Procs, KillHolder(p) PROVE FilesOK'
  <2>1. cli' = [cli EXCEPT !.doomed = cli.doomed \ {p}]
    BY <1>11 DEF KillHolder
  <2>2. cli' \in Marks /\ cli'.patch = cli.patch
    BY <2>1 DEF FilesOK, Marks
  <2> QED
    BY <1>11, <2>2 DEF KillHolder, Dies, FilesOK
<1>12. ASSUME NEW p \in Procs, TakeFlock(p) \/ ReviewerWaits(p) \/ Crash(p) \/ OrphanExits(p) \/ Respawn(p)
       PROVE  FilesOK'
  BY <1>12 DEF TakeFlock, ReviewerWaits, Crash, Dies, OrphanExits, Respawn, FilesOK
<1> QED
  BY <1>1, <1>2, <1>3, <1>4, <1>5, <1>6, <1>7, <1>8, <1>9, <1>10, <1>11, <1>12 DEF Next
-----------------------------------------------------------------------------
(* The flock.                                                              *)

\* Steps that leave every process and the flock where they are.
Still == UNCHANGED <<pc, line, owed>>

LEMMA StillSteps ==
  /\ \A p \in Procs : OpenPlace(p) \/ ClosePlace(p) => Still /\ owner' = owner
  /\ \A n \in Names : Age(n) \/ Refresh(n) \/ ReadToMark(n) => Still /\ owner' = owner
  /\ \A r \in cli.patch : WriteMark(r) => Still /\ owner' = owner
  /\ ClockJumps \/ CancelBelow => Still /\ owner' = owner
  /\ \A p \in Procs : OrphanExits(p) => Still
BY DEF OrphanExits, OpenPlace, ClosePlace, Age, Refresh, ReadToMark, ClockJumps, CancelBelow, WriteMark, Still

LEMMA OwnerStep ==
  ASSUME OwnerOK, LineOK, Next
  PROVE  OwnerOK'
<1> USE ArbiterAssumption DEF OwnerOK, Steps
<1>1. CASE Still /\ owner' = owner
  BY <1>1 DEF Still
<1>2. ASSUME NEW p \in Procs, Call(p) \/ Poll(p) \/ ReviewerWaits(p) PROVE OwnerOK'
  <2>1. pc' \in {pc, [pc EXCEPT ![p] = "waiting"], [pc EXCEPT ![p] = "locking"]} /\ owner' = owner
        /\ pc[p] \in {"idle", "waiting"}
    BY <1>2 DEF Call, Poll, ReviewerWaits
  <2> QED
    BY <2>1
<1>3. ASSUME NEW p \in Procs, Cancelled(p) \/ TimesOut(p) PROVE OwnerOK'
  <2>1. pc' = [pc EXCEPT ![p] = "idle"] /\ owner' = owner /\ pc[p] \in {"waiting", "locking"}
    BY <1>3 DEF Cancelled, TimesOut, GiveUp
  <2> QED
    BY <2>1
<1>4. ASSUME NEW p \in Procs, TakeFlock(p) PROVE OwnerOK'
  BY <1>4 DEF TakeFlock
<1>5. ASSUME NEW p \in Procs, ShowHolding(p) PROVE OwnerOK'
  BY <1>5 DEF ShowHolding
<1>6. ASSUME NEW p \in Procs, Release(p) PROVE OwnerOK'
  BY <1>6 DEF Release
<1>7. ASSUME NEW p \in Procs, Dies(p) PROVE OwnerOK'
  BY <1>7 DEF Dies
<1>8. ASSUME NEW p \in Procs, KillHolder(p) \/ Crash(p) PROVE OwnerOK'
  BY <1>1, <1>7, <1>8 DEF KillHolder, Crash, Still
<1>9. ASSUME NEW p \in Procs, Respawn(p) PROVE OwnerOK'
  BY <1>9 DEF Respawn
<1>10. ASSUME NEW p \in Procs, OrphanExits(p) PROVE OwnerOK'
  BY <1>10 DEF OrphanExits
<1> QED
  BY <1>1, <1>2, <1>3, <1>4, <1>5, <1>6, <1>8, <1>9, <1>10, StillSteps DEF Next

LEMMA SameLine ==
  ASSUME LineOK, line' = line, \A q \in Procs : pc'[q] = "locking" <=> pc[q] = "locking"
  PROVE  LineOK' /\ \A a, b \in Procs : Before(a, b) => Before(a, b)'
BY DEF LineOK, InLine, Before

LEMMA LineStep ==
  ASSUME OwnerOK, LineOK, Next
  PROVE  LineOK'
<1> USE DEF OwnerOK, Steps
<1>1. CASE Still
  BY <1>1, SameLine DEF Still
<1>2. ASSUME NEW p \in Procs, pc[p] # "locking", line' = Append(line, p), pc' = [pc EXCEPT ![p] = "locking"]
      PROVE  LineOK'
  BY <1>2, JoinsLine DEF LineOK
<1>3. ASSUME NEW p \in Procs, NEW s \in Steps \ {"locking"}, LeaveLine(p), pc' = [pc EXCEPT ![p] = s]
      PROVE  LineOK'
  BY <1>3, LeavesLine DEF LineOK
<1>4. ASSUME NEW p \in Procs, NEW s \in Steps \ {"locking"}, pc[p] # "locking", line' = line,
             pc' = [pc EXCEPT ![p] = s]
      PROVE  LineOK'
  BY <1>4, SameLine
<1>5. ASSUME NEW p \in Procs, Call(p) PROVE LineOK'
  <2>1. pc[p] = "idle" /\ \/ pc' = [pc EXCEPT ![p] = "waiting"] /\ line' = line
                          \/ pc' = [pc EXCEPT ![p] = "locking"] /\ line' = Append(line, p)
    BY <1>5 DEF Call
  <2> QED
    BY <1>2, <1>4, <2>1
<1>6. ASSUME NEW p \in Procs, Poll(p) PROVE LineOK'
  <2>1. pc[p] = "waiting" /\ \/ pc' = pc /\ line' = line
                             \/ pc' = [pc EXCEPT ![p] = "locking"] /\ line' = Append(line, p)
    BY <1>6 DEF Poll
  <2> QED
    BY <1>2, <2>1, SameLine
<1>7. ASSUME NEW p \in Procs, Cancelled(p) \/ ShowHolding(p) \/ Release(p) \/ Respawn(p) PROVE LineOK'
  BY <1>4, <1>7 DEF Cancelled, GiveUp, ShowHolding, Release, Respawn
<1>8. ASSUME NEW p \in Procs, TimesOut(p) PROVE LineOK'
  BY <1>3, <1>8 DEF TimesOut, GiveUp
<1>9. ASSUME NEW p \in Procs, TakeFlock(p) PROVE LineOK'
  BY <1>9, HeadLeavesLine DEF TakeFlock, LineOK
<1>10. ASSUME NEW p \in Procs, ReviewerWaits(p) PROVE LineOK'
  BY <1>2, <1>10 DEF ReviewerWaits
<1>11. ASSUME NEW p \in Procs, Dies(p) PROVE LineOK'
  BY <1>3, <1>11 DEF Dies
<1>12. ASSUME NEW p \in Procs, KillHolder(p) \/ Crash(p) PROVE LineOK'
  <2>1. CASE Dies(p)
    BY <1>11, <2>1
  <2>2. CASE ~Dies(p)
    BY <1>12, <2>2, SameLine DEF KillHolder, Crash
  <2> QED
    BY <2>1, <2>2
<1> QED
  BY <1>1, <1>5, <1>6, <1>7, <1>8, <1>9, <1>10, <1>12, StillSteps DEF Next

\* Who is granted the flock was blocked on it.
LEMMA HeadLocking ==
  ASSUME LineOK, NEW p \in Procs, TakeFlock(p)
  PROVE  pc[p] = "locking"
BY EmptySeq DEF TakeFlock, LineOK, InLine

LEMMA BoundsStep ==
  ASSUME OwnerOK, BoundsOK, Next
  PROVE  BoundsOK'
<1> USE DEF BoundsOK
<1>1. session' \subseteq Placing
  BY DEF Next, OpenPlace, ClosePlace, Call, Poll, Cancelled, TimesOut, GiveUp, TakeFlock, ShowHolding,
         Release, ReviewerWaits, Crash, OrphanExits, Respawn, KillHolder, Dies, Age, Refresh, ReadToMark, WriteMark,
         ClockJumps, CancelBelow
<1>2. events' = events \/ (events < MaxEvents /\ events' = events + 1)
  BY DEF Next, OpenPlace, ClosePlace, Call, Poll, Cancelled, TimesOut, GiveUp, TakeFlock, ShowHolding,
         Release, ReviewerWaits, Crash, OrphanExits, Respawn, KillHolder, Dies, Age, Refresh, ReadToMark, WriteMark,
         ClockJumps, CancelBelow, Event
<1>3. jumped' \in {jumped, TRUE}
  BY DEF Next, OpenPlace, ClosePlace, Call, Poll, Cancelled, TimesOut, GiveUp, TakeFlock, ShowHolding,
         Release, ReviewerWaits, Crash, OrphanExits, Respawn, KillHolder, Dies, Age, Refresh, ReadToMark, WriteMark,
         ClockJumps, CancelBelow
<1>4. events' \in 0 .. MaxEvents
  BY <1>2, ArbiterAssumption
<1>5. owed' \in [Procs -> SUBSET Procs] /\ \A q \in Outside : owed'[q] = {} /\ pc'[q] # "waiting"
  <2> USE ArbiterAssumption DEF OwnerOK, Steps
  <2>1. CASE Still
    BY <2>1 DEF Still
  <2>2. ASSUME NEW p \in Procs, Call(p)
        PROVE  owed' \in [Procs -> SUBSET Procs] /\ \A q \in Outside : owed'[q] = {} /\ pc'[q] # "waiting"
    <3>1. p \notin Outside /\ \A q \in Procs : q # p => pc'[q] = pc[q]
      BY <2>2 DEF Call
    <3>2. \E S \in SUBSET Procs : owed' = [owed EXCEPT ![p] = S]
      BY <2>2 DEF Call
    <3> QED
      BY <3>1, <3>2
  <2>3. ASSUME NEW p \in Procs, Poll(p) \/ ReviewerWaits(p) \/ ShowHolding(p) \/ Release(p) \/ Respawn(p)
        PROVE  owed' \in [Procs -> SUBSET Procs] /\ \A q \in Outside : owed'[q] = {} /\ pc'[q] # "waiting"
    <3>1. owed' = owed /\ \E s \in Steps \ {"waiting"} : pc' \in {pc, [pc EXCEPT ![p] = s]}
      BY <2>3 DEF Poll, ReviewerWaits, ShowHolding, Release, Respawn
    <3> QED
      BY <3>1
  <2>4. ASSUME NEW p \in Procs, Served(p), NEW s \in Steps \ {"waiting"}, pc' = [pc EXCEPT ![p] = s]
        PROVE  owed' \in [Procs -> SUBSET Procs] /\ \A q \in Outside : owed'[q] = {} /\ pc'[q] # "waiting"
    BY <2>4 DEF Served
  <2>5. ASSUME NEW p \in Procs, Cancelled(p) \/ TimesOut(p) \/ TakeFlock(p)
        PROVE  owed' \in [Procs -> SUBSET Procs] /\ \A q \in Outside : owed'[q] = {} /\ pc'[q] # "waiting"
    BY <2>4, <2>5 DEF Cancelled, TimesOut, GiveUp, TakeFlock
  <2>6. ASSUME NEW p \in Procs, Crash(p) \/ KillHolder(p)
        PROVE  owed' \in [Procs -> SUBSET Procs] /\ \A q \in Outside : owed'[q] = {} /\ pc'[q] # "waiting"
    BY <2>1, <2>4, <2>6 DEF Crash, KillHolder, Dies, Still
  <2> QED
    BY <2>1, <2>2, <2>3, <2>5, <2>6, StillSteps DEF Next
<1> QED
  BY <1>1, <1>3, <1>4, <1>5
-----------------------------------------------------------------------------
(* A ticket that shows its holder.                                         *)

Shows(n) == file[n].there /\ file[n].holding /\ ~file[n].cancel

LEMMA ShownStep ==
  ASSUME FilesOK, LineOK, OwnerOK, Shown, Next
  PROVE  Shown'
<1> SUFFICES ASSUME NEW n \in Names, Shows(n)', pc'[n[1]] # "dead"
             PROVE  pc'[n[1]] = "holding" /\ n[2] = "ticket"
  BY DEF Shown, Shows
<1> USE DEF OwnerOK, Steps
<1>0. /\ file \in [Names -> File] /\ n[1] \in Procs
      /\ Shows(n) /\ pc[n[1]] # "dead" => pc[n[1]] = "holding" /\ n[2] = "ticket"
  BY NamesOf DEF FilesOK, Shown, Shows
\* A file that already showed its process, and a process that stays what it was.
<1>1. CASE Shows(n) /\ pc'[n[1]] = pc[n[1]]
  BY <1>0, <1>1
<1>2. ASSUME NEW p \in Procs, OpenPlace(p) PROVE Shows(n)
  BY <1>0, <1>2, NewFile, NamesOf DEF OpenPlace, Shows
<1>3. ASSUME NEW p \in Procs, ClosePlace(p) \/ Cancelled(p) \/ TimesOut(p) \/ Release(p)
      PROVE  Shows(n) /\ (~ClosePlace(p) => n # Ticket(p))
  <2>1. PICK m \in {Place(p), Ticket(p)} : Unlink(m) /\ (ClosePlace(p) \/ m = Ticket(p))
    BY <1>3 DEF ClosePlace, Cancelled, TimesOut, GiveUp, Release
  <2>2. m \in Names /\ file' = [file EXCEPT ![m] = Gone]
    BY <2>1, NamesOf DEF Unlink
  <2> QED
    BY <1>0, <2>1, <2>2, NewFile DEF Shows
<1>4. ASSUME NEW p \in Procs, Call(p) PROVE Shows(n)
  <2> DEFINE g == [file EXCEPT ![Ticket(p)] = New]
  <2>1. g \in [Names -> File] /\ Ticket(p) \in Names
    BY <1>0, NewFile, NamesOf
  <2>2. file' = Swept(g)
    BY <1>4 DEF Call
  <2>3. file'[n] = g[n]
    BY <2>1, <2>2, SweptFacts DEF Shows
  <2> QED
    BY <1>0, <2>1, <2>3, NewFile DEF Shows
<1>5. ASSUME NEW p \in Procs, Poll(p) PROVE Shows(n)
  <2> DEFINE g == Touched(file, Ticket(p))
  <2>1. Ticket(p) \in Names /\ g \in [Names -> File] /\ Swept(g) \in [Names -> File]
    BY <1>0, TouchedFacts, SweptFacts, NamesOf
  <2>2. file' \in {Swept(g), [Swept(g) EXCEPT ![Ticket(p)] = New]}
    BY <1>5 DEF Poll
  <2>3. file'[n] = Swept(g)[n]
    BY <2>1, <2>2, NewFile DEF Shows
  <2>4. file'[n] = g[n]
    BY <2>1, <2>3, SweptFacts DEF Shows
  <2>5. g[n] = file[n] \/ g[n] = [file[n] EXCEPT !.old = FALSE]
    BY <1>0, <2>1 DEF Touched
  <2> QED
    BY <1>0, <2>4, <2>5 DEF Shows, File
<1>6. ASSUME NEW p \in Procs, ShowHolding(p)
      PROVE  Shows(n) \/ n = Ticket(p)
  <2>1. Ticket(p) \in Names
    BY NamesOf
  <2>2. n # Ticket(p) => file'[n] = file[n]
    BY <1>0, <1>6, <2>1 DEF ShowHolding
  <2> QED
    BY <2>2 DEF Shows
<1>7. ASSUME NEW m \in Names, Age(m) \/ Refresh(m) PROVE Shows(n)
  <2>1. \/ file' = [file EXCEPT ![m] = [file[m] EXCEPT !.old = TRUE]]
        \/ file' = [file EXCEPT ![m] = [file[m] EXCEPT !.old = FALSE]]
    BY <1>7 DEF Age, Refresh, Touched
  <2>2. \/ file'[n] = file[n] \/ file'[n] = [file[n] EXCEPT !.old = TRUE]
        \/ file'[n] = [file[n] EXCEPT !.old = FALSE]
    BY <1>0, <2>1
  <2> QED
    BY <1>0, <2>2 DEF Shows, File
<1>8. CASE ClockJumps
  <2>1. file'[n] = [file[n] EXCEPT !.old = file[n].there]
    BY <1>8 DEF ClockJumps
  <2> QED
    BY <1>0, <1>1, <1>8, <2>1 DEF Shows, File, ClockJumps
<1>9. CASE CancelBelow
  <2>1. file' = Swept(file) /\ pc' = pc
    BY <1>9 DEF CancelBelow
  <2>2. file'[n] = file[n]
    BY <1>0, <2>1, SweptFacts DEF Shows
  <2> QED
    BY <1>1, <2>1, <2>2 DEF Shows
<1>10. ASSUME NEW r \in cli.patch, WriteMark(r) PROVE Shows(n)
  <2>1. r[1] \in Names /\ r[2] \in File
    BY DEF FilesOK, Marks
  <2>2. file' = [file EXCEPT ![r[1]] = [r[2] EXCEPT !.cancel = TRUE, !.old = FALSE]]
    BY <1>10 DEF WriteMark
  <2>3. [r[2] EXCEPT !.cancel = TRUE, !.old = FALSE].cancel
    BY <2>1 DEF File
  <2>4. n # r[1]
    BY <1>0, <2>1, <2>2, <2>3 DEF Shows
  <2> QED
    BY <1>0, <2>1, <2>2, <2>4 DEF Shows
<1>11. ASSUME NEW p \in Procs, TakeFlock(p) \/ ReviewerWaits(p) \/ Crash(p) \/ OrphanExits(p) \/ Respawn(p) \/ KillHolder(p)
       PROVE  Shows(n)
  BY <1>11 DEF TakeFlock, ReviewerWaits, Crash, Dies, OrphanExits, Respawn, KillHolder, Shows
<1>12. ASSUME NEW m \in Names, ReadToMark(m) PROVE Shows(n)
  BY <1>12 DEF ReadToMark, Shows
\* The steps that change a process.
<1>13. ASSUME NEW p \in Procs, Call(p) \/ Poll(p) \/ Cancelled(p) \/ TimesOut(p) \/ TakeFlock(p) \/ ReviewerWaits(p)
       PROVE  pc'[n[1]] = "holding" /\ n[2] = "ticket"
  <2>1. Shows(n)
    BY <1>3, <1>4, <1>5, <1>11, <1>13
  <2>2. /\ pc[p] \in {"idle", "waiting", "locking"}
        /\ \A q \in Procs : q # p => pc'[q] = pc[q]
    BY <1>13, HeadLocking DEF Call, Poll, Cancelled, TimesOut, GiveUp, TakeFlock, ReviewerWaits
  <2> QED
    BY <1>0, <2>1, <2>2
<1>14. ASSUME NEW p \in Procs, ShowHolding(p) PROVE pc'[n[1]] = "holding" /\ n[2] = "ticket"
  <2>1. pc[p] = "granted" /\ pc' = [pc EXCEPT ![p] = "holding"]
    BY <1>14 DEF ShowHolding
  <2>2. CASE n = Ticket(p)
    BY <2>1, <2>2 DEF Ticket
  <2>3. CASE n # Ticket(p)
    BY <1>0, <1>6, <1>14, <2>1, <2>3
  <2> QED
    BY <2>2, <2>3
<1>15. ASSUME NEW p \in Procs, Release(p) PROVE pc'[n[1]] = "holding" /\ n[2] = "ticket"
  <2>1. Shows(n) /\ n # Ticket(p)
    BY <1>3, <1>15 DEF Release, ClosePlace
  <2>2. pc[p] = "holding" /\ pc' = [pc EXCEPT ![p] = "idle"]
    BY <1>15 DEF Release
  <2>3. n[1] # p
    BY <1>0, <2>1, <2>2, NamesOf DEF Ticket
  <2> QED
    BY <1>0, <2>1, <2>2, <2>3
<1>16. ASSUME NEW p \in Procs, Crash(p) \/ KillHolder(p) PROVE pc'[n[1]] = "holding" /\ n[2] = "ticket"
  <2>1. pc' \in {pc, [pc EXCEPT ![p] = "dead"]}
    BY <1>16 DEF Crash, KillHolder, Dies
  <2> QED
    BY <1>0, <1>11, <1>16, <2>1
<1>17. ASSUME NEW p \in Procs, Respawn(p) PROVE pc'[n[1]] = "holding" /\ n[2] = "ticket"
  <2>1. n[1] # p
    BY <1>0, <1>11, <1>17 DEF Respawn, Shows
  <2>2. pc'[n[1]] = pc[n[1]]
    BY <1>0, <1>17, <2>1 DEF Respawn
  <2> QED
    BY <1>1, <1>11, <1>17, <2>2
<1>18. ASSUME NEW p \in Procs, OpenPlace(p) \/ ClosePlace(p) \/ OrphanExits(p)
       PROVE  pc'[n[1]] = "holding" /\ n[2] = "ticket"
  BY <1>1, <1>2, <1>3, <1>11, <1>18, StillSteps DEF Still
<1>19. ASSUME NEW m \in Names, Age(m) \/ Refresh(m) \/ ReadToMark(m)
       PROVE  pc'[n[1]] = "holding" /\ n[2] = "ticket"
  BY <1>1, <1>7, <1>12, <1>19, StillSteps DEF Still
<1>20. ASSUME NEW r \in cli.patch, WriteMark(r) PROVE pc'[n[1]] = "holding" /\ n[2] = "ticket"
  BY <1>1, <1>10, <1>20, StillSteps DEF Still
<1> QED
  BY <1>8, <1>9, <1>13, <1>14, <1>15, <1>16, <1>17, <1>18, <1>19, <1>20 DEF Next
-----------------------------------------------------------------------------
(* Precedence.                                                             *)

\* A ticket of somebody who waits, other than those that p touches or unlinks.
LEMMA FreshStep ==
  ASSUME FilesOK, LineOK, OwnerOK, Fresh, Next, ~jumped'
  PROVE  Fresh'
<1> SUFFICES ASSUME NEW q \in Procs, pc'[q] = "waiting"
             PROVE  file'[Ticket(q)].there /\ ~file'[Ticket(q)].old
  BY DEF Fresh
<1> DEFINE Good(f) == f[Ticket(q)].there /\ ~f[Ticket(q)].old
<1> USE DEF OwnerOK, Steps
<1>0. /\ Ticket(q) \in Names /\ Ticket(q)[1] = q /\ Ticket(q)[2] = "ticket"
      /\ file \in [Names -> File] /\ (pc[q] = "waiting" => Good(file))
  BY NamesOf DEF FilesOK, Fresh, Ticket
<1>1. ASSUME NEW p \in Procs, OpenPlace(p) PROVE Good(file')
  BY <1>0, <1>1, NamesOf DEF OpenPlace, Ticket, Place
<1>2. ASSUME NEW p \in Procs, ClosePlace(p) \/ Cancelled(p) \/ TimesOut(p) \/ Release(p) PROVE Good(file')
  <2>1. PICK m \in {Place(p), Ticket(p)} : Unlink(m) /\ pc[q] = "waiting" /\ m # Ticket(q)
    <3>1. CASE ClosePlace(p)
      <4>1. Unlink(Place(p)) /\ pc[q] = "waiting" /\ Place(p) # Ticket(q)
        BY <3>1 DEF ClosePlace, Ticket, Place
      <4> QED
        BY <4>1
    <3>2. CASE Cancelled(p) \/ TimesOut(p) \/ Release(p)
      <4>1. Unlink(Ticket(p)) /\ pc' = [pc EXCEPT ![p] = "idle"]
        BY <3>2 DEF Cancelled, TimesOut, GiveUp, Release
      <4>2. pc[q] = "waiting" /\ Ticket(p) # Ticket(q)
        BY <4>1 DEF Ticket
      <4> QED
        BY <4>1, <4>2
    <3> QED
      BY <1>2, <3>1, <3>2
  <2>2. m \in Names /\ file' = [file EXCEPT ![m] = Gone]
    BY <2>1, NamesOf DEF Unlink
  <2> QED
    BY <1>0, <2>1, <2>2
<1>3. ASSUME NEW p \in Procs, Call(p) PROVE Good(file')
  <2> DEFINE g == [file EXCEPT ![Ticket(p)] = New]
  <2>1. g \in [Names -> File] /\ Ticket(p) \in Names
    BY <1>0, NewFile, NamesOf
  <2>2. file' = Swept(g) /\ pc[q] # "dead" /\ (q # p => pc[q] = "waiting")
    BY <1>3 DEF Call
  <2>3. g[Ticket(q)].there /\ ~g[Ticket(q)].old
    <3>1. CASE q = p
      BY <1>0, <3>1, NewFile
    <3>2. CASE q # p
      <4>1. Ticket(q) # Ticket(p)
        BY <3>2 DEF Ticket
      <4> QED
        BY <1>0, <2>2, <3>2, <4>1
    <3> QED
      BY <3>1, <3>2
  <2>4. Swept(g)[Ticket(q)] = g[Ticket(q)]
    BY <1>0, <2>1, <2>2, <2>3, SweptFacts
  <2> HIDE DEF g
  <2> QED
    BY <2>2, <2>3, <2>4
<1>4. ASSUME NEW p \in Procs, Poll(p) PROVE Good(file')
  <2> DEFINE g == Touched(file, Ticket(p))
  <2>1. Ticket(p) \in Names /\ g \in [Names -> File] /\ Swept(g) \in [Names -> File]
    BY <1>0, TouchedFacts, SweptFacts, NamesOf
  <2>2. pc[q] = "waiting" /\ pc[q] # "dead"
    BY <1>4 DEF Poll
  <2>3. g[Ticket(q)].there /\ ~g[Ticket(q)].old
    BY <1>0, <2>2 DEF Touched, File
  <2>4. Swept(g)[Ticket(q)] = g[Ticket(q)]
    BY <1>0, <2>1, <2>2, <2>3, SweptFacts
  <2>5. file' \in {Swept(g), [Swept(g) EXCEPT ![Ticket(p)] = New]}
    BY <1>4 DEF Poll
  <2> HIDE DEF g
  <2> QED
    BY <1>0, <2>1, <2>3, <2>4, <2>5, NewFile
<1>5. ASSUME NEW p \in Procs, ShowHolding(p) PROVE Good(file')
  <2>1. pc[q] = "waiting" /\ Ticket(p) # Ticket(q) /\ Ticket(p) \in Names
    BY <1>5, NamesOf DEF ShowHolding, Ticket
  <2>2. file'[Ticket(q)] = file[Ticket(q)]
    BY <1>0, <1>5, <2>1 DEF ShowHolding
  <2> QED
    BY <1>0, <2>1, <2>2
<1>6. ASSUME NEW n \in Names, Age(n) \/ Refresh(n) PROVE Good(file')
  <2>1. pc[q] = "waiting" /\ n # Ticket(q)
    BY <1>0, <1>6 DEF Age, Refresh
  <2>2. file'[Ticket(q)] = file[Ticket(q)]
    BY <1>0, <1>6, <2>1 DEF Age, Refresh, Touched
  <2> QED
    BY <1>0, <2>1, <2>2
<1>7. ~ClockJumps
  BY DEF ClockJumps
<1>8. CASE CancelBelow
  <2>1. file' = Swept(file) /\ pc[q] = "waiting"
    BY <1>8 DEF CancelBelow
  <2>2. Swept(file)[Ticket(q)] = file[Ticket(q)]
    BY <1>0, <2>1, SweptFacts
  <2> QED
    BY <1>0, <2>1, <2>2
<1>9. ASSUME NEW r \in cli.patch, WriteMark(r) PROVE Good(file')
  <2>1. r[1] \in Names /\ r[2] \in File /\ r[2].there
    BY DEF FilesOK, Marks
  <2>2. file' = [file EXCEPT ![r[1]] = [r[2] EXCEPT !.cancel = TRUE, !.old = FALSE]] /\ pc[q] = "waiting"
    BY <1>9 DEF WriteMark
  <2>3. [r[2] EXCEPT !.cancel = TRUE, !.old = FALSE].there /\ ~[r[2] EXCEPT !.cancel = TRUE, !.old = FALSE].old
    BY <2>1 DEF File
  <2> QED
    BY <1>0, <2>1, <2>2, <2>3
<1>10. ASSUME NEW n \in Names, ReadToMark(n) PROVE Good(file')
  BY <1>0, <1>10 DEF ReadToMark
<1>11. ASSUME NEW p \in Procs,
              TakeFlock(p) \/ ReviewerWaits(p) \/ Crash(p) \/ OrphanExits(p) \/ Respawn(p) \/ KillHolder(p)
       PROVE  Good(file')
  <2>1. file' = file /\ \E s \in Steps \ {"waiting"} : pc' \in {pc, [pc EXCEPT ![p] = s]}
    BY <1>11 DEF TakeFlock, ReviewerWaits, Crash, Dies, OrphanExits, Respawn, KillHolder
  <2> QED
    BY <1>0, <2>1
<1> QED
  BY <1>1, <1>2, <1>3, <1>4, <1>5, <1>6, <1>7, <1>8, <1>9, <1>10, <1>11 DEF Next

\* A step in which p waits on, behind the same others, who wait on.
LEMMA OwedKeeps ==
  ASSUME OwnerOK, BoundsOK, NEW p \in Procs, OwedTo(p), pc'[p] = pc[p],
         owed'[p] \subseteq owed[p],
         \A q \in owed'[p] : Waits(p) /\ Waits(q) => pc'[q] = pc[q],
         \A q \in owed'[p] : Waits(p) /\ Waits(q) /\ Ticket(q) \in ahead[p] => Ticket(q) \in ahead'[p],
         \A q \in owed'[p] : Waits(p) /\ Waits(q) /\ Before(q, p) => Before(q, p)'
  PROVE  OwedTo(p)'
BY DEF OwedTo, Waits, OwnerOK, BoundsOK

LEMMA OwedToNothing ==
  ASSUME NEW p \in Procs, owed'[p] = {} \/ pc'[p] \in {"idle", "dead"}
  PROVE  OwedTo(p)'
BY DEF OwedTo, Waits

\* p comes, and finds others in front of it.
LEMMA OwedCall ==
  ASSUME FilesOK, OwnerOK, BoundsOK, LineOK, Timely, NEW p \in Procs, Call(p), NEW w \in Procs
  PROVE  OwedTo(w)'
<1> USE DEF OwnerOK, BoundsOK, Steps
<1> DEFINE f == Swept([file EXCEPT ![Ticket(p)] = New])
           skip == f[Place(p)].there
           others == {n \in Names : f[n].there /\ n[1] # p}
           names == others \cup {n \in Names : n[1] # p /\ CanComeBack(n)}
<1>1. /\ pc[p] = "idle" /\ pc' = [pc EXCEPT ![p] = IF skip THEN "locking" ELSE "waiting"]
      /\ line' = IF skip THEN Append(line, p) ELSE line
  BY DEF Call
<1>2. PICK earlier \in {names, names \ last} :
        /\ ahead' = [[q \in Procs |-> ahead[q] \ {Ticket(p)}] EXCEPT ![p] = earlier]
        /\ owed' = [owed EXCEPT ![p] =
             IF skip THEN {}
             ELSE {q \in Procs : /\ Ticket(q) \in others /\ pc[q] \in {"waiting", "locking"}
                                 /\ \/ Rank[q] < Rank[p]
                                    \/ Rank[q] = Rank[p] /\ Ticket(q) \in earlier}]
  BY DEF Call
<1> HIDE DEF f
<1>3. CASE w = p /\ skip
  BY <1>2, <1>3, OwedToNothing
<1>4. CASE w = p /\ ~skip
  <2>1. pc'[p] = "waiting" /\ ahead'[p] = earlier
    BY <1>1, <1>2, <1>4 DEF FilesOK
  <2>2. owed'[p] = {q \in Procs : /\ Ticket(q) \in others /\ pc[q] \in {"waiting", "locking"}
                                  /\ \/ Rank[q] < Rank[p]
                                     \/ Rank[q] = Rank[p] /\ Ticket(q) \in earlier}
    BY <1>2, <1>4
  <2>3. ASSUME NEW q \in owed'[p]
        PROVE  /\ q # p /\ Waits(q)'
               /\ Rank[q] < Rank[p] \/ (Rank[q] = Rank[p] /\ Ticket(q) \in ahead'[p])
    BY <1>1, <2>1, <2>2 DEF Waits
  <2> QED
    BY <1>4, <2>1, <2>3 DEF OwedTo
<1>5. CASE w # p
  <2>1. pc'[w] = pc[w] /\ owed'[w] = owed[w] /\ OwedTo(w)
    BY <1>1, <1>2, <1>5 DEF Timely
  <2>2. ASSUME NEW q \in owed[w], Waits(w)
        PROVE  /\ Waits(q) /\ Waits(q)' /\ q # w
               /\ Rank[q] < Rank[w] \/ (Rank[q] = Rank[w] /\ Ticket(q) \in ahead'[w])
    <3>1. Waits(q) /\ q # w /\ (Rank[q] < Rank[w] \/ (Rank[q] = Rank[w] /\ Ticket(q) \in ahead[w]))
      BY <2>1, <2>2 DEF OwedTo
    <3>2. q # p /\ Ticket(q) # Ticket(p)
      BY <1>1, <3>1 DEF Waits, Ticket
    <3> QED
      BY <1>1, <1>2, <1>5, <3>1, <3>2 DEF Waits, FilesOK
  <2>3. \A q \in Procs : Before(q, w) => Before(q, w)'
    BY <1>1, JoinsLine, SameLine DEF Before
  <2> QED
    BY <2>1, <2>2, <2>3 DEF OwedTo, Waits
<1> QED
  BY <1>3, <1>4, <1>5

\* p finds nobody in front of it, and goes to the flock: those that it owes, and
\* that wait, are there already.
LEMMA OwedPoll ==
  ASSUME FilesOK, OwnerOK, BoundsOK, LineOK, Timely, NEW p \in Procs, Poll(p), NEW w \in Procs
  PROVE  OwedTo(w)'
<1> USE DEF OwnerOK, BoundsOK, Steps
<1> DEFINE g == Touched(file, Ticket(p))
           f == Swept(g)
<1>1. /\ pc[p] = "waiting" /\ owed' = owed /\ ahead' = ahead
      /\ \/ pc' = pc /\ line' = line
         \/ ~Blocked(p, f) /\ pc' = [pc EXCEPT ![p] = "locking"] /\ line' = Append(line, p)
  BY DEF Poll
<1>2. OwedTo(w)
  BY DEF Timely
<1>3. CASE pc' = pc /\ line' = line
  BY <1>1, <1>2, <1>3 DEF OwedTo, Waits, Before
<1>4. CASE ~Blocked(p, f) /\ pc' = [pc EXCEPT ![p] = "locking"] /\ line' = Append(line, p)
  <2>1. /\ \A a, b \in Procs : Before(a, b) => Before(a, b)'
        /\ \A q \in Procs : InLine(q) => Before(q, p)'
    BY <1>1, <1>4, JoinsLine
  <2>2. \A q \in Procs : Waits(q) => Waits(q)'
    BY <1>4 DEF Waits
  <2>3. CASE w # p
    <3>1. pc'[w] = pc[w]
      BY <1>4, <2>3
    <3> QED
      BY <1>1, <1>2, <2>1, <2>2, <3>1 DEF OwedTo, Waits
  <2>4. CASE w = p
    <3>1. ASSUME NEW q \in owed[p] PROVE Before(q, p)'
      <4>1. /\ q \in Procs /\ q # p /\ Waits(q)
            /\ Rank[q] < Rank[p] \/ (Rank[q] = Rank[p] /\ Ticket(q) \in ahead[p])
        BY <1>1, <1>2, <2>4 DEF OwedTo, Waits
      <4>2. pc[q] # "waiting"
        <5> SUFFICES ASSUME pc[q] = "waiting" PROVE FALSE
          OBVIOUS
        <5>1. Ticket(q) \in Names /\ Ticket(p) \in Names /\ Ticket(q)[1] = q
          BY <4>1, NamesOf DEF Ticket
        <5>2. file[Ticket(q)].there /\ ~file[Ticket(q)].old /\ file \in [Names -> File]
          BY <4>1 DEF Timely, Fresh, FilesOK
        <5>3. g \in [Names -> File] /\ g[Ticket(q)].there /\ ~g[Ticket(q)].old
          BY <5>1, <5>2, TouchedFacts DEF Touched, File
        <5> HIDE DEF g
        <5>4. f[Ticket(q)] = g[Ticket(q)]
          BY <5>1, <5>3, SweptFacts
        <5> HIDE DEF f
        <5>5. Blocked(p, f)
          BY <4>1, <5>1, <5>3, <5>4 DEF Blocked
        <5> QED
          BY <1>4, <5>5
      <4>3. InLine(q)
        BY <4>1, <4>2 DEF Waits, LineOK
      <4> QED
        BY <2>1, <4>1, <4>3
    <3> QED
      BY <1>1, <1>2, <1>4, <2>2, <2>4, <3>1 DEF OwedTo, Waits
  <2> QED
    BY <2>3, <2>4
<1> QED
  BY <1>1, <1>3, <1>4

\* p leaves its wait, without the flock or with it.
LEMMA OwedServed ==
  ASSUME OwnerOK, BoundsOK, NEW p \in Procs, Served(p), NEW s \in {"idle", "dead"},
         pc' = [pc EXCEPT ![p] = s], NEW w \in Procs, OwedTo(w),
         \A q \in Procs : q # p /\ Ticket(q) \in ahead[w] => Ticket(q) \in ahead'[w],
         \A q \in Procs : Before(q, w) /\ p \notin {q, w} => Before(q, w)'
  PROVE  OwedTo(w)'
<1> USE DEF OwnerOK, BoundsOK, Steps
<1>1. CASE w = p
  BY <1>1, OwedToNothing
<1>2. CASE w # p
  <2>1. pc'[w] = pc[w] /\ owed'[w] = owed[w] \ {p} /\ owed[w] \subseteq Procs
    BY <1>2 DEF Served
  <2>2. \A q \in owed'[w] : pc'[q] = pc[q] /\ q # p
    BY <2>1
  <2> QED
    BY <1>2, <2>1, <2>2, OwedKeeps
<1> QED
  BY <1>1, <1>2

LEMMA OwedTakeFlock ==
  ASSUME OwnerOK, BoundsOK, LineOK, NEW p \in Procs, TakeFlock(p), \A q \in Procs : OwedTo(q), NEW w \in Procs
  PROVE  OwedTo(w)'
<1> USE DEF OwnerOK, BoundsOK, Steps
<1>1. /\ pc[p] = "locking" /\ pc' = [pc EXCEPT ![p] = "granted"] /\ ahead' = ahead
      /\ \A q \in Procs : owed'[q] = owed[q] \ {p}
  BY HeadLocking DEF TakeFlock, Served
<1>2. /\ \A a, b \in Procs : Before(a, b) /\ a # p => Before(a, b)'
      /\ \A a \in Procs : ~Before(a, p)
  BY HeadLeavesLine DEF TakeFlock
<1>3. CASE w = p
  <2>1. owed[p] = {}
    BY <1>1, <1>2 DEF OwedTo
  <2> QED
    BY <1>1, <1>3, <2>1, OwedToNothing
<1>4. CASE w # p
  <2>1. pc'[w] = pc[w] /\ owed'[w] = owed[w] \ {p} /\ \A q \in owed'[w] : pc'[q] = pc[q] /\ q # p
    BY <1>1, <1>4
  <2> QED
    BY <1>1, <1>2, <2>1, OwedKeeps
<1> QED
  BY <1>3, <1>4

\* A step of p, who does not wait, that moves nobody else.
LEMMA OwedByStander ==
  ASSUME OwnerOK, BoundsOK, NEW p \in Procs, ~Waits(p), owed' = owed, NEW w \in Procs, OwedTo(w), w # p,
         \A q \in Procs : q # p => pc'[q] = pc[q],
         \A q \in Procs : q # p /\ Ticket(q) \in ahead[w] => Ticket(q) \in ahead'[w],
         \A q \in Procs : Before(q, w) => Before(q, w)'
  PROVE  OwedTo(w)'
<1>1. owed[w] \subseteq Procs
  BY DEF BoundsOK
<1> QED
  BY <1>1, OwedKeeps

\* Steps that leave every process and the line as they are, and take no ticket away.
LEMMA OwedStill ==
  ASSUME OwnerOK, BoundsOK, Still, NEW w \in Procs, OwedTo(w),
         \A q \in Procs : Ticket(q) \in ahead[w] => Ticket(q) \in ahead'[w]
  PROVE  OwedTo(w)'
<1>1. owed[w] \subseteq Procs
  BY DEF BoundsOK
<1> QED
  BY <1>1 DEF OwedTo, Waits, Before, Still

LEMMA OwedDies ==
  ASSUME OwnerOK, BoundsOK, LineOK, NEW p \in Procs, Dies(p), NEW w \in Procs, OwedTo(w)
  PROVE  OwedTo(w)'
<1>1. \A a, b \in Procs : Before(a, b) /\ p \notin {a, b} => Before(a, b)'
  BY LeavesLine DEF Dies
<1> QED
  BY <1>1, OwedServed DEF Dies

LEMMA TimelyStep ==
  ASSUME FilesOK, LineOK, OwnerOK, BoundsOK, Timely, Next, ~jumped'
  PROVE  Timely'
<1>1. Fresh'
  BY FreshStep DEF Timely
<1> SUFFICES ASSUME NEW w \in Procs PROVE OwedTo(w)'
  BY <1>1 DEF Timely
<1> USE DEF OwnerOK, Steps
<1>2. OwedTo(w) /\ ahead \in [Procs -> SUBSET Names] /\ \A q \in Procs : Ticket(q) \in Names
  BY NamesOf DEF Timely, FilesOK
<1>3. ASSUME NEW p \in Procs, OpenPlace(p) PROVE OwedTo(w)'
  <2>1. Still /\ ahead' = [q \in Procs |-> ahead[q] \ {Place(p)}]
    BY <1>3, StillSteps DEF OpenPlace
  <2>2. \A q \in Procs : Ticket(q) \in ahead[w] => Ticket(q) \in ahead'[w]
    BY <2>1 DEF Ticket, Place
  <2> QED
    BY <1>2, <2>1, <2>2, OwedStill
<1>4. ASSUME NEW p \in Procs, ClosePlace(p) PROVE OwedTo(w)'
  <2>1. Still /\ Unlink(Place(p)) /\ Place(p) \in Names
    BY <1>4, StillSteps, NamesOf DEF ClosePlace
  <2>2. \A q \in Procs : Ticket(q) # Place(p)
    BY DEF Ticket, Place
  <2>3. \A q \in Procs : Ticket(q) \in ahead[w] => Ticket(q) \in ahead'[w]
    BY <1>2, <2>1, <2>2, UnlinkFacts
  <2> QED
    BY <1>2, <2>1, <2>3, OwedStill
<1>5. ASSUME NEW p \in Procs, Call(p) \/ Poll(p) \/ TakeFlock(p) PROVE OwedTo(w)'
  BY <1>5, OwedCall, OwedPoll, OwedTakeFlock DEF Timely
<1>6. ASSUME NEW p \in Procs, Unlink(Ticket(p)), NEW q \in Procs, q # p, Ticket(q) \in ahead[w]
      PROVE  Ticket(q) \in ahead'[w]
  <2>1. Ticket(q) # Ticket(p)
    BY <1>6 DEF Ticket
  <2> QED
    BY <1>2, <1>6, <2>1, UnlinkFacts
<1>7. ASSUME NEW p \in Procs, Cancelled(p) \/ TimesOut(p) PROVE OwedTo(w)'
  <2>1. GiveUp(p)
    BY <1>7 DEF Cancelled, TimesOut
  <2>2. \A a, b \in Procs : Before(a, b) /\ p \notin {a, b} => Before(a, b)'
    BY <1>7, LeavesLine DEF Cancelled, TimesOut, Before
  <2>3. \A q \in Procs : q # p /\ Ticket(q) \in ahead[w] => Ticket(q) \in ahead'[w]
    BY <1>6, <2>1 DEF GiveUp
  <2> QED
    BY <1>2, <2>1, <2>2, <2>3, OwedServed DEF GiveUp
<1>8. ASSUME NEW p \in Procs, ShowHolding(p) PROVE OwedTo(w)'
  <2>1. /\ pc[p] = "granted" /\ pc' = [pc EXCEPT ![p] = "holding"]
        /\ owed' = owed /\ ahead' = ahead /\ line' = line
    BY <1>8 DEF ShowHolding
  <2>2. CASE w = p
    <3>1. owed'[p] = {}
      BY <1>2, <2>1, <2>2 DEF OwedTo
    <3> QED
      BY <2>2, <3>1, OwedToNothing
  <2>3. CASE w # p
    BY <1>2, <2>1, <2>3, OwedByStander DEF Waits, Before
  <2> QED
    BY <2>2, <2>3
<1>9. ASSUME NEW p \in Procs, Release(p) PROVE OwedTo(w)'
  <2>1. /\ pc[p] = "holding" /\ pc' = [pc EXCEPT ![p] = "idle"]
        /\ owed' = owed /\ line' = line /\ Unlink(Ticket(p))
    BY <1>9 DEF Release
  <2>2. CASE w = p
    BY <2>1, <2>2, OwedToNothing
  <2>3. CASE w # p
    <3>1. \A q \in Procs : q # p /\ Ticket(q) \in ahead[w] => Ticket(q) \in ahead'[w]
      BY <1>6, <2>1
    <3> QED
      BY <1>2, <2>1, <2>3, <3>1, OwedByStander DEF Waits, Before
  <2> QED
    BY <2>2, <2>3
<1>10. ASSUME NEW p \in Procs, ReviewerWaits(p) PROVE OwedTo(w)'
  <2>1. /\ p \in Outside /\ pc[p] = "idle" /\ pc' = [pc EXCEPT ![p] = "locking"]
        /\ owed' = owed /\ ahead' = ahead /\ line' = Append(line, p)
    BY <1>10 DEF ReviewerWaits
  <2>2. CASE w = p
    <3>1. owed'[p] = {}
      BY <2>1 DEF BoundsOK
    <3> QED
      BY <2>2, <3>1, OwedToNothing
  <2>3. CASE w # p
    <3>1. \A a, b \in Procs : Before(a, b) => Before(a, b)'
      BY <2>1, JoinsLine
    <3> QED
      BY <1>2, <2>1, <2>3, <3>1, OwedByStander DEF Waits
  <2> QED
    BY <2>2, <2>3
<1>11. ASSUME NEW p \in Procs, Respawn(p) PROVE OwedTo(w)'
  <2>1. /\ pc[p] = "dead" /\ pc' = [pc EXCEPT ![p] = "idle"]
        /\ owed' = owed /\ ahead' = ahead /\ line' = line
    BY <1>11 DEF Respawn
  <2>2. CASE w = p
    BY <2>1, <2>2, OwedToNothing
  <2>3. CASE w # p
    BY <1>2, <2>1, <2>3, OwedByStander DEF Waits, Before
  <2> QED
    BY <2>2, <2>3
<1>12. ASSUME NEW p \in Procs, Crash(p) \/ KillHolder(p) PROVE OwedTo(w)'
  <2>1. CASE Dies(p)
    BY <1>2, <2>1, OwedDies
  <2>2. CASE ~Dies(p)
    <3>1. Still /\ ahead' = ahead
      BY <1>12, <2>2 DEF Crash, KillHolder, Still
    <3> QED
      BY <1>2, <3>1, OwedStill
  <2> QED
    BY <2>1, <2>2
<1>13. ASSUME NEW n \in Names, Age(n) \/ Refresh(n) \/ ReadToMark(n) PROVE OwedTo(w)'
  <2>1. Still /\ ahead' = ahead
    BY <1>13, StillSteps DEF Age, Refresh, ReadToMark
  <2> QED
    BY <1>2, <2>1, OwedStill
<1>14. ASSUME NEW r \in cli.patch, WriteMark(r) PROVE OwedTo(w)'
  <2>1. Still /\ ahead' = ahead
    BY <1>14, StillSteps DEF WriteMark
  <2> QED
    BY <1>2, <2>1, OwedStill
<1>15. CASE CancelBelow
  <2>1. Still /\ ahead' = ahead
    BY <1>15, StillSteps DEF CancelBelow
  <2> QED
    BY <1>2, <2>1, OwedStill
<1>16. ~ClockJumps
  BY DEF ClockJumps
<1>17. ASSUME NEW p \in Procs, OrphanExits(p) PROVE OwedTo(w)'
  <2>1. Still /\ ahead' = ahead
    BY <1>17, StillSteps DEF OrphanExits
  <2> QED
    BY <1>2, <2>1, OwedStill
<1> QED
  BY <1>3, <1>4, <1>5, <1>7, <1>8, <1>9, <1>10, <1>11, <1>12, <1>13, <1>14, <1>15, <1>16, <1>17 DEF Next
-----------------------------------------------------------------------------
LEMMA InitInv ==
  ASSUME Init
  PROVE  Inv
<1>1. FilesOK
  <2>1. file \in [Names -> File] /\ ahead \in [Procs -> SUBSET Names] /\ last \subseteq Names
    BY NewFile DEF Init
  <2>2. cli = [todo |-> {}, patch |-> {}, doomed |-> {}]
    BY DEF Init, Idle
  <2>3. {} \in SUBSET Names /\ {} \in SUBSET (Names \X File) /\ {} \in SUBSET Procs
    OBVIOUS
  <2>4. cli \in Marks /\ cli.patch = {}
    BY <2>2, <2>3 DEF Marks
  <2> QED
    BY <2>1, <2>4 DEF FilesOK
<1>2. LineOK
  BY EmptySeq DEF Init, LineOK, InLine
<1>3. OwnerOK
  BY ArbiterAssumption DEF Init, OwnerOK, Steps
<1>4. BoundsOK
  <2>1. events = 0 /\ 0 \in 0 .. MaxEvents /\ jumped = FALSE /\ session = {}
    BY ArbiterAssumption DEF Init
  <2>2. owed = [p \in Procs |-> {}] /\ pc = [p \in Procs |-> "idle"]
    BY DEF Init
  <2>3. owed \in [Procs -> SUBSET Procs] /\ \A p \in Outside : owed[p] = {} /\ pc[p] # "waiting"
    BY <2>2, ArbiterAssumption
  <2> QED
    BY <2>1, <2>3 DEF BoundsOK
<1>5. Shown
  BY NewFile DEF Init, Shown
<1>6. Timely
  BY DEF Init, Timely, Fresh, OwedTo, Waits
<1> QED
  BY <1>1, <1>2, <1>3, <1>4, <1>5, <1>6 DEF Inv

LEMMA InvStep ==
  ASSUME Inv, [Next]_vars
  PROVE  Inv'
<1>1. CASE Next
  <2>1. FilesOK' /\ LineOK' /\ OwnerOK' /\ BoundsOK' /\ Shown'
    BY <1>1, FilesStep, LineStep, OwnerStep, BoundsStep, ShownStep DEF Inv
  <2>2. ~jumped' => ~jumped
    BY <1>1 DEF Next, OpenPlace, ClosePlace, Call, Poll, Cancelled, TimesOut, GiveUp, TakeFlock,
                ShowHolding, Release, ReviewerWaits, Crash, OrphanExits, Respawn, KillHolder, Dies, Age, Refresh,
                ReadToMark, WriteMark, ClockJumps, CancelBelow
  <2>3. ~jumped' => Timely'
    BY <1>1, <2>2, TimelyStep DEF Inv
  <2> QED
    BY <2>1, <2>3 DEF Inv
<1>2. CASE UNCHANGED vars
  BY <1>2 DEF vars, Inv, FilesOK, LineOK, OwnerOK, BoundsOK, Shown, Timely, Fresh, OwedTo, Waits,
              InLine, Before, Marks
<1> QED
  BY <1>1, <1>2

\* The inductive invariant holds in every state.
THEOREM Invariant == Spec => []Inv
<1>1. Init => Inv
  BY InitInv
<1>2. Inv /\ [Next]_vars => Inv'
  BY InvStep
<1> QED
  BY <1>1, <1>2, PTL DEF Spec

\* Type correctness: whoever is blocked on the flock is in its line, and nobody
\* else is, whichever way its callers give up, die or are killed.
THEOREM TypeCorrect == Spec => []TypeOK
<1>1. Inv => TypeOK
  <2> SUFFICES ASSUME Inv PROVE TypeOK
    OBVIOUS
  <2>1. \A p \in Procs : pc[p] = "locking" <=> p \in ToSet(line)
    BY DEF Inv, LineOK, InLine, ToSet
  <2> QED
    BY <2>1 DEF Inv, FilesOK, LineOK, OwnerOK, BoundsOK, Steps, Marks, TypeOK
<1> QED
  BY <1>1, Invariant, PTL

\* Priority and order, unless the clock jumped: who has the GPU has let go first
\* every caller of a higher class, and every earlier one of its own, that it found
\* there and that still waits.
THEOREM PrecedenceHolds == Spec => []Precedence
<1>1. Inv => Precedence
  BY DEF Inv, Timely, OwedTo, Precedence
<1> QED
  BY <1>1, Invariant, PTL

\* A ticket that shows a live holder names the owner of the flock, unless the
\* canceller marked it.
THEOREM ShownIsTrue == Spec => []ShownHolds
<1>1. Inv => ShownHolds
  <2> SUFFICES ASSUME Inv, NEW n \in Names, file[n].there, file[n].holding, ~file[n].cancel,
                      pc[n[1]] # "dead"
               PROVE  owner = n[1]
    BY DEF ShownHolds
  <2>1. pc[n[1]] = "holding" /\ n[1] \in Procs
    BY NamesOf DEF Inv, Shown
  <2> QED
    BY <2>1 DEF Inv, OwnerOK
<1> QED
  BY <1>1, Invariant, PTL
-----------------------------------------------------------------------------
(* Refinement of the abstract mutex.                                       *)

\* Who owns the flock is in, be it by the review that it left behind.
phaseBar == [p \in Procs |-> CASE Waits(p) -> "wanting"
                               [] ~Waits(p) /\ owner = p -> "in"
                               [] OTHER -> "out"]

Abstract == INSTANCE Mutex WITH phase <- phaseBar, holder <- owner

\* What a step of p, who goes on to step s, is to the mutex.
LEMMA PhaseOf ==
  ASSUME OwnerOK, NEW p \in Procs, NEW s \in Steps, pc' = [pc EXCEPT ![p] = s],
         \A q \in Procs : q # p => (owner' = q <=> owner = q)
  PROVE  /\ s \in {"waiting", "locking"} => phaseBar' = [phaseBar EXCEPT ![p] = "wanting"]
         /\ s \notin {"waiting", "locking"} /\ owner' = p => phaseBar' = [phaseBar EXCEPT ![p] = "in"]
         /\ s \notin {"waiting", "locking"} /\ owner' # p => phaseBar' = [phaseBar EXCEPT ![p] = "out"]
BY DEF phaseBar, Waits, OwnerOK, Steps

LEMMA PhaseNow ==
  ASSUME NEW p \in Procs
  PROVE  /\ Waits(p) => phaseBar[p] = "wanting"
         /\ ~Waits(p) /\ owner = p => phaseBar[p] = "in"
         /\ ~Waits(p) /\ owner # p => phaseBar[p] = "out"
         /\ phaseBar = [phaseBar EXCEPT ![p] = phaseBar[p]]
BY DEF phaseBar, Waits

LEMMA SamePhase ==
  ASSUME pc' = pc, owner' = owner
  PROVE  UNCHANGED Abstract!vars
BY DEF phaseBar, Waits, Abstract!vars

\* Steps within one phase: the end of the wait for tickets, the mark on the ticket, a
\* new process in the place of a dead one, a death that leaves a review behind.
LEMMA StayStep ==
  ASSUME OwnerOK, NEW p \in Procs, NEW s \in Steps, pc' = [pc EXCEPT ![p] = s], owner' = owner,
         Waits(p) <=> s \in {"waiting", "locking"}
  PROVE  UNCHANGED Abstract!vars
<1>1. /\ Waits(p) => phaseBar' = [phaseBar EXCEPT ![p] = "wanting"]
      /\ ~Waits(p) /\ owner = p => phaseBar' = [phaseBar EXCEPT ![p] = "in"]
      /\ ~Waits(p) /\ owner # p => phaseBar' = [phaseBar EXCEPT ![p] = "out"]
  BY PhaseOf
<1>2. phaseBar' = [phaseBar EXCEPT ![p] = phaseBar[p]]
  BY <1>1, PhaseNow
<1>3. phaseBar' = phaseBar
  BY <1>2, PhaseNow
<1> QED
  BY <1>3 DEF Abstract!vars

\* A caller that waits no more, without the flock, has given up; one that had the flock,
\* and has not, has left.
LEMMA EndStep ==
  ASSUME OwnerOK, NEW p \in Procs, NEW s \in Steps \ {"waiting", "locking"}, pc' = [pc EXCEPT ![p] = s]
  PROVE  /\ Waits(p) /\ owner' = owner => Abstract!GiveUp(p)
         /\ owner = p /\ owner' = Nobody => Abstract!Leave(p)
<1>1. ASSUME Waits(p), owner' = owner PROVE Abstract!GiveUp(p)
  <2>1. owner # p
    BY <1>1 DEF OwnerOK, Waits
  <2>2. phaseBar' = [phaseBar EXCEPT ![p] = "out"] /\ phaseBar[p] = "wanting"
    BY <1>1, <2>1, PhaseOf, PhaseNow
  <2> QED
    BY <1>1, <2>2 DEF Abstract!GiveUp
<1>2. ASSUME owner = p, owner' = Nobody PROVE Abstract!Leave(p)
  <2>1. ~Waits(p) /\ owner' # p
    BY <1>2, ArbiterAssumption DEF OwnerOK, Waits
  <2>2. \A q \in Procs : q # p => (owner' = q <=> owner = q)
    BY <1>2, ArbiterAssumption
  <2>3. phaseBar' = [phaseBar EXCEPT ![p] = "out"] /\ phaseBar[p] = "in"
    BY <1>2, <2>1, <2>2, PhaseOf, PhaseNow
  <2> QED
    BY <1>2, <2>3 DEF Abstract!Leave
<1> QED
  BY <1>1, <1>2

LEMMA MutexStep ==
  ASSUME OwnerOK, LineOK, [Next]_vars
  PROVE  [Abstract!Next]_Abstract!vars
<1> USE DEF Abstract!Next
<1>1. CASE UNCHANGED <<pc, owner>>
  BY <1>1, SamePhase
<1>2. ASSUME NEW p \in Procs, pc[p] = "idle", owner' = owner, NEW s \in {"waiting", "locking"},
             pc' = [pc EXCEPT ![p] = s]
      PROVE  Abstract!Ask(p)
  <2>1. owner # p /\ ~Waits(p)
    BY <1>2 DEF OwnerOK, Waits
  <2>2. phaseBar[p] = "out" /\ phaseBar' = [phaseBar EXCEPT ![p] = "wanting"]
    BY <1>2, <2>1, PhaseOf, PhaseNow DEF Steps
  <2> QED
    BY <1>2, <2>2 DEF Abstract!Ask
<1>3. ASSUME NEW p \in Procs, Call(p) \/ ReviewerWaits(p) PROVE [Abstract!Next]_Abstract!vars
  <2>1. /\ pc[p] = "idle" /\ owner' = owner
        /\ \E s \in {"waiting", "locking"} : pc' = [pc EXCEPT ![p] = s]
    BY <1>3 DEF Call, ReviewerWaits
  <2> QED
    BY <1>2, <2>1
<1>4. ASSUME NEW p \in Procs, Poll(p) \/ ShowHolding(p) \/ Respawn(p) PROVE [Abstract!Next]_Abstract!vars
  <2>1. /\ owner' = owner
        /\ \/ pc' = pc
           \/ pc[p] = "waiting" /\ pc' = [pc EXCEPT ![p] = "locking"]
           \/ pc[p] = "granted" /\ pc' = [pc EXCEPT ![p] = "holding"]
           \/ pc[p] = "dead" /\ pc' = [pc EXCEPT ![p] = "idle"]
    BY <1>4 DEF Poll, ShowHolding, Respawn
  <2>2. CASE pc' = pc
    BY <1>1, <2>1, <2>2
  <2>3. CASE pc' # pc
    <3>1. \E s \in Steps : pc' = [pc EXCEPT ![p] = s] /\ (Waits(p) <=> s \in {"waiting", "locking"})
      BY <2>1, <2>3 DEF Steps, Waits
    <3> QED
      BY <2>1, <3>1, StayStep
  <2> QED
    BY <2>2, <2>3
<1>5. ASSUME NEW p \in Procs, TakeFlock(p) PROVE Abstract!Enter(p)
  <2>1. /\ pc' = [pc EXCEPT ![p] = "granted"] /\ owner = Nobody /\ owner' = p
        /\ pc[p] = "locking" /\ Waits(p)
    BY <1>5, HeadLocking DEF TakeFlock, Waits
  <2>2. \A q \in Procs : q # p => (owner' = q <=> owner = q)
    BY <2>1, ArbiterAssumption
  <2>3. phaseBar[p] = "wanting" /\ phaseBar' = [phaseBar EXCEPT ![p] = "in"]
    BY <2>1, <2>2, PhaseOf, PhaseNow DEF Steps
  <2> QED
    BY <2>1, <2>3 DEF Abstract!Enter
<1>6. ASSUME NEW p \in Procs, Cancelled(p) \/ TimesOut(p) PROVE Abstract!GiveUp(p)
  <2>1. Waits(p) /\ owner' = owner /\ pc' = [pc EXCEPT ![p] = "idle"]
    BY <1>6 DEF Cancelled, TimesOut, GiveUp, Waits
  <2> QED
    BY <2>1, EndStep DEF Steps
<1>7. ASSUME NEW p \in Procs, Release(p) PROVE Abstract!Leave(p)
  <2>1. owner = p /\ owner' = Nobody /\ pc' = [pc EXCEPT ![p] = "idle"]
    BY <1>7 DEF Release, OwnerOK
  <2> QED
    BY <2>1, EndStep DEF Steps
\* A death: the caller gives up, leaves, or leaves its review behind.
<1>8. ASSUME NEW p \in Procs, Dies(p) PROVE [Abstract!Next]_Abstract!vars
  <2>1. /\ pc' = [pc EXCEPT ![p] = "dead"] /\ "dead" \in Steps \ {"waiting", "locking"}
        /\ owner' = IF owner = p /\ p \notin Outside THEN Nobody ELSE owner
    BY <1>8 DEF Dies, Steps
  <2>2. CASE owner' = owner /\ Waits(p)
    BY <2>1, <2>2, EndStep
  <2>3. CASE owner' = owner /\ ~Waits(p)
    BY <2>1, <2>3, StayStep
  <2>4. CASE owner' # owner
    BY <2>1, <2>4, EndStep
  <2> QED
    BY <2>2, <2>3, <2>4
<1>9. ASSUME NEW p \in Procs, Crash(p) \/ KillHolder(p) PROVE [Abstract!Next]_Abstract!vars
  BY <1>1, <1>8, <1>9 DEF Crash, KillHolder
<1>10. ASSUME NEW p \in Procs, OrphanExits(p) PROVE Abstract!Leave(p)
  <2>1. owner = p /\ owner' = Nobody /\ pc' = pc /\ pc[p] = "dead"
    BY <1>10 DEF OrphanExits
  <2>2. pc' = [pc EXCEPT ![p] = "dead"]
    BY <2>1 DEF OwnerOK
  <2> QED
    BY <2>1, <2>2, EndStep DEF Steps
<1>11. CASE Next
  BY <1>1, <1>3, <1>4, <1>5, <1>6, <1>7, <1>9, <1>10, <1>11, StillSteps DEF Next, Still
<1>12. CASE UNCHANGED vars
  BY <1>1, <1>12 DEF vars
<1> QED
  BY <1>11, <1>12

\* The arbiter, its tickets and places, the canceller that kills and the reviewers that
\* go past it together are a mutex: withGpu gives the GPU to one caller at a time, who
\* had asked for it and has not given up, and to nobody while the review of a killed
\* reviewer still runs.
THEOREM Implementation == Spec => Abstract!Spec
<1>1. Init => Abstract!Init
  <2> SUFFICES ASSUME Init PROVE Abstract!Init
    OBVIOUS
  <2>1. pc = [p \in Procs |-> "idle"] /\ owner = Nobody
    BY DEF Init
  <2>2. \A p \in Procs : ~Waits(p) /\ owner # p
    BY <2>1, ArbiterAssumption DEF Waits
  <2> QED
    BY <2>1, <2>2 DEF phaseBar, Abstract!Init
<1>2. Inv /\ [Next]_vars => [Abstract!Next]_Abstract!vars
  BY MutexStep DEF Inv
<1> QED
  BY <1>1, <1>2, Invariant, PTL DEF Spec, Abstract!Spec
-----------------------------------------------------------------------------
(* The line of tickets has a head.                                         *)

\* The name drawn last is in front of nobody; the tickets of waiters are in the order
\* of their names; what else a waiter left in the directory the canceller wrote there.
TicketOrder ==
  /\ \A n \in last : n[2] # "ghost" /\ \A p \in Procs : n \notin ahead[p]
  /\ \A p \in Procs : Ticket(p) \notin ahead[p]
  /\ \A a, b, c \in Procs :
       (pc[a] = "waiting" /\ pc[b] = "waiting" /\ Ticket(a) \in ahead[b] /\ Ticket(b) \in ahead[c])
         => Ticket(a) \in ahead[c]
  /\ \A n \in Names : (file[n].there /\ n[2] # "ticket" /\ (n[2] = "ghost" \/ pc[n[1]] = "waiting"))
                        => file[n].cancel

LEMMA TicketNames ==
  /\ \A p, q \in Procs : Ticket(p) = Ticket(q) => p = q
  /\ \A p, q \in Procs : Ticket(p) # Place(q) /\ Ticket(p) # <<q, "ghost">> /\ Place(p) # <<q, "ghost">>
  /\ \A p \in Procs : Ticket(p)[1] = p /\ Ticket(p)[2] = "ticket" /\ Place(p)[1] = p /\ Place(p)[2] = "place"
BY DEF Ticket, Place

\* Steps that draw no name and take none away.
LEMMA OrderStays ==
  ASSUME OwnerOK, TicketOrder, UNCHANGED <<ahead, last>>,
         \A p \in Procs : pc'[p] = "waiting" => pc[p] = "waiting",
         \A n \in Names : file'[n].there /\ n[2] # "ticket" => file[n].there \/ file'[n].cancel,
         \A n \in Names : file[n].there /\ file'[n].there /\ n[2] # "ticket" /\ file[n].cancel => file'[n].cancel
  PROVE  TicketOrder'
<1>1. \A n \in Names : (file'[n].there /\ n[2] # "ticket" /\ (n[2] = "ghost" \/ pc'[n[1]] = "waiting"))
                         => file'[n].cancel
  BY NamesOf DEF TicketOrder
<1> QED
  BY <1>1 DEF TicketOrder, Ticket

\* An unlink takes a name away; the ghost it may leave behind is no ticket.
LEMMA OrderUnlinks ==
  ASSUME FilesOK, OwnerOK, TicketOrder, NEW n \in Names, Unlink(n),
         n[2] = "ticket" => pc'[n[1]] # "waiting",
         \A p \in Procs : pc'[p] = "waiting" => pc[p] = "waiting"
  PROVE  TicketOrder'
<1> DEFINE ghost == <<n[1], "ghost">>
<1>1. /\ file' = [file EXCEPT ![n] = Gone] /\ last' = last \ {n}
      /\ \A p \in Procs : /\ ahead'[p] \subseteq (ahead[p] \ {n}) \cup {ghost}
                          /\ \A m \in Names : m # n /\ m \in ahead[p] => m \in ahead'[p]
                          /\ n \notin ahead[p] => ahead'[p] = ahead[p] \ {n}
  BY UnlinkFacts DEF Unlink, FilesOK
<1>2. \A m \in Names : file'[m].there => m # n /\ file'[m] = file[m]
  BY <1>1, NewFile DEF FilesOK
<1>3. \A m \in last' : m[2] # "ghost" /\ \A p \in Procs : m \notin ahead'[p]
  <2>1. \A m \in last' : m # ghost
    BY <1>1 DEF TicketOrder
  <2> QED
    BY <1>1, <2>1 DEF TicketOrder
<1>4. \A p, q \in Procs : Ticket(q) \in ahead'[p] => Ticket(q) \in ahead[p] /\ Ticket(q) # n
  <2>1. \A q \in Procs : Ticket(q) # ghost
    BY NamesOf, TicketNames
  <2> QED
    BY <1>1, <2>1
<1>5. \A p \in Procs : pc'[p] = "waiting" => Ticket(p) # n
  BY TicketNames
<1>6. \A a, b, c \in Procs :
        (pc'[a] = "waiting" /\ pc'[b] = "waiting" /\ Ticket(a) \in ahead'[b] /\ Ticket(b) \in ahead'[c])
          => Ticket(a) \in ahead'[c]
  <2> SUFFICES ASSUME NEW a \in Procs, NEW b \in Procs, NEW c \in Procs, pc'[a] = "waiting", pc'[b] = "waiting",
                      Ticket(a) \in ahead'[b], Ticket(b) \in ahead'[c]
               PROVE  Ticket(a) \in ahead'[c]
    OBVIOUS
  <2>1. Ticket(a) \in ahead[c]
    BY <1>4 DEF TicketOrder
  <2> QED
    BY <1>1, <1>5, <2>1, NamesOf
<1>7. \A p \in Procs : Ticket(p) \notin ahead'[p]
  BY <1>4 DEF TicketOrder
<1>8. \A m \in Names : (file'[m].there /\ m[2] # "ticket" /\ (m[2] = "ghost" \/ pc'[m[1]] = "waiting"))
                         => file'[m].cancel
  BY <1>2, NamesOf DEF TicketOrder
<1> QED
  BY <1>3, <1>6, <1>7, <1>8 DEF TicketOrder

\* A caller draws the last name: every waiter that drew one before is in front of it,
\* but for the one that drew in the same millisecond.
LEMMA OrderCalls ==
  ASSUME FilesOK, OwnerOK, TicketOrder, NEW p \in Procs, Call(p)
  PROVE  TicketOrder'
<1> USE DEF OwnerOK, Steps
<1> DEFINE g == [file EXCEPT ![Ticket(p)] = New]
           f == Swept(g)
           skip == f[Place(p)].there
           others == {n \in Names : f[n].there /\ n[1] # p}
           names == others \cup {n \in Names : n[1] # p /\ CanComeBack(n)}
<1>1. PICK earlier \in {names, names \ last} :
        ahead' = [[q \in Procs |-> ahead[q] \ {Ticket(p)}] EXCEPT ![p] = earlier]
  BY DEF Call
<1>2. /\ pc[p] = "idle" /\ pc' = [pc EXCEPT ![p] = IF skip THEN "locking" ELSE "waiting"]
      /\ last' = {Ticket(p)} /\ file' = f
  BY DEF Call
<1>3. \A n \in earlier : n \in Names /\ n[1] # p
  BY <1>1
<1>4. \A a \in Procs : pc[a] = "waiting" => Ticket(a) \in names /\ a # p
  BY <1>2, NamesOf, TicketNames DEF CanComeBack
<1>5. ahead'[p] = earlier /\ \A q \in Procs : q # p => ahead'[q] = ahead[q] \ {Ticket(p)}
  BY <1>1 DEF FilesOK
<1>6. \A n \in Names : f[n].there => \/ n = Ticket(p)
                                     \/ f[n] = file[n] /\ file[n].there
  <2>1. g \in [Names -> File]
    BY NewFile, NamesOf DEF FilesOK
  <2>2. \A n \in Names : f[n].there => f[n] = g[n] /\ g[n].there
    BY <2>1, SweptFacts
  <2>3. \A n \in Names : n # Ticket(p) => g[n] = file[n]
    BY DEF FilesOK
  <2> HIDE DEF g, f
  <2> QED
    BY <2>2, <2>3
<1> HIDE DEF g, f
<1>7. \A n \in last' : n[2] # "ghost" /\ \A q \in Procs : n \notin ahead'[q]
  BY <1>2, <1>3, <1>5, TicketNames
<1>8. \A q \in Procs : Ticket(q) \notin ahead'[q]
  BY <1>3, <1>5, TicketNames DEF TicketOrder
<1>9. \A a, b, c \in Procs :
        (pc'[a] = "waiting" /\ pc'[b] = "waiting" /\ Ticket(a) \in ahead'[b] /\ Ticket(b) \in ahead'[c])
          => Ticket(a) \in ahead'[c]
  <2> SUFFICES ASSUME NEW a \in Procs, NEW b \in Procs, NEW c \in Procs, pc'[a] = "waiting", pc'[b] = "waiting",
                      Ticket(a) \in ahead'[b], Ticket(b) \in ahead'[c]
               PROVE  Ticket(a) \in ahead'[c]
    OBVIOUS
  <2>1. a # p /\ b # p
    BY <1>7, <1>2
  <2>2. pc[a] = "waiting" /\ pc[b] = "waiting" /\ Ticket(a) \in ahead[b]
    BY <1>2, <1>5, <2>1
  <2>3. CASE c = p
    <3>1. Ticket(a) \notin last
      BY <2>2 DEF TicketOrder
    <3> QED
      BY <1>1, <1>4, <1>5, <2>2, <2>3, <3>1
  <2>4. CASE c # p
    <3>1. Ticket(a) \in ahead[c]
      BY <1>5, <2>2, <2>4 DEF TicketOrder
    <3> QED
      BY <1>5, <2>1, <2>4, <3>1, TicketNames
  <2> QED
    BY <2>3, <2>4
<1>10. \A n \in Names : (file'[n].there /\ n[2] # "ticket" /\ (n[2] = "ghost" \/ pc'[n[1]] = "waiting"))
                          => file'[n].cancel
  <2> SUFFICES ASSUME NEW n \in Names, f[n].there, n[2] # "ticket", n[2] = "ghost" \/ pc'[n[1]] = "waiting"
               PROVE  f[n].cancel
    BY <1>2
  <2>1. f[n] = file[n] /\ file[n].there
    BY <1>6, TicketNames
  <2>2. CASE n[2] = "ghost"
    BY <2>1, <2>2 DEF TicketOrder
  <2>3. CASE n[2] = "place"
    <3>1. n = Place(n[1]) /\ n[1] \in Procs
      BY <2>3, NamesOf DEF Place
    <3>2. n[1] # p
      BY <1>2, <2>3, <3>1
    <3>3. pc[n[1]] = "waiting"
      BY <1>2, <2>3, <3>1, <3>2
    <3> QED
      BY <2>1, <2>3, <3>3 DEF TicketOrder
  <2> QED
    BY <2>2, <2>3, NamesOf
<1> QED
  BY <1>7, <1>8, <1>9, <1>10 DEF TicketOrder

\* The order of the tickets is kept by every step.
LEMMA OrderStep ==
  ASSUME FilesOK, OwnerOK, LineOK, TicketOrder, [Next]_vars
  PROVE  TicketOrder'
<1> USE DEF OwnerOK, Steps
<1>1. ASSUME NEW p \in Procs, OpenPlace(p) PROVE TicketOrder'
  <2>1. /\ pc[p] = "idle" /\ pc' = pc /\ last' = {Place(p)} /\ file' = [file EXCEPT ![Place(p)] = New]
        /\ ahead' = [q \in Procs |-> ahead[q] \ {Place(p)}] /\ Place(p) \in Names
    BY <1>1, NamesOf DEF OpenPlace
  <2>2. \A n \in Names : n # Place(p) => file'[n] = file[n]
    BY <2>1 DEF FilesOK
  <2>3. \A n \in last' : n[2] # "ghost" /\ \A q \in Procs : n \notin ahead'[q]
    BY <2>1, TicketNames
  <2>4. \A q, r \in Procs : Ticket(q) \in ahead'[r] <=> Ticket(q) \in ahead[r]
    BY <2>1, TicketNames
  <2>5. \A n \in Names : (file'[n].there /\ n[2] # "ticket" /\ (n[2] = "ghost" \/ pc'[n[1]] = "waiting"))
                           => n # Place(p)
    BY <2>1, TicketNames
  <2> QED
    BY <2>1, <2>2, <2>3, <2>4, <2>5 DEF TicketOrder
<1>2. ASSUME NEW p \in Procs, ClosePlace(p) PROVE TicketOrder'
  BY <1>2, OrderUnlinks, NamesOf, TicketNames DEF ClosePlace
<1>3. ASSUME NEW p \in Procs, Cancelled(p) \/ TimesOut(p) \/ Release(p) PROVE TicketOrder'
  <2>1. Unlink(Ticket(p)) /\ pc' = [pc EXCEPT ![p] = "idle"] /\ Ticket(p) \in Names /\ Ticket(p)[1] = p
    BY <1>3, NamesOf, TicketNames DEF Cancelled, TimesOut, GiveUp, Release
  <2>2. pc'[p] # "waiting" /\ \A q \in Procs : pc'[q] = "waiting" => pc[q] = "waiting"
    BY <2>1
  <2> QED
    BY <2>1, <2>2, OrderUnlinks
<1>4. ASSUME NEW p \in Procs, Poll(p) PROVE TicketOrder'
  <2> DEFINE g == Touched(file, Ticket(p))
  <2>1. Ticket(p) \in Names /\ Ticket(p)[2] = "ticket" /\ g \in [Names -> File] /\ Swept(g) \in [Names -> File]
    BY TouchedFacts, SweptFacts, NamesOf, TicketNames DEF FilesOK
  <2>2. \A n \in Names : n # Ticket(p) => g[n] = file[n]
    BY <2>1, TouchedFacts DEF FilesOK
  <2>3. \A n \in Names : Swept(g)[n].there => Swept(g)[n] = g[n] /\ g[n].there
    BY <2>1, SweptFacts
  <2> HIDE DEF g
  <2>4. file' \in {Swept(g), [Swept(g) EXCEPT ![Ticket(p)] = New]} /\ UNCHANGED <<ahead, last>>
    BY <1>4 DEF Poll, g
  <2>5. \A n \in Names : n # Ticket(p) /\ file'[n].there => file'[n] = file[n]
    BY <2>1, <2>2, <2>3, <2>4
  <2>6. \A q \in Procs : pc'[q] = "waiting" => pc[q] = "waiting"
    BY <1>4 DEF Poll
  <2>7. \A n \in Names : file'[n].there /\ n[2] # "ticket" => file'[n] = file[n]
    BY <2>1, <2>5
  <2> QED
    BY <2>4, <2>6, <2>7, OrderStays
<1>5. ASSUME UNCHANGED <<file, ahead, last>>, \A q \in Procs : pc'[q] = "waiting" => pc[q] = "waiting"
      PROVE  TicketOrder'
  BY <1>5, OrderStays
<1>6. ASSUME NEW p \in Procs, ShowHolding(p) PROVE TicketOrder'
  <2>1. \A n \in Names : n[2] # "ticket" => file'[n] = file[n]
    BY <1>6, NamesOf, TicketNames DEF ShowHolding, FilesOK
  <2>2. UNCHANGED <<ahead, last>> /\ \A q \in Procs : pc'[q] = "waiting" => pc[q] = "waiting"
    BY <1>6 DEF ShowHolding
  <2> QED
    BY <2>1, <2>2, OrderStays
<1>7. ASSUME NEW n \in Names, Age(n) \/ Refresh(n) PROVE TicketOrder'
  <2>1. UNCHANGED <<pc, ahead, last>>
        /\ \E b \in BOOLEAN : file' = [file EXCEPT ![n].old = b]
    BY <1>7 DEF Age, Refresh, Touched
  <2>2. \A m \in Names : file'[m].there = file[m].there /\ file'[m].cancel = file[m].cancel
    BY <2>1 DEF FilesOK, File
  <2> QED
    BY <2>1, <2>2, OrderStays
<1>8. CASE ClockJumps
  <2>1. UNCHANGED <<pc, ahead, last>> /\ file' = [m \in Names |-> [file[m] EXCEPT !.old = file[m].there]]
    BY <1>8 DEF ClockJumps
  <2>2. \A m \in Names : file'[m].there = file[m].there /\ file'[m].cancel = file[m].cancel
    BY <2>1 DEF FilesOK, File
  <2> QED
    BY <2>1, <2>2, OrderStays
<1>9. CASE CancelBelow
  <2>1. UNCHANGED <<pc, ahead, last>> /\ file' = Swept(file)
    BY <1>9 DEF CancelBelow
  <2>2. \A m \in Names : file'[m].there => file'[m] = file[m]
    BY <2>1, SweptFacts DEF FilesOK
  <2> QED
    BY <2>1, <2>2, OrderStays
<1>10. ASSUME NEW r \in cli.patch, WriteMark(r) PROVE TicketOrder'
  <2>1. /\ UNCHANGED <<pc, ahead, last>> /\ r[1] \in Names /\ r[2] \in File
        /\ file' = [file EXCEPT ![r[1]] = [r[2] EXCEPT !.cancel = TRUE, !.old = FALSE]]
    BY <1>10 DEF WriteMark, FilesOK, Marks
  <2>2. \A m \in Names : file'[m] = file[m] \/ file'[m].cancel
    BY <2>1 DEF FilesOK, File
  <2> QED
    BY <2>1, <2>2, OrderStays
<1>11. ASSUME NEW p \in Procs, TakeFlock(p) \/ ReviewerWaits(p) \/ Crash(p) \/ OrphanExits(p) \/ Respawn(p)
                                \/ KillHolder(p)
       PROVE  TicketOrder'
  <2>1. UNCHANGED <<file, ahead, last>>
    BY <1>11 DEF TakeFlock, ReviewerWaits, Crash, OrphanExits, Respawn, KillHolder, Dies
  <2>2. pc' = pc \/ \E s \in Steps \ {"waiting"} : pc' = [pc EXCEPT ![p] = s]
    BY <1>11 DEF TakeFlock, ReviewerWaits, Crash, OrphanExits, Respawn, KillHolder, Dies
  <2> QED
    BY <1>5, <2>1, <2>2
<1>12. ASSUME NEW n \in Names, ReadToMark(n) PROVE TicketOrder'
  BY <1>5, <1>12 DEF ReadToMark
<1>13. CASE UNCHANGED vars
  BY <1>5, <1>13 DEF vars
<1>14. CASE Next
  BY <1>1, <1>2, <1>3, <1>4, <1>6, <1>7, <1>8, <1>9, <1>10, <1>11, <1>12, <1>14, OrderCalls DEF Next
<1> QED
  BY <1>13, <1>14

\* A finite strict partial order has a minimal element in every set that is not empty.
LEMMA HasMinimal ==
  ASSUME NEW S, IsFiniteSet(S), S # {}, NEW R,
         \A a \in S : <<a, a>> \notin R,
         \A a, b, c \in S : <<a, b>> \in R /\ <<b, c>> \in R => <<a, c>> \in R
  PROVE  \E a \in S : \A b \in S : <<b, a>> \notin R
<1> DEFINE Below(a) == {b \in S : <<b, a>> \in R}
           T == {Below(a) : a \in S}
<1>1. IsWellFoundedOn(StrictSubsetOrdering(S), FiniteSubsetsOf(S))
  BY FS_StrictSubsetOrderingWellFounded
<1>2. T \subseteq FiniteSubsetsOf(S) /\ T # {}
  <2>1. T # {}
    <3>1. PICK a \in S : TRUE
      OBVIOUS
    <3>2. Below(a) \in T
      BY <3>1
    <3> HIDE DEF T
    <3> QED
      BY <3>2
  <2>2. T \subseteq SUBSET S
    <3>1. \A a \in S : Below(a) \in SUBSET S
      OBVIOUS
    <3> QED
      BY <3>1
  <2>3. FiniteSubsetsOf(S) = SUBSET S
    BY FS_FiniteSubsetsOfFinite
  <2> HIDE DEF T
  <2> QED
    BY <2>1, <2>2, <2>3
<1>3. PICK x \in T : \A y \in T : <<y, x>> \notin StrictSubsetOrdering(S)
  <2> HIDE DEF T
  <2> QED
    BY <1>1, <1>2, WFMin
<1>4. PICK a \in S : x = Below(a)
  BY <1>3
<1>5. ASSUME NEW b \in S PROVE <<b, a>> \notin R
  <2> SUFFICES ASSUME <<b, a>> \in R PROVE FALSE
    OBVIOUS
  <2>1. Below(b) \subseteq Below(a) /\ b \in Below(a) /\ b \notin Below(b)
    OBVIOUS
  <2>2. <<Below(b), x>> \in StrictSubsetOrdering(S)
    BY <1>4, <2>1 DEF StrictSubsetOrdering
  <2> QED
    BY <1>3, <2>2
<1> QED
  BY <1>5

\* What callers that still wait for their turn have in the directory, but for what the
\* canceller wrote back of theirs.
OfWaiters == [n \in Names |-> IF pc[n[1]] = "waiting" /\ (n[2] = "ticket" \/ ~file[n].cancel)
                                THEN file[n] ELSE Gone]

\* No standoff in waitForSlot: when callers wait, one of them is held back by nothing
\* that another waiter has in the directory.
NoStandoff == (\E p \in Procs : pc[p] = "waiting") =>
                \E p \in Procs : pc[p] = "waiting" /\ ~Blocked(p, OfWaiters)

\* Callers never wait for each other in a circle, whatever their classes, however many
\* names were drawn in one millisecond, swept and written again: one of those that wait
\* is held back only by a caller that is past the tickets, which the flock serves, by a
\* session that is between two turns, or by what the canceller wrote back, which expires.
THEOREM NobodyWaitsInACircle == ASSUME IsFiniteSet(Procs) PROVE Spec => []NoStandoff
<1>1. Inv /\ TicketOrder => NoStandoff
  <2> SUFFICES ASSUME Inv, TicketOrder, \E p \in Procs : pc[p] = "waiting"
               PROVE  \E p \in Procs : pc[p] = "waiting" /\ ~Blocked(p, OfWaiters)
    BY DEF NoStandoff
  <2> DEFINE W == {p \in Procs : pc[p] = "waiting"}
             First(q, p) == Rank[q] < Rank[p] \/ (Rank[q] = Rank[p] /\ Ticket(q) \in ahead[p])
             R == {e \in W \X W : First(e[1], e[2])}
  <2>1. IsFiniteSet(W) /\ W # {}
    <3>1. W \subseteq Procs /\ W # {}
      OBVIOUS
    <3> HIDE DEF W
    <3> QED
      BY <3>1, FS_Subset
  <2>2. \A p \in Procs : Rank[p] \in 0 .. 3
    BY ArbiterAssumption
  <2>3. \A a \in W : <<a, a>> \notin R
    BY <2>2 DEF TicketOrder
  <2>4. \A a, b, c \in W : <<a, b>> \in R /\ <<b, c>> \in R => <<a, c>> \in R
    <3> SUFFICES ASSUME NEW a \in W, NEW b \in W, NEW c \in W, First(a, b), First(b, c) PROVE First(a, c)
      OBVIOUS
    <3>1. CASE Rank[a] = Rank[b] /\ Rank[b] = Rank[c]
      BY <2>2, <3>1 DEF TicketOrder
    <3>2. CASE Rank[a] # Rank[b] \/ Rank[b] # Rank[c]
      BY <2>2, <3>2
    <3> QED
      BY <3>1, <3>2
  <2>5. PICK p \in W : \A q \in W : <<q, p>> \notin R
    <3> HIDE DEF W, R
    <3> QED
      BY <2>1, <2>3, <2>4, HasMinimal
  <2>6. ~Blocked(p, OfWaiters)
    <3> SUFFICES ASSUME NEW n \in Names, OfWaiters[n].there, n[1] # p,
                        Rank[n[1]] < Rank[p] \/ (Rank[n[1]] = Rank[p] /\ n \in ahead[p])
                 PROVE  FALSE
      BY DEF Blocked
    <3>1. pc[n[1]] = "waiting" /\ (n[2] = "ticket" \/ ~file[n].cancel) /\ file[n].there
      BY NewFile DEF OfWaiters
    <3>2. n[2] = "ticket"
      BY <3>1 DEF TicketOrder
    <3>3. n = Ticket(n[1]) /\ n[1] \in W
      BY <3>1, <3>2, NamesOf DEF Ticket
    <3>4. First(n[1], p)
      BY <3>3
    <3> QED
      BY <2>5, <3>3, <3>4
  <2> QED
    BY <2>6
<1>2. Init => TicketOrder
  BY NewFile DEF Init, TicketOrder
<1>3. Inv /\ TicketOrder /\ [Next]_vars => TicketOrder'
  BY OrderStep DEF Inv
<1> QED
  BY <1>1, <1>2, <1>3, Invariant, PTL DEF Spec
=============================================================================
