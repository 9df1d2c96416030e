---------------------------- MODULE SshConfigProofs ----------------------------
(***************************************************************************)
(* Proofs about the edits of ~/.ssh/config for any aliases, files and      *)
(* sections of the user.  Every edit keeps a text sound: its blocks are    *)
(* whole or cut off for good, a forward is in a block, no LocalCommand     *)
(* belongs to the section of a forward, and the forwards come first.       *)
(* removeBlocks and updateSessionBlock go through the lines, and so do the *)
(* proofs: a scan has an invariant that each line keeps (ScanInv, HookInv) *)
(* and what holds of 0 and, with each n, of n + 1, holds of all numbers    *)
(* (SetInduction).  What is kept of a text is a selection of its lines     *)
(* (Selects), and an edit is one of three things: a selection, a block put *)
(* between the lines (Inserted), or lines after them (Joined).             *)
(***************************************************************************)
EXTENDS SshConfig, FiniteSetTheorems, SequenceTheorems, TLAPS

-----------------------------------------------------------------------------
(* Numbers and recursion                                                   *)

\* A set of numbers that has 0, and n + 1 with each n, has all of them.
LEMMA SetInduction ==
  ASSUME NEW S, 0 \in S, \A n \in Nat : n \in S => n + 1 \in S
  PROVE  \A n \in Nat : n \in S
<1> SUFFICES ASSUME NEW n \in Nat, n \notin S PROVE FALSE
  OBVIOUS
<1> DEFINE F == {k \in 0..n : k \notin S}
           f == [k \in F |-> k - 1]
<1>1. F \in SUBSET Nat /\ IsFiniteSet(F)
  <2>1. IsFiniteSet(0..n)
    BY FS_Interval
  <2>2. F \in SUBSET (0..n) /\ F \in SUBSET Nat
    OBVIOUS
  <2> HIDE DEF F
  <2> QED BY <2>1, <2>2, FS_Subset
<1>2. f \in [F -> F \ {n}]
  <2>1. \A k \in F : k - 1 \in F \ {n}
    OBVIOUS
  <2> QED BY <2>1
<1>3. IsFiniteSet(F \ {n}) /\ Cardinality(F \ {n}) = Cardinality(F) - 1 /\ Cardinality(F) \in Nat
  <2>1. n \in F
    OBVIOUS
  <2> HIDE DEF F
  <2> QED BY <1>1, <2>1, FS_RemoveElement, FS_CardinalityType
<1>4. Cardinality(F \ {n}) < Cardinality(F)
  BY <1>3
<1>5. \E x, y \in F : x # y /\ f[x] = f[y]
  <2> HIDE DEF F, f
  <2> QED BY <1>1, <1>2, <1>3, <1>4, FS_PigeonHole
<1> QED BY <1>5

\* A number up to seven places on.
LEMMA PlacesOn ==
  ASSUME NEW i \in Int, NEW k \in i..i + 7
  PROVE  k = i \/ k = i + 1 \/ k = i + 2 \/ k = i + 3 \/ k = i + 4 \/ k = i + 5 \/ k = i + 6 \/ k = i + 7
<1>1. k \in i..i + 3 \/ k \in i + 4..i + 7
  OBVIOUS
<1>2. CASE k \in i..i + 3
  BY <1>2
<1>3. CASE k \in i + 4..i + 7
  BY <1>3
<1> QED BY <1>1, <1>2, <1>3
\* The places of a block one place on.
LEMMA NextPlaces ==
  ASSUME NEW i \in Int
  PROVE  i + 1 + 1 = i + 2 /\ i + 1 + 2 = i + 3 /\ i + 1 + 3 = i + 4
  OBVIOUS
\* The places of the forward in a nested block.
LEMMA InnerPlaces ==
  ASSUME NEW k \in Int, NEW l \in k + 1..k + 4
  PROVE  l = k + 1 \/ l = k + 2 \/ l = k + 3 \/ l = k + 4
  OBVIOUS
LEMMA InnerDomain ==
  ASSUME NEW n \in Nat, NEW k \in 1..n, k + 7 <= n, NEW l \in k + 1..k + 4
  PROVE  l \in 1..n
  OBVIOUS
LEMMA OuterDomain ==
  ASSUME NEW n \in Nat, NEW k \in 1..n, k + 7 <= n
  PROVE  k + 5 \in 1..n /\ k + 6 \in 1..n /\ k + 7 \in 1..n /\ k + 5 + 1 = k + 6
  OBVIOUS
\* A place behind a block is between two that the block moves on.
LEMMA MovedBetween ==
  ASSUME NEW i \in Int, NEW j \in Int, NEW x \in Int, NEW y \in Int, NEW h \in Int,
         y < h, h < x, i = x + 4, j <= y + 4
  PROVE  h + 4 \in j + 1..i - 1
  OBVIOUS
\* One and two places back in the second of two joined texts.
LEMMA JoinedBack ==
  ASSUME NEW n \in Nat, NEW p \in Nat, NEW k \in 1..n, k > 2, NEW i, i = p + k
  PROVE  k - 1 \in 1..n /\ k - 2 \in 1..n /\ p + (k - 1) = i - 1 /\ p + (k - 2) = i - 2 /\ i > 2
  OBVIOUS
\* Two places back, and four.
LEMMA PlacesBack ==
  ASSUME NEW f \in Nat, NEW n \in Nat, NEW k \in Int, NEW e \in 1..n, e = k - 4, e >= f, e # f, e # f + 1
  PROVE  e - 1 \in f..n /\ e - 2 \in f..n /\ e - 1 + 4 = k - 1 /\ e - 2 + 4 = k - 2 /\ k > 2
<1>1. e - 2 >= f /\ e <= n /\ e > 0
  OBVIOUS
<1>2. e - 1 \in f..n /\ e - 2 \in f..n
  BY <1>1
<1>3. e - 1 + 4 = k - 1 /\ e - 2 + 4 = k - 2 /\ k > 2
  BY <1>1
<1> QED BY <1>2, <1>3

\* What a function of the numbers up to N says of each one by the one before
\* has a solution.
Solves(f, N, X, x0, g) ==
  f \in [0..N -> X] /\ f[0] = x0 /\ \A n \in 1..N : f[n] = g[<<n, f[n - 1]>>]
Steps(N, X) == [(1..N) \X X -> X]

\* So a function that says of each number by the one before exists.
LEMMA RecursionExists ==
  ASSUME NEW N \in Nat, NEW X, NEW x0 \in X, NEW g \in Steps(N, X)
  PROVE  \E f : Solves(f, N, X, x0, g)
<1> USE DEF Steps
<1> DEFINE Upto(k, f) == f \in [0..k -> X] /\ f[0] = x0 /\ \A n \in 1..k : f[n] = g[<<n, f[n - 1]>>]
           S == {k \in Nat : k <= N => \E f : Upto(k, f)}
<1>1. 0 \in S
  <2>1. Upto(0, [n \in 0..0 |-> x0])
    OBVIOUS
  <2> QED BY <2>1
<1>2. ASSUME NEW k \in Nat, k \in S
      PROVE  k + 1 \in S
  <2> SUFFICES ASSUME k + 1 <= N PROVE \E f : Upto(k + 1, f)
    OBVIOUS
  <2>1. PICK f : Upto(k, f)
    BY <1>2
  <2> DEFINE h == [n \in 0..k + 1 |-> IF n = k + 1 THEN g[<<n, f[k]>>] ELSE f[n]]
  <2>2. g[<<k + 1, f[k]>>] \in X
    BY <2>1
  <2>3. h \in [0..k + 1 -> X]
    BY <2>1, <2>2
  <2>4. h[0] = x0
    BY <2>1
  <2>5. ASSUME NEW n \in 1..k + 1 PROVE h[n] = g[<<n, h[n - 1]>>]
    <3>1. CASE n = k + 1
      BY <2>1, <3>1
    <3>2. CASE n # k + 1
      BY <2>1, <3>2
    <3> QED BY <3>1, <3>2
  <2> HIDE DEF h
  <2>6. Upto(k + 1, h)
    BY <2>3, <2>4, <2>5
  <2> QED BY <2>6
<1> HIDE DEF S
<1>3. \A k \in Nat : k \in S
  BY <1>1, <1>2, SetInduction
<1> QED BY <1>3 DEF S, Solves

\* UserLines, line by line.
OwnNext(own, text, n) == IF Owned(text[n]) THEN Append(own[n - 1], text[n]) ELSE own[n - 1]

\* UserLines is the last of a sequence of texts that OwnNext links.
LEMMA UserLinesRead ==
  ASSUME NEW text \in Seq(Line)
  PROVE  \E own : /\ own[0] = <<>> /\ \A n \in 1..Len(text) : own[n] = OwnNext(own, text, n)
                  /\ UserLines(text) = own[Len(text)]
<1> DEFINE Rec(f) == f = [n \in 0..Len(text) |-> IF n = 0 THEN <<>>
             ELSE IF Owned(text[n]) THEN Append(f[n - 1], text[n]) ELSE f[n - 1]]
<1>1. PICK N : N = Len(text) /\ N \in Nat
  OBVIOUS
<1>2. PICK X : X = Seq(Line)
  OBVIOUS
<1>2a. <<>> \in X
  BY <1>2
<1>3. PICK g : g = [p \in (1..N) \X X |->
                      IF Owned(text[p[1]]) THEN Append(p[2], text[p[1]]) ELSE p[2]]
  OBVIOUS
<1>4. g \in Steps(N, X)
  BY <1>1, <1>2, <1>3 DEF Steps
<1>5. PICK f : Solves(f, N, X, <<>>, g)
  BY <1>1, <1>2a, <1>4, RecursionExists
<1>6. \A n \in 1..N : f[n] = IF Owned(text[n]) THEN Append(f[n - 1], text[n]) ELSE f[n - 1]
  <2> SUFFICES ASSUME NEW n \in 1..N
               PROVE f[n] = IF Owned(text[n]) THEN Append(f[n - 1], text[n]) ELSE f[n - 1]
    OBVIOUS
  <2>1. n - 1 \in 0..N /\ f[n - 1] \in X
    BY <1>1, <1>5 DEF Solves
  <2>2. <<n, f[n - 1]>> \in (1..N) \X X /\ f[n] = g[<<n, f[n - 1]>>]
    BY <1>5, <2>1 DEF Solves
  <2> QED BY <1>3, <2>2
<1>7. Rec(f)
  <2>1. \A n \in 0..N : f[n] = IF n = 0 THEN <<>>
             ELSE IF Owned(text[n]) THEN Append(f[n - 1], text[n]) ELSE f[n - 1]
    <3> SUFFICES ASSUME NEW n \in 0..N
                 PROVE  f[n] = IF n = 0 THEN <<>>
                          ELSE IF Owned(text[n]) THEN Append(f[n - 1], text[n]) ELSE f[n - 1]
      OBVIOUS
    <3>1. CASE n = 0
      BY <1>5, <3>1 DEF Solves
    <3>2. CASE n # 0
      <4>1. n \in 1..N
        BY <1>1, <3>2
      <4> QED BY <1>6, <3>2, <4>1
    <3> QED BY <3>1, <3>2
  <2>2. f = [n \in 0..N |-> f[n]]
    BY <1>5 DEF Solves
  <2> QED BY <1>1, <2>1, <2>2
<1>8. PICK own : Rec(own) /\ UserLines(text) = own[Len(text)]
  BY <1>7 DEF UserLines
<1>9. own[0] = <<>>
  BY <1>1, <1>8
<1>10. \A n \in 1..Len(text) : own[n] = OwnNext(own, text, n)
  <2> SUFFICES ASSUME NEW n \in 1..Len(text) PROVE own[n] = OwnNext(own, text, n)
    OBVIOUS
  <2>1. n \in 0..Len(text) /\ n # 0
    BY <1>1
  <2>2. own[n] = IF n = 0 THEN <<>>
             ELSE IF Owned(text[n]) THEN Append(own[n - 1], text[n]) ELSE own[n - 1]
    BY <1>8, <2>1
  <2> QED BY <2>1, <2>2 DEF OwnNext
<1> QED BY <1>8, <1>9, <1>10

-----------------------------------------------------------------------------
(* What removeBlocks keeps                                                 *)

ScanState == [kept : Seq(Line), removed : BOOLEAN, inBlock : BOOLEAN]
ScanStart == [kept |-> <<>>, removed |-> FALSE, inBlock |-> FALSE]

\* A text without its last line.
LEMMA FrontTyped ==
  ASSUME NEW X, NEW s \in Seq(X), s # <<>>
  PROVE  Front(s) \in Seq(X) /\ Len(Front(s)) = Len(s) - 1 /\ Len(s) \in Nat \ {0}
         /\ Last(s) = s[Len(s)] /\ \A i \in 1..Len(s) - 1 : Front(s)[i] = s[i]
<1>1. Len(s) \in Nat \ {0} /\ Last(s) = s[Len(s)] /\ Front(s) = SubSeq(s, 1, Len(s) - 1)
  BY EmptySeq DEF Front, Last
<1>2. PICK n : n = Len(s) - 1 /\ n \in Nat
  BY <1>1
<1>3. \A i \in 1..n : s[i] \in X
  BY <1>2
<1>4. /\ SubSeq(s, 1, n) \in Seq(X)
      /\ Len(SubSeq(s, 1, n)) = IF 1 <= n THEN n - 1 + 1 ELSE 0
      /\ \A i \in 1..n - 1 + 1 : SubSeq(s, 1, n)[i] = s[1 + i - 1]
  BY <1>2, <1>3, SubSeqProperties
<1>5. Len(SubSeq(s, 1, n)) = n /\ \A i \in 1..n : SubSeq(s, 1, n)[i] = s[i]
  BY <1>2, <1>4
<1> QED BY <1>1, <1>2, <1>4, <1>5

\* removeBlocks goes from state to state.
LEMMA ReadLineTyped ==
  ASSUME NEW st \in ScanState, NEW line \in Line, NEW begins, NEW ends
  PROVE  ReadLine(st, line, begins, ends) \in ScanState
<1>1. st.kept \in Seq(Line) /\ WithoutLastBlank(st.kept) \in Seq(Line) /\ Append(st.kept, line) \in Seq(Line)
  BY FrontTyped DEF ScanState, WithoutLastBlank
<1>2. CASE ~st.inBlock /\ line \in begins
  BY <1>1, <1>2 DEF ReadLine, ScanState
<1>3. CASE st.inBlock /\ line \in ends
  BY <1>3 DEF ReadLine, ScanState
<1>4. CASE st.inBlock /\ line \notin ends
  BY <1>4 DEF ReadLine, ScanState
<1>5. CASE ~st.inBlock /\ line \notin begins
  BY <1>1, <1>5 DEF ReadLine, ScanState
<1> QED BY <1>2, <1>3, <1>4, <1>5 DEF ScanState

\* RemoveBlocks, line by line.
IsScan(read, text, begins, ends) ==
  /\ read[0] = ScanStart
  /\ \A n \in 1..Len(text) : read[n] = ReadLine(read[n - 1], text[n], begins, ends)

\* RemoveBlocks is the last of a sequence of states that ReadLine links.
LEMMA RemoveBlocksRead ==
  ASSUME NEW text \in Seq(Line), NEW begins, NEW ends
  PROVE  \E read : IsScan(read, text, begins, ends)
                   /\ RemoveBlocks(text, begins, ends) = read[Len(text)]
<1> DEFINE Next1(f, n) == ReadLine(f[n - 1], text[n], begins, ends)
           Rec(f) == f = [n \in 0..Len(text) |->
             IF n = 0 THEN [kept |-> <<>>, removed |-> FALSE, inBlock |-> FALSE]
             ELSE ReadLine(f[n - 1], text[n], begins, ends)]
<1>1. PICK N : N = Len(text) /\ N \in Nat
  OBVIOUS
<1>2. PICK X : X = ScanState
  OBVIOUS
<1>3. ScanStart \in X
  BY <1>2 DEF ScanStart, ScanState
<1>4. PICK g : g = [p \in (1..N) \X X |-> ReadLine(p[2], text[p[1]], begins, ends)]
  OBVIOUS
<1>5. g \in Steps(N, X)
  <2>1. \A p \in (1..N) \X X : ReadLine(p[2], text[p[1]], begins, ends) \in X
    BY <1>1, <1>2, ReadLineTyped
  <2> QED BY <1>4, <2>1 DEF Steps
<1>6. PICK f : Solves(f, N, X, ScanStart, g)
  BY <1>1, <1>3, <1>5, RecursionExists
<1>7. \A n \in 1..N : f[n] = Next1(f, n)
  <2> SUFFICES ASSUME NEW n \in 1..N PROVE f[n] = Next1(f, n)
    OBVIOUS
  <2>0. n - 1 \in 0..N
    BY <1>1
  <2>1. f[n - 1] \in X /\ f[n] = g[<<n, f[n - 1]>>]
    BY <1>6, <2>0 DEF Solves
  <2>2. <<n, f[n - 1]>> \in (1..N) \X X
    BY <2>1
  <2> QED BY <1>4, <2>1, <2>2
<1>8. Rec(f)
  <2>1. ASSUME NEW n \in 0..N
        PROVE  f[n] = IF n = 0 THEN [kept |-> <<>>, removed |-> FALSE, inBlock |-> FALSE]
                      ELSE ReadLine(f[n - 1], text[n], begins, ends)
    <3>1. CASE n = 0
      BY <1>6, <3>1 DEF Solves, ScanStart
    <3>2. CASE n # 0
      <4>1. n \in 1..N
        BY <1>1, <3>2
      <4> QED BY <1>7, <3>2, <4>1
    <3> QED BY <3>1, <3>2
  <2>2. f = [n \in 0..N |-> f[n]]
    BY <1>6 DEF Solves
  <2> QED BY <1>1, <2>1, <2>2
<1>9. PICK read : Rec(read) /\ RemoveBlocks(text, begins, ends) = read[Len(text)]
  BY <1>8 DEF RemoveBlocks
<1>10. read[0] = ScanStart
  BY <1>1, <1>9 DEF ScanStart
<1>11. \A n \in 1..Len(text) : read[n] = ReadLine(read[n - 1], text[n], begins, ends)
  <2> SUFFICES ASSUME NEW n \in 1..Len(text)
               PROVE  read[n] = ReadLine(read[n - 1], text[n], begins, ends)
    OBVIOUS
  <2>1. n \in 0..Len(text) /\ n # 0
    BY <1>1
  <2>2. read[n] = IF n = 0 THEN [kept |-> <<>>, removed |-> FALSE, inBlock |-> FALSE]
                  ELSE ReadLine(read[n - 1], text[n], begins, ends)
    BY <1>9, <2>1
  <2> QED BY <2>1, <2>2
<1> QED BY <1>9, <1>10, <1>11 DEF IsScan

\* Line n is in a block that is still open after it; it is in a block, its first
\* and last line included.
Open(text, begins, ends, n) ==
  \E j \in 1..n : text[j] \in begins /\ \A k \in j..n : text[k] \notin ends
Covered(text, begins, ends, n) ==
  \E j \in 1..n : text[j] \in begins /\ \A k \in j..n - 1 : text[k] \notin ends

\* Whether the next line is in a block, by whether one is open.
LEMMA CoveredByOpen ==
  ASSUME NEW text, NEW begins, NEW ends, begins \cap ends = {}, NEW n \in Nat
  PROVE  /\ Covered(text, begins, ends, n + 1) <=>
              Open(text, begins, ends, n) \/ text[n + 1] \in begins
         /\ Open(text, begins, ends, n + 1) <=>
              Covered(text, begins, ends, n + 1) /\ text[n + 1] \notin ends
         /\ ~Open(text, begins, ends, 0)
<1>1. ~Open(text, begins, ends, 0)
  BY DEF Open
<1>2. Covered(text, begins, ends, n + 1) => Open(text, begins, ends, n) \/ text[n + 1] \in begins
  <2> SUFFICES ASSUME Covered(text, begins, ends, n + 1), text[n + 1] \notin begins
               PROVE  Open(text, begins, ends, n)
    OBVIOUS
  <2>1. PICK j \in 1..n + 1 : text[j] \in begins /\ \A k \in j..n + 1 - 1 : text[k] \notin ends
    BY DEF Covered
  <2>2. j \in 1..n /\ n + 1 - 1 = n
    BY <2>1
  <2> QED BY <2>1, <2>2 DEF Open
<1>3. Open(text, begins, ends, n) => Covered(text, begins, ends, n + 1)
  <2> SUFFICES ASSUME Open(text, begins, ends, n) PROVE Covered(text, begins, ends, n + 1)
    OBVIOUS
  <2>1. PICK j \in 1..n : text[j] \in begins /\ \A k \in j..n : text[k] \notin ends
    BY DEF Open
  <2>2. j \in 1..n + 1 /\ \A k \in j..n + 1 - 1 : text[k] \notin ends
    BY <2>1
  <2> QED BY <2>1, <2>2 DEF Covered
<1>4. text[n + 1] \in begins => Covered(text, begins, ends, n + 1)
  BY DEF Covered
<1>5. Open(text, begins, ends, n + 1) => Covered(text, begins, ends, n + 1) /\ text[n + 1] \notin ends
  <2> SUFFICES ASSUME Open(text, begins, ends, n + 1)
               PROVE  Covered(text, begins, ends, n + 1) /\ text[n + 1] \notin ends
    OBVIOUS
  <2>1. PICK j \in 1..n + 1 : text[j] \in begins /\ \A k \in j..n + 1 : text[k] \notin ends
    BY DEF Open
  <2>2. text[n + 1] \notin ends /\ \A k \in j..n + 1 - 1 : text[k] \notin ends
    BY <2>1
  <2> QED BY <2>1, <2>2 DEF Covered
<1>6. Covered(text, begins, ends, n + 1) /\ text[n + 1] \notin ends => Open(text, begins, ends, n + 1)
  <2> SUFFICES ASSUME Covered(text, begins, ends, n + 1), text[n + 1] \notin ends
               PROVE  Open(text, begins, ends, n + 1)
    OBVIOUS
  <2>1. PICK j \in 1..n + 1 : text[j] \in begins /\ \A k \in j..n + 1 - 1 : text[k] \notin ends
    BY DEF Covered
  <2>2. \A k \in j..n + 1 : text[k] \notin ends
    BY <2>1
  <2> QED BY <2>1, <2>2 DEF Open
<1> QED BY <1>1, <1>2, <1>3, <1>4, <1>5, <1>6

\* s is the lines m[1], m[2], ... of the first n of text.
Selects(s, text, m, n) ==
  /\ m \in [1..Len(s) -> 1..n]
  /\ \A i \in 1..Len(s) : s[i] = text[m[i]]
  /\ \A i, j \in 1..Len(s) : i < j => m[i] < m[j]

\* Nothing of a block is kept, and of the rest everything but blank lines.
KeepsRest(s, text, m, begins, ends, n) ==
  /\ \A i \in 1..Len(s) : ~Covered(text, begins, ends, m[i])
  /\ \A k \in 1..n : ~Covered(text, begins, ends, k) /\ text[k].kind # "blank" =>
       \E i \in 1..Len(s) : m[i] = k

ScanInv(st, text, begins, ends, n) ==
  /\ st \in ScanState
  /\ st.inBlock <=> Open(text, begins, ends, n)
  /\ st.removed <=> \E k \in 1..n : text[k] \in begins
  /\ \E m : Selects(st.kept, text, m, n) /\ KeepsRest(st.kept, text, m, begins, ends, n)

\* A line more that is not kept, and a line more that is.
LEMMA SelectsLess ==
  ASSUME NEW s \in Seq(Line), NEW r \in Seq(Line), NEW text, NEW m, NEW begins, NEW ends, NEW n \in Nat,
         Selects(s, text, m, n), KeepsRest(s, text, m, begins, ends, n),
         Covered(text, begins, ends, n + 1),
         r = s \/ r = WithoutLastBlank(s)
  PROVE  \E h : Selects(r, text, h, n + 1) /\ KeepsRest(r, text, h, begins, ends, n + 1)
<1>1. /\ Len(r) \in 0..Len(s) /\ Len(s) \in Nat /\ \A i \in 1..Len(r) : r[i] = s[i]
      /\ \A i \in 1..Len(s) : i > Len(r) => s[i].kind = "blank"
  <2>1. CASE r = s
    BY <2>1
  <2>2. CASE r # s
    <3>1. s # <<>> /\ Last(s).kind = "blank" /\ r = Front(s)
      BY <2>2 DEF WithoutLastBlank
    <3>2. /\ Len(r) = Len(s) - 1 /\ Len(s) \in Nat \ {0} /\ Last(s) = s[Len(s)]
          /\ \A i \in 1..Len(s) - 1 : r[i] = s[i]
      BY <3>1, FrontTyped
    <3> QED BY <3>1, <3>2
  <2> QED BY <2>1, <2>2
<1> DEFINE h == [i \in 1..Len(r) |-> m[i]]
<1>2. Selects(r, text, h, n + 1)
  BY <1>1 DEF Selects
<1>3. \A i \in 1..Len(r) : ~Covered(text, begins, ends, h[i])
  BY <1>1 DEF KeepsRest
<1>4. ASSUME NEW k \in 1..n + 1, ~Covered(text, begins, ends, k), text[k].kind # "blank"
      PROVE  \E i \in 1..Len(r) : h[i] = k
  <2>1. k \in 1..n
    BY <1>4
  <2>2. PICK i \in 1..Len(s) : m[i] = k
    BY <1>4, <2>1 DEF KeepsRest
  <2>3. s[i].kind # "blank"
    BY <1>4, <2>2 DEF Selects
  <2>4. i \in 1..Len(r)
    BY <1>1, <2>3
  <2> QED BY <2>2, <2>4
<1> HIDE DEF h
<1>5. KeepsRest(r, text, h, begins, ends, n + 1)
  BY <1>3, <1>4 DEF KeepsRest
<1> QED BY <1>2, <1>5

\* A line more that is kept.
LEMMA SelectsMore ==
  ASSUME NEW s \in Seq(Line), NEW r, NEW text \in Seq(Line), NEW m, NEW begins, NEW ends,
         NEW n \in Nat, n + 1 \in 1..Len(text),
         Selects(s, text, m, n), KeepsRest(s, text, m, begins, ends, n),
         ~Covered(text, begins, ends, n + 1), r = Append(s, text[n + 1])
  PROVE  \E h : Selects(r, text, h, n + 1) /\ KeepsRest(r, text, h, begins, ends, n + 1)
<1>1. /\ Len(r) = Len(s) + 1 /\ Len(s) \in Nat /\ r[Len(s) + 1] = text[n + 1]
      /\ \A i \in 1..Len(s) : r[i] = s[i]
  OBVIOUS
<1> DEFINE h == [i \in 1..Len(r) |-> IF i = Len(r) THEN n + 1 ELSE m[i]]
<1>2. h[Len(r)] = n + 1 /\ \A i \in 1..Len(s) : h[i] = m[i] /\ m[i] \in 1..n
  <2>1. h[Len(r)] = n + 1
    BY <1>1
  <2>2. ASSUME NEW i \in 1..Len(s) PROVE h[i] = m[i] /\ m[i] \in 1..n
    <3>1. i \in 1..Len(r) /\ i # Len(r)
      BY <1>1
    <3>2. m[i] \in 1..n
      BY DEF Selects
    <3> QED BY <3>1, <3>2
  <2> HIDE DEF h
  <2> QED BY <2>1, <2>2
<1>3. h \in [1..Len(r) -> 1..n + 1]
  <2>1. \A i \in 1..Len(r) : h[i] \in 1..n + 1
    <3> SUFFICES ASSUME NEW i \in 1..Len(r) PROVE h[i] \in 1..n + 1
      OBVIOUS
    <3>1. CASE i = Len(r)
      BY <1>2, <3>1
    <3>2. CASE i # Len(r)
      <4>1. i \in 1..Len(s)
        BY <1>1, <3>2
      <4> HIDE DEF h
      <4> QED BY <1>2, <4>1
    <3> QED BY <3>1, <3>2
  <2> QED BY <2>1
<1> HIDE DEF h
<1>4. Selects(r, text, h, n + 1)
  <2>1. \A i \in 1..Len(r) : r[i] = text[h[i]]
    <3> SUFFICES ASSUME NEW i \in 1..Len(r) PROVE r[i] = text[h[i]]
      OBVIOUS
    <3>1. CASE i = Len(r)
      BY <1>1, <1>2, <3>1
    <3>2. CASE i # Len(r)
      BY <1>1, <1>2, <3>2 DEF Selects
    <3> QED BY <3>1, <3>2
  <2>2. \A i, j \in 1..Len(r) : i < j => h[i] < h[j]
    <3> SUFFICES ASSUME NEW i \in 1..Len(r), NEW j \in 1..Len(r), i < j PROVE h[i] < h[j]
      OBVIOUS
    <3>1. i \in 1..Len(s) /\ h[i] = m[i] /\ m[i] \in 1..n
      BY <1>1, <1>2
    <3>2. CASE j = Len(r)
      BY <1>2, <3>1, <3>2
    <3>3. CASE j # Len(r)
      BY <1>1, <1>2, <3>1, <3>3 DEF Selects
    <3> QED BY <3>2, <3>3
  <2> QED BY <1>3, <2>1, <2>2 DEF Selects
<1>5. \A i \in 1..Len(r) : ~Covered(text, begins, ends, h[i])
  <2> SUFFICES ASSUME NEW i \in 1..Len(r) PROVE ~Covered(text, begins, ends, h[i])
    OBVIOUS
  <2>1. CASE i = Len(r)
    BY <1>2, <2>1
  <2>2. CASE i # Len(r)
    BY <1>1, <1>2, <2>2 DEF KeepsRest
  <2> QED BY <2>1, <2>2
<1>6. ASSUME NEW k \in 1..n + 1, ~Covered(text, begins, ends, k), text[k].kind # "blank"
      PROVE  \E i \in 1..Len(r) : h[i] = k
  <2>1. CASE k = n + 1
    BY <1>1, <1>2, <2>1
  <2>2. CASE k # n + 1
    <3>1. k \in 1..n
      BY <2>2
    <3>2. PICK i \in 1..Len(s) : m[i] = k
      BY <1>6, <3>1 DEF KeepsRest
    <3>3. i \in 1..Len(r)
      BY <1>1, <3>2
    <3>4. h[i] = k
      BY <1>2, <3>2
    <3> QED BY <3>3, <3>4
  <2> QED BY <2>1, <2>2
<1>7. KeepsRest(r, text, h, begins, ends, n + 1)
  BY <1>5, <1>6 DEF KeepsRest
<1> QED BY <1>4, <1>7

\* Each line keeps the invariant of removeBlocks.
LEMMA ScanStep ==
  ASSUME NEW text \in Seq(Line), NEW begins, NEW ends, begins \cap ends = {},
         NEW n \in Nat, n + 1 \in 1..Len(text), NEW st, ScanInv(st, text, begins, ends, n)
  PROVE  ScanInv(ReadLine(st, text[n + 1], begins, ends), text, begins, ends, n + 1)
<1> DEFINE line == text[n + 1]
           new == ReadLine(st, line, begins, ends)
<1>1. st \in ScanState /\ line \in Line /\ st.kept \in Seq(Line)
  BY DEF ScanInv, ScanState
<1>2. new \in ScanState /\ new.kept \in Seq(Line)
  BY <1>1, ReadLineTyped DEF ScanState
<1>3. /\ Covered(text, begins, ends, n + 1) <=> st.inBlock \/ line \in begins
      /\ Open(text, begins, ends, n + 1) <=>
           Covered(text, begins, ends, n + 1) /\ line \notin ends
  BY CoveredByOpen DEF ScanInv
<1>4. /\ new.inBlock <=> (st.inBlock \/ line \in begins) /\ line \notin ends
      /\ new.removed <=> st.removed \/ (line \in begins /\ ~st.inBlock)
      /\ new.kept = IF st.inBlock THEN st.kept ELSE IF line \in begins THEN WithoutLastBlank(st.kept)
                    ELSE Append(st.kept, line)
  <2>1. CASE ~st.inBlock /\ line \in begins
    BY <1>1, <2>1 DEF ReadLine, ScanState
  <2>2. CASE st.inBlock /\ line \in ends
    BY <1>1, <2>2 DEF ReadLine, ScanState
  <2>3. CASE st.inBlock /\ line \notin ends
    BY <1>1, <2>3 DEF ReadLine, ScanState
  <2>4. CASE ~st.inBlock /\ line \notin begins
    BY <1>1, <2>4 DEF ReadLine, ScanState
  <2> QED BY <1>1, <2>1, <2>2, <2>3, <2>4 DEF ScanState
<1> HIDE DEF new
<1>5. new.inBlock <=> Open(text, begins, ends, n + 1)
  BY <1>3, <1>4
<1>6. new.removed <=> \E k \in 1..n + 1 : text[k] \in begins
  <2>1. st.removed <=> \E k \in 1..n : text[k] \in begins
    BY DEF ScanInv
  <2>2. st.inBlock => \E k \in 1..n : text[k] \in begins
    BY DEF ScanInv, Open
  <2> QED BY <1>4, <2>1, <2>2
<1>7. PICK m : Selects(st.kept, text, m, n) /\ KeepsRest(st.kept, text, m, begins, ends, n)
  BY DEF ScanInv
<1>8. \E h : Selects(new.kept, text, h, n + 1) /\ KeepsRest(new.kept, text, h, begins, ends, n + 1)
  <2>1. CASE Covered(text, begins, ends, n + 1)
    <3>1. new.kept = st.kept \/ new.kept = WithoutLastBlank(st.kept)
      BY <1>3, <1>4, <2>1
    <3> QED BY <1>1, <1>2, <1>7, <2>1, <3>1, SelectsLess
  <2>2. CASE ~Covered(text, begins, ends, n + 1)
    <3>1. new.kept = Append(st.kept, line)
      BY <1>3, <1>4, <2>2
    <3> QED BY <1>1, <1>7, <2>2, <3>1, SelectsMore
  <2> QED BY <2>1, <2>2
<1> QED BY <1>2, <1>5, <1>6, <1>8 DEF ScanInv, new

\* What removeBlocks returns.
LEMMA RemoveBlocksKeeps ==
  ASSUME NEW text \in Seq(Line), NEW begins, NEW ends, begins \cap ends = {}
  PROVE  ScanInv(RemoveBlocks(text, begins, ends), text, begins, ends, Len(text))
<1>1. PICK read : IsScan(read, text, begins, ends)
                  /\ RemoveBlocks(text, begins, ends) = read[Len(text)]
  BY RemoveBlocksRead
<1> DEFINE S == {n \in Nat : n <= Len(text) => ScanInv(read[n], text, begins, ends, n)}
<1>2. 0 \in S
  <2>1. ScanStart \in ScanState /\ ScanStart.kept = <<>> /\ ~ScanStart.inBlock /\ ~ScanStart.removed
    BY DEF ScanStart, ScanState
  <2>2. Selects(<<>>, text, <<>>, 0) /\ KeepsRest(<<>>, text, <<>>, begins, ends, 0)
    BY DEF Selects, KeepsRest
  <2>3. ~Open(text, begins, ends, 0)
    BY DEF Open
  <2>4. ScanInv(ScanStart, text, begins, ends, 0)
    BY <2>1, <2>2, <2>3 DEF ScanInv
  <2> QED BY <1>1, <2>4 DEF IsScan
<1>3. ASSUME NEW n \in Nat, n \in S
      PROVE  n + 1 \in S
  <2> SUFFICES ASSUME n + 1 <= Len(text) PROVE ScanInv(read[n + 1], text, begins, ends, n + 1)
    OBVIOUS
  <2>1. n + 1 \in 1..Len(text) /\ n + 1 - 1 = n /\ ScanInv(read[n], text, begins, ends, n)
    BY <1>3
  <2>2. read[n + 1] = ReadLine(read[n], text[n + 1], begins, ends)
    BY <1>1, <2>1 DEF IsScan
  <2> QED BY <2>1, <2>2, ScanStep
<1> HIDE DEF S
<1>4. \A n \in Nat : n \in S
  BY <1>2, <1>3, SetInduction
<1>5. Len(text) \in Nat
  OBVIOUS
<1> QED BY <1>1, <1>4, <1>5 DEF S

-----------------------------------------------------------------------------
(* Selections                                                              *)

Kept(m, n, k) == \E i \in 1..n : m[i] = k

\* A line by its kind and writer.
LEMMA LineForm ==
  ASSUME NEW line \in Line
  PROVE  /\ line.by = "user" => line.kind \in UserKinds
         /\ line.by \in {"user", "clipport"}
         /\ line.by = "clipport" => line = Managed(line.kind, line.alias)
         /\ line.by = "user" => line = Mine(line.kind, line.alias)
         /\ line.kind \notin UserKinds => line = Managed(line.kind, line.alias)
         /\ line.alias \in Patterns
  BY DEF Line, UserLine, Managed, Mine

\* The numbers are in the order of the lines they select.
LEMMA SelectsOrder ==
  ASSUME NEW s \in Seq(Line), NEW t \in Seq(Line), NEW m, Selects(s, t, m, Len(t)),
         NEW i \in DOMAIN s, NEW j \in DOMAIN s
  PROVE  /\ m[i] \in DOMAIN t /\ s[i] = t[m[i]]
         /\ i < j <=> m[i] < m[j]
         /\ i = j <=> m[i] = m[j]
<1>1. i \in 1..Len(s) /\ j \in 1..Len(s) /\ m[i] \in 1..Len(t) /\ m[j] \in 1..Len(t)
  BY DEF Selects
<1>2. i < j => m[i] < m[j]
  BY <1>1 DEF Selects
<1>3. j < i => m[j] < m[i]
  BY <1>1 DEF Selects
<1>4. s[i] = t[m[i]]
  BY <1>1 DEF Selects
<1>5. i < j \/ j < i \/ i = j
  BY <1>1
<1> QED BY <1>1, <1>2, <1>3, <1>4, <1>5

\* Lines that follow one another and are all kept follow one another.
KeptFrom(m, n, k, c) == \A d \in 0..c : Kept(m, n, k + d)
SameFrom(s, i, t, k, c) ==
  /\ i \in Nat \ {0} /\ i + c <= Len(s) /\ k \in Nat \ {0}
  /\ \A d \in 0..c : s[i + d] = t[k + d]
\* Lines of t that are all kept stand in s as they stand in t.
LEMMA KeptRun ==
  ASSUME NEW s \in Seq(Line), NEW t \in Seq(Line), NEW m, Selects(s, t, m, Len(t)),
         NEW i \in DOMAIN s, NEW n \in Nat, KeptFrom(m, Len(s), m[i], n)
  PROVE  SameFrom(s, i, t, m[i], n)
<1> DEFINE Good(d) == i + d \in DOMAIN s /\ m[i + d] = m[i] + d /\ s[i + d] = t[m[i] + d]
           S == {d \in Nat : d <= n => Good(d)}
<1>0. i \in Nat /\ m[i] \in 1..Len(t) /\ s[i] = t[m[i]] /\ DOMAIN s = 1..Len(s) /\ Len(s) \in Nat
  BY SelectsOrder
<1>1. 0 \in S
  <2>1. i + 0 = i /\ m[i] + 0 = m[i]
    BY <1>0
  <2> QED BY <1>0, <2>1
<1>2. ASSUME NEW d \in Nat, d \in S PROVE d + 1 \in S
  <2> SUFFICES ASSUME d + 1 <= n PROVE Good(d + 1)
    OBVIOUS
  <2>1. Good(d)
    BY <1>2
  <2>2. PICK j \in 1..Len(s) : m[j] = m[i] + (d + 1)
    BY DEF Kept, KeptFrom
  <2>3. m[i + d] < m[j]
    BY <1>0, <2>1, <2>2
  <2>4. i + d < j
    BY <2>1, <2>2, <2>3, <1>0, SelectsOrder
  <2>5. i + d + 1 \in DOMAIN s
    BY <1>0, <2>2, <2>4
  <2>6. PICK e : e = i + d + 1 /\ e \in DOMAIN s
    BY <2>5
  <2>7a. j \in DOMAIN s /\ i + d \in DOMAIN s /\ j \in Nat
    BY <2>1, <2>2, <1>0
  <2>7. j \in DOMAIN s /\ i + d \in DOMAIN s /\ i + d < e /\ e <= j
    <3> HIDE DEF Good
    <3> QED BY <2>7a, <2>4, <2>6, <1>0
  <2>8. m[e] \in DOMAIN t /\ m[j] \in DOMAIN t /\ m[i + d] \in DOMAIN t /\ s[e] = t[m[e]]
    BY <2>6, <2>7, SelectsOrder
  <2>9. m[i + d] < m[e]
    <3>1. i + d \in DOMAIN s /\ e \in DOMAIN s /\ i + d < e
      BY <2>6, <2>7
    <3>2. PICK g : g = i + d
      OBVIOUS
    <3> QED BY <3>1, <3>2, SelectsOrder
  <2>10. e < j => m[e] < m[j]
    BY <2>6, <2>7, SelectsOrder
  <2>11. e = j
    <3> SUFFICES ASSUME e < j PROVE FALSE
      BY <2>6, <2>7, <1>0
    <3>1. m[i + d] < m[e] /\ m[e] < m[j]
      BY <2>9, <2>10
    <3>2. m[e] \in Nat /\ m[i + d] \in Nat
      BY <2>8
    <3>3. m[j] = m[i + d] + 1
      <4>1. m[i + d] = m[i] + d /\ m[i] \in Int
        BY <2>1, <1>0
      <4> QED BY <4>1, <2>2
    <3> QED BY <3>1, <3>2, <3>3
  <2>12. i + (d + 1) = e
    BY <2>6, <1>0
  <2> QED BY <2>2, <2>6, <2>8, <2>11, <2>12
<1> HIDE DEF S
<1>3. \A d \in Nat : d \in S
  BY <1>1, <1>2, SetInduction
<1>4. \A d \in 0..n : Good(d)
  BY <1>3 DEF S
<1>5. \A d \in 0..n : s[i + d] = t[m[i] + d]
  BY <1>4
<1>6. i + n \in DOMAIN s
  BY <1>4
<1>7. i \in Nat \ {0} /\ i + n <= Len(s) /\ m[i] \in Nat \ {0}
  BY <1>0, <1>6
<1> QED BY <1>5, <1>7 DEF SameFrom

\* Dropping lines that are not the user's changes nothing for the user.
LEMMA UserLinesKeptBySelection ==
  ASSUME NEW s \in Seq(Line), NEW t \in Seq(Line), NEW m, Selects(s, t, m, Len(t)),
         \A k \in DOMAIN t : Owned(t[k]) => Kept(m, Len(s), k)
  PROVE  UserLines(s) = UserLines(t)
<1>1. PICK os : /\ os[0] = <<>> /\ \A n \in 1..Len(s) : os[n] = OwnNext(os, s, n)
                /\ UserLines(s) = os[Len(s)]
  BY UserLinesRead
<1>2. PICK ot : /\ ot[0] = <<>> /\ \A n \in 1..Len(t) : ot[n] = OwnNext(ot, t, n)
                /\ UserLines(t) = ot[Len(t)]
  BY UserLinesRead
\* After the lines up to m[i], and up to the next selected line, as after i.
<1> DEFINE Below(i, n) == i \in 0..Len(s) /\ (i > 0 => m[i] <= n) /\ (i < Len(s) => n < m[i + 1])
           S == {n \in Nat : n <= Len(t) => \E i \in 0..Len(s) : Below(i, n) /\ ot[n] = os[i]}
<1>0. Len(s) \in Nat /\ Len(t) \in Nat /\ DOMAIN s = 1..Len(s) /\ DOMAIN t = 1..Len(t)
  OBVIOUS
<1>3. 0 \in S
  <2>1. 0 < Len(s) => 0 < m[1]
    BY <1>0, SelectsOrder
  <2>2. 0 \in 0..Len(s) /\ Below(0, 0)
    BY <2>1, <1>0
  <2> QED BY <2>2, <1>1, <1>2
<1>4. ASSUME NEW n \in Nat, n \in S PROVE n + 1 \in S
  <2> SUFFICES ASSUME n + 1 <= Len(t) PROVE \E i \in 0..Len(s) : Below(i, n + 1) /\ ot[n + 1] = os[i]
    OBVIOUS
  <2>1. PICK i \in 0..Len(s) : Below(i, n) /\ ot[n] = os[i]
    BY <1>4, <1>0
  <2>2. n + 1 \in 1..Len(t) /\ n + 1 - 1 = n
    BY <1>0
  <2>3. ot[n + 1] = IF Owned(t[n + 1]) THEN Append(ot[n], t[n + 1]) ELSE ot[n]
    BY <1>2, <2>2 DEF OwnNext
  <2>4. CASE i < Len(s) /\ m[i + 1] = n + 1
    <3>1. i + 1 \in 1..Len(s) /\ i + 1 - 1 = i /\ s[i + 1] = t[n + 1]
      BY <2>4, <1>0, SelectsOrder
    <3>2. os[i + 1] = IF Owned(s[i + 1]) THEN Append(os[i], s[i + 1]) ELSE os[i]
      BY <1>1, <3>1 DEF OwnNext
    <3>3. os[i + 1] = ot[n + 1]
      BY <2>1, <2>3, <3>1, <3>2
    <3>4. i + 1 < Len(s) => m[i + 1] < m[i + 2] /\ i + 1 + 1 = i + 2
      <4> SUFFICES ASSUME i + 1 < Len(s) PROVE m[i + 1] < m[i + 2] /\ i + 1 + 1 = i + 2
        OBVIOUS
      <4>1. PICK g, h : g = i + 1 /\ h = i + 2
        OBVIOUS
      <4>2. g \in DOMAIN s /\ h \in DOMAIN s /\ g < h /\ i + 1 + 1 = i + 2
        BY <3>1, <1>0, <4>1
      <4>3. m[g] < m[h]
        BY <4>2, SelectsOrder
      <4> QED BY <4>1, <4>2, <4>3
    <3>5. Below(i + 1, n + 1)
      BY <2>4, <3>1, <3>4, <1>0
    <3> QED BY <3>1, <3>3, <3>5
  <2>5. CASE ~(i < Len(s) /\ m[i + 1] = n + 1)
    <3>0. i < Len(s) => m[i + 1] \in 1..Len(t) /\ n < m[i + 1]
      <4> SUFFICES ASSUME i < Len(s) PROVE m[i + 1] \in 1..Len(t) /\ n < m[i + 1]
        OBVIOUS
      <4>1. PICK g : g = i + 1 /\ g \in DOMAIN s
        BY <1>0
      <4>2. m[g] \in DOMAIN t
        BY <4>1, SelectsOrder
      <4>3. n < m[i + 1]
        BY <2>1
      <4> QED BY <4>1, <4>2, <4>3, <1>0
    <3>0a. i > 0 => m[i] \in 1..Len(t) /\ m[i] <= n
      <4> SUFFICES ASSUME i > 0 PROVE m[i] \in 1..Len(t) /\ m[i] <= n
        OBVIOUS
      <4>1. i \in DOMAIN s
        BY <1>0
      <4>2. m[i] \in DOMAIN t
        BY <4>1, SelectsOrder
      <4>3. m[i] <= n
        BY <2>1
      <4> QED BY <4>2, <4>3, <1>0
    <3>1. Below(i, n + 1)
      BY <2>1, <2>5, <1>0, <3>0, <3>0a
    <3>2. ~Owned(t[n + 1])
      <4> SUFFICES ASSUME Owned(t[n + 1]) PROVE FALSE
        OBVIOUS
      <4>1. PICK j \in 1..Len(s) : m[j] = n + 1
        BY <2>2, <1>0 DEF Kept
      <4>2. i > 0 => i < j
        <5> SUFFICES ASSUME i > 0 PROVE i < j
          OBVIOUS
        <5>1. i \in DOMAIN s /\ j \in DOMAIN s /\ m[i] < m[j]
          BY <3>0a, <4>1, <1>0
        <5> QED BY <5>1, SelectsOrder
      <4>3. i < j /\ i + 1 \in DOMAIN s /\ j \in DOMAIN s
        BY <4>1, <4>2, <1>0
      <4>4. m[i + 1] # n + 1 /\ m[i + 1] > n + 1
        BY <2>5, <3>0, <4>3, <1>0
      <4>5. m[j] < m[i + 1]
        BY <4>1, <4>4
      <4>6. j < i + 1
        BY <4>3, <4>5, SelectsOrder
      <4> QED BY <4>1, <4>3, <4>6
    <3> QED BY <2>1, <2>3, <3>1, <3>2
  <2> QED BY <2>4, <2>5
<1> HIDE DEF S
<1>5. \A n \in Nat : n \in S
  BY <1>3, <1>4, SetInduction
<1>6. PICK i \in 0..Len(s) : Below(i, Len(t)) /\ ot[Len(t)] = os[i]
  BY <1>5, <1>0 DEF S
<1>7. i = Len(s)
  <2>1. i < Len(s) => m[i + 1] \in 1..Len(t) /\ Len(t) < m[i + 1]
    BY <1>0, <1>6, SelectsOrder
  <2>2. ~(i < Len(s))
    BY <2>1, <1>0
  <2> HIDE DEF Below
  <2>3. i \in Int /\ i <= Len(s)
    BY <1>0
  <2>4. PICK l : l = Len(s) /\ l \in Nat
    BY <1>0
  <2> QED BY <2>2, <2>3, <2>4
<1> QED BY <1>1, <1>2, <1>6, <1>7

-----------------------------------------------------------------------------
(* Blocks in a text                                                        *)

ForwardAt(t, i, a) ==
  /\ i \in 1..Len(t) - 3
  /\ t[i] = Managed("begin", a) /\ t[i + 1] = Managed("host", a)
  /\ t[i + 2] = Managed("forward", a) /\ t[i + 3] = Managed("end", a)
SessionAt(t, i, a) ==
  /\ i \in 1..Len(t) - 3
  /\ t[i] = Managed("sessionbegin", a) /\ t[i + 1] = Managed("host", a)
  /\ t[i + 2] = Managed("localcommand", a) /\ t[i + 3] = Managed("sessionend", a)
\* A session block whose host came first in the file when the forward was put
\* before it.
NestedAt(t, i, a) ==
  /\ i \in 1..Len(t) - 7
  /\ t[i] = Managed("sessionbegin", a) /\ ForwardAt(t, i + 1, a)
  /\ t[i + 5] = Managed("host", a) /\ t[i + 6] = Managed("localcommand", a)
  /\ t[i + 7] = Managed("sessionend", a)

\* The block that begins at i is whole; it is cut off, for good.
WholeAt(t, i, a) ==
  /\ t[i] = Managed("begin", a) => ForwardAt(t, i, a)
  /\ t[i] = Managed("sessionbegin", a) => SessionAt(t, i, a) \/ NestedAt(t, i, a)
Unended(t, i, a) ==
  /\ t[i] = Managed("begin", a) => \A j \in i..Len(t) : t[j] # Managed("end", a)
  /\ t[i] = Managed("sessionbegin", a) => \A j \in i..Len(t) : t[j] # Managed("sessionend", a)

Clean(t) == \A i \in DOMAIN t, a \in Patterns : WholeAt(t, i, a)
Marked(t) == \A i \in DOMAIN t, a \in Patterns : WholeAt(t, i, a) \/ Unended(t, i, a)
\* A forward is in a block that it does not begin.
Forwards(t) ==
  \A i \in DOMAIN t, a \in Patterns : t[i] = Managed("forward", a) =>
    i > 2 /\ t[i - 1] = Managed("host", a) /\ t[i - 2] = Managed("begin", a)
\* A section that a forward belongs to has no LocalCommand.
Apart(t) ==
  \A i, j \in DOMAIN t : t[i].kind = "localcommand" /\ t[j].kind = "forward" /\ j < i =>
    \E h \in j + 1..i - 1 : t[h].kind = "host"
Ordered(t) ==
  \A i \in DOMAIN t : t[i].kind = "begin" =>
    \A j \in DOMAIN t :
      /\ t[j] = Mine("host", t[i].alias) => i < j
      /\ t[j] = t[i] => i = j
Sound(t) == Marked(t) /\ Forwards(t) /\ Apart(t) /\ Ordered(t)

\* The fields of a line.
LEMMA ManagedFields ==
  ASSUME NEW kind, NEW a
  PROVE  /\ Managed(kind, a).kind = kind /\ Managed(kind, a).alias = a /\ Managed(kind, a).by = "clipport"
         /\ Mine(kind, a).kind = kind /\ Mine(kind, a).alias = a /\ Mine(kind, a).by = "user"
  BY DEF Managed, Mine

\* s is t without the forward blocks of a, and perhaps without blank lines.
DropsForwards(s, t, m, a) ==
  /\ Selects(s, t, m, Len(t))
  /\ \A k \in DOMAIN t : ~Kept(m, Len(s), k) =>
       t[k].kind = "blank" \/ \E j \in DOMAIN t : ForwardAt(t, j, a) /\ k \in j..j + 3
  /\ \A j \in DOMAIN t : ForwardAt(t, j, a) => \A k \in j..j + 3 : ~Kept(m, Len(s), k)

\* What is dropped, by its kind.
LEMMA DroppedLines ==
  ASSUME NEW s \in Seq(Line), NEW t \in Seq(Line), NEW m, NEW a \in Patterns,
         DropsForwards(s, t, m, a), NEW k \in DOMAIN t, ~Kept(m, Len(s), k)
  PROVE  /\ t[k].kind = "blank" \/ (t[k].by = "clipport" /\ t[k].alias = a)
         /\ t[k].kind \in {"blank", "begin", "host", "forward", "end"}
         /\ t[k].kind = "host" => /\ k > 1 /\ ForwardAt(t, k - 1, a)
                                  /\ k + 1 \in DOMAIN t /\ t[k + 1] = Managed("forward", a)
         /\ t[k].kind = "begin" => ForwardAt(t, k, a)
         /\ t[k].kind = "forward" => k > 2 /\ ForwardAt(t, k - 2, a)
         /\ t[k].kind = "end" => k > 3 /\ ForwardAt(t, k - 3, a)
<1>1. CASE t[k].kind = "blank"
  BY <1>1
<1>2. CASE t[k].kind # "blank"
  <2>1. PICK j \in DOMAIN t : ForwardAt(t, j, a) /\ k \in j..j + 3
    BY <1>2 DEF DropsForwards
  <2>2. j \in 1..Len(t) - 3 /\ Len(t) \in Nat /\ DOMAIN t = 1..Len(t)
    BY <2>1 DEF ForwardAt
  <2>3. k = j \/ k = j + 1 \/ k = j + 2 \/ k = j + 3
    BY <2>1, <2>2
  <2>4. CASE k = j
    BY <2>1, <2>4, ManagedFields DEF ForwardAt
  <2>5. CASE k = j + 1
    <3>1. k + 1 = j + 2 /\ k + 1 \in DOMAIN t /\ k - 1 = j /\ k > 1
      BY <2>2, <2>5
    <3>2. t[k] = Managed("host", a) /\ t[k + 1] = Managed("forward", a)
      BY <2>1, <2>5, <3>1 DEF ForwardAt
    <3>3. t[k].kind = "host" /\ t[k].by = "clipport" /\ t[k].alias = a
      BY <3>2, ManagedFields
    <3> QED BY <2>1, <3>1, <3>2, <3>3
  <2>6. CASE k = j + 2
    <3>1. k - 2 = j /\ k > 2
      BY <2>2, <2>6
    <3> QED BY <2>1, <2>6, <3>1, ManagedFields DEF ForwardAt
  <2>7. CASE k = j + 3
    <3>1. k - 3 = j /\ k > 3
      BY <2>2, <2>7
    <3> QED BY <2>1, <2>7, <3>1, ManagedFields DEF ForwardAt
  <2> QED BY <2>3, <2>4, <2>5, <2>6, <2>7
<1> QED BY <1>1, <1>2

\* Nobody loses a line when forward blocks are dropped.
LEMMA DropKeepsUserLines ==
  ASSUME NEW s \in Seq(Line), NEW t \in Seq(Line), NEW m, NEW a \in Patterns, DropsForwards(s, t, m, a)
  PROVE  UserLines(s) = UserLines(t)
<1>1. ASSUME NEW k \in DOMAIN t, Owned(t[k]) PROVE Kept(m, Len(s), k)
  BY <1>1, DroppedLines DEF Owned
<1> QED BY <1>1, UserLinesKeptBySelection DEF DropsForwards

\* Lines that are the same hold the same blocks.
LEMMA SameBlocks ==
  ASSUME NEW s \in Seq(Line), NEW t \in Seq(Line), NEW i, NEW k, NEW b
  PROVE  /\ SameFrom(s, i, t, k, 3) /\ ForwardAt(t, k, b) => ForwardAt(s, i, b)
         /\ SameFrom(s, i, t, k, 3) /\ SessionAt(t, k, b) => SessionAt(s, i, b)
         /\ SameFrom(s, i, t, k, 7) /\ NestedAt(t, k, b) => NestedAt(s, i, b)
<1>1. ASSUME SameFrom(s, i, t, k, 3)
      PROVE  /\ i \in 1..Len(s) - 3 /\ s[i] = t[k] /\ s[i + 1] = t[k + 1]
             /\ s[i + 2] = t[k + 2] /\ s[i + 3] = t[k + 3]
  <2>1. i \in Nat \ {0} /\ k \in Nat \ {0} /\ i + 3 <= Len(s) /\ Len(s) \in Nat
    BY <1>1 DEF SameFrom
  <2>2. s[i + 0] = t[k + 0] /\ s[i + 1] = t[k + 1] /\ s[i + 2] = t[k + 2] /\ s[i + 3] = t[k + 3]
    BY <1>1 DEF SameFrom
  <2>3. i + 0 = i /\ k + 0 = k /\ i \in 1..Len(s) - 3
    BY <2>1
  <2> QED BY <2>2, <2>3
<1>2. ASSUME SameFrom(s, i, t, k, 7)
      PROVE  /\ SameFrom(s, i + 1, t, k + 1, 3) /\ i \in 1..Len(s) - 7 /\ s[i] = t[k]
             /\ s[i + 5] = t[k + 5] /\ s[i + 6] = t[k + 6] /\ s[i + 7] = t[k + 7]
  <2>1. i \in Nat \ {0} /\ k \in Nat \ {0} /\ i + 7 <= Len(s) /\ Len(s) \in Nat
    BY <1>2 DEF SameFrom
  <2>2. s[i + 0] = t[k + 0] /\ s[i + 5] = t[k + 5] /\ s[i + 6] = t[k + 6] /\ s[i + 7] = t[k + 7]
    BY <1>2 DEF SameFrom
  <2>3. i + 0 = i /\ k + 0 = k /\ i \in 1..Len(s) - 7 /\ i + 1 + 3 <= Len(s) /\ i + 1 \in Nat \ {0}
        /\ k + 1 \in Nat \ {0}
    BY <2>1
  <2>4. ASSUME NEW d \in 0..3 PROVE s[i + 1 + d] = t[k + 1 + d]
    <3>1. PICK e : e = 1 + d /\ e \in 0..7 /\ i + 1 + d = i + e /\ k + 1 + d = k + e
      BY <2>1
    <3>2. s[i + e] = t[k + e]
      BY <3>1, <1>2 DEF SameFrom
    <3> QED BY <3>1, <3>2
  <2> QED BY <2>2, <2>3, <2>4 DEF SameFrom
<1>3. SameFrom(s, i, t, k, 3) /\ ForwardAt(t, k, b) => ForwardAt(s, i, b)
  BY <1>1 DEF ForwardAt
<1>4. SameFrom(s, i, t, k, 3) /\ SessionAt(t, k, b) => SessionAt(s, i, b)
  BY <1>1 DEF SessionAt
<1>5. SameFrom(s, i + 1, t, k + 1, 3) /\ ForwardAt(t, k + 1, b) => ForwardAt(s, i + 1, b)
  <2>1. ASSUME SameFrom(s, i + 1, t, k + 1, 3)
        PROVE  /\ i + 1 \in 1..Len(s) - 3 /\ s[i + 1] = t[k + 1] /\ s[i + 1 + 1] = t[k + 1 + 1]
               /\ s[i + 1 + 2] = t[k + 1 + 2] /\ s[i + 1 + 3] = t[k + 1 + 3]
    <3>1. i + 1 \in Nat \ {0} /\ k + 1 \in Nat \ {0} /\ i + 1 + 3 <= Len(s) /\ Len(s) \in Nat
      BY <2>1 DEF SameFrom
    <3>2. /\ s[i + 1 + 0] = t[k + 1 + 0] /\ s[i + 1 + 1] = t[k + 1 + 1]
          /\ s[i + 1 + 2] = t[k + 1 + 2] /\ s[i + 1 + 3] = t[k + 1 + 3]
      BY <2>1 DEF SameFrom
    <3>3. i + 1 + 0 = i + 1 /\ k + 1 + 0 = k + 1 /\ i + 1 \in 1..Len(s) - 3
      BY <3>1
    <3> QED BY <3>2, <3>3
  <2> QED BY <2>1 DEF ForwardAt
<1>6. SameFrom(s, i, t, k, 7) /\ NestedAt(t, k, b) => NestedAt(s, i, b)
  BY <1>2, <1>5 DEF NestedAt
<1> QED BY <1>3, <1>4, <1>6

\* Blocks that are kept are whole after it.
LEMMA BlocksKept ==
  ASSUME NEW s \in Seq(Line), NEW t \in Seq(Line), NEW m, Selects(s, t, m, Len(t)),
         NEW i \in DOMAIN s, NEW b
  PROVE  /\ (\A k \in m[i]..m[i] + 3 : Kept(m, Len(s), k)) =>
              /\ ForwardAt(t, m[i], b) => ForwardAt(s, i, b)
              /\ SessionAt(t, m[i], b) => SessionAt(s, i, b)
         /\ (\A k \in m[i]..m[i] + 7 : Kept(m, Len(s), k)) =>
              (NestedAt(t, m[i], b) => NestedAt(s, i, b))
<1>0. m[i] \in Int
  BY SelectsOrder
<1>1. ASSUME NEW n \in Nat, \A k \in m[i]..m[i] + n : Kept(m, Len(s), k)
      PROVE  SameFrom(s, i, t, m[i], n)
  <2>1. KeptFrom(m, Len(s), m[i], n)
    BY <1>0, <1>1 DEF KeptFrom
  <2> QED BY <2>1, KeptRun, Zenon
<1> QED BY <1>1, SameBlocks

\* Where a block was whole it is, though a forward inside it may be gone.
LEMMA DropWhole ==
  ASSUME NEW s \in Seq(Line), NEW t \in Seq(Line), NEW m, NEW a \in Patterns, DropsForwards(s, t, m, a),
         NEW i \in DOMAIN s, NEW b \in Patterns, WholeAt(t, m[i], b)
  PROVE  WholeAt(s, i, b)
<1>0. Selects(s, t, m, Len(t)) /\ m[i] \in DOMAIN t /\ s[i] = t[m[i]] /\ Kept(m, Len(s), m[i])
      /\ DOMAIN t = 1..Len(t) /\ Len(t) \in Nat /\ DOMAIN s = 1..Len(s) /\ Len(s) \in Nat
  <2>1. Selects(s, t, m, Len(t))
    BY DEF DropsForwards
  <2> QED BY <2>1, SelectsOrder DEF Kept
<1>k. PICK k : k = m[i] /\ k \in 1..Len(t)
  BY <1>0
<1>n. k \in Nat \ {0} /\ Len(t) \in Nat /\ DOMAIN t = 1..Len(t)
  BY <1>0, <1>k
<1>1. CASE s[i] = Managed("begin", b)
  <2>1. ForwardAt(t, k, b)
    BY <1>0, <1>1, <1>k DEF WholeAt
  <2>2. b # a
    <3> SUFFICES ASSUME b = a PROVE FALSE
      OBVIOUS
    <3>1. k \in k..k + 3
      BY <1>k
    <3> QED BY <2>1, <3>1, <1>0, <1>k DEF DropsForwards
  <2>3. ASSUME NEW l \in k..k + 3 PROVE Kept(m, Len(s), l)
    <3>0. k + 3 <= Len(t)
      BY <2>1, <1>n DEF ForwardAt
    <3>1. l \in DOMAIN t /\ (l = k \/ l = k + 1 \/ l = k + 2 \/ l = k + 3)
      BY <3>0, <1>n
    <3>2. t[l].alias = b /\ t[l].kind # "blank"
      BY <2>1, <3>1, ManagedFields DEF ForwardAt
    <3> QED BY <2>2, <3>1, <3>2, DroppedLines
  <2>4. ForwardAt(s, i, b)
    BY <2>1, <2>3, <1>0, <1>k, BlocksKept
  <2> QED BY <1>1, <2>4, ManagedFields DEF WholeAt
<1>2. CASE s[i] = Managed("sessionbegin", b)
  <2>1. SessionAt(t, k, b) \/ NestedAt(t, k, b)
    BY <1>0, <1>2, <1>k DEF WholeAt
  <2>2. CASE SessionAt(t, k, b)
    <3>1. ASSUME NEW l \in k..k + 3 PROVE Kept(m, Len(s), l)
      <4>0. k + 3 <= Len(t)
        BY <2>2, <1>n DEF SessionAt
      <4>1. l \in DOMAIN t /\ (l = k \/ l = k + 1 \/ l = k + 2 \/ l = k + 3)
        BY <4>0, <1>n
      <4>2. l # k + 1 => t[l].kind \in {"sessionbegin", "localcommand", "sessionend"}
        BY <2>2, <4>1, ManagedFields DEF SessionAt
      <4>3. l = k + 1 => t[l].kind = "host" /\ t[l + 1].kind = "localcommand"
        <5>1. l = k + 1 => l + 1 = k + 2
          BY <1>k
        <5> QED BY <2>2, <5>1, ManagedFields DEF SessionAt
      <4> QED BY <4>1, <4>2, <4>3, DroppedLines, ManagedFields
    <3>2. SessionAt(s, i, b)
      BY <2>2, <3>1, <1>0, <1>k, BlocksKept
    <3> QED BY <1>2, <3>2, ManagedFields DEF WholeAt
  <2>3. CASE NestedAt(t, k, b)
    <3>1. k + 7 <= Len(t) /\ ForwardAt(t, k + 1, b)
      BY <2>3, <1>k, <1>0 DEF NestedAt
    <3>2. Kept(m, Len(s), k + 5) /\ Kept(m, Len(s), k + 6) /\ Kept(m, Len(s), k + 7)
      <4>0. k \in 1..Len(t) /\ Len(t) \in Nat /\ k + 7 <= Len(t)
        BY <3>1, <1>k, <1>n
      <4>1. k + 5 \in DOMAIN t /\ k + 6 \in DOMAIN t /\ k + 7 \in DOMAIN t /\ k + 5 + 1 = k + 6
        <5>1. k + 5 \in 1..Len(t) /\ k + 6 \in 1..Len(t) /\ k + 7 \in 1..Len(t) /\ k + 5 + 1 = k + 6
          BY ONLY <4>0, OuterDomain
        <5> QED BY <5>1, <1>n
      <4>2. t[k + 5].kind = "host" /\ t[k + 6].kind = "localcommand" /\ t[k + 7].kind = "sessionend"
        BY <2>3, ManagedFields DEF NestedAt
      <4> QED BY <4>1, <4>2, DroppedLines, ManagedFields
    <3>3. CASE b # a
      <4>1. ASSUME NEW l \in k..k + 7 PROVE Kept(m, Len(s), l)
        <5>1. CASE l \in k + 5..k + 7
          <6>1. l = k + 5 \/ l = k + 6 \/ l = k + 7
            BY <5>1, <1>k
          <6> QED BY <6>1, <3>2
        <5>2. CASE l \in k + 1..k + 4
          <6>0. k + 7 <= Len(t)
            BY <3>1
          <6>1. l \in DOMAIN t /\ (l = k + 1 \/ l = k + 1 + 1 \/ l = k + 1 + 2 \/ l = k + 1 + 3)
            <7>0. k \in 1..Len(t) /\ k \in Int /\ Len(t) \in Nat
              BY <1>0, <1>k
            <7>1. l = k + 1 \/ l = k + 2 \/ l = k + 3 \/ l = k + 4
              BY ONLY <5>2, <7>0, InnerPlaces
            <7>2. k + 1 + 1 = k + 2 /\ k + 1 + 2 = k + 3 /\ k + 1 + 3 = k + 4
              BY <1>k
            <7>3. l \in DOMAIN t
              <8>1. l \in 1..Len(t)
                BY ONLY <5>2, <6>0, <7>0, InnerDomain
              <8> QED BY <8>1, <1>n
            <7> QED BY <7>1, <7>2, <7>3
          <6>2. t[l].alias = b /\ t[l].kind # "blank"
            <7>1. t[l] \in {Managed(kind, b) : kind \in {"begin", "host", "forward", "end"}}
              BY <3>1, <6>1 DEF ForwardAt
            <7> QED BY <7>1, ManagedFields
          <6> QED BY <3>3, <6>1, <6>2, DroppedLines
        <5>3. CASE l = k
          BY <5>3, <1>0, <1>k
        <5>4. l \in k + 5..k + 7 \/ l \in k + 1..k + 4 \/ l = k
          BY <1>k
        <5> QED BY <5>1, <5>2, <5>3, <5>4
      <4>2. NestedAt(s, i, b)
        BY <2>3, <4>1, <1>0, <1>k, BlocksKept
      <4> QED BY <1>2, <4>2, ManagedFields DEF WholeAt
    <3>4. CASE b = a
      <4>1. PICK j \in 1..Len(s) : m[j] = k + 5
        BY <3>2 DEF Kept
      <4>2. i < j /\ j \in DOMAIN s
        <5>1. m[i] < m[j] /\ j \in DOMAIN s
          BY <4>1, <1>k, <1>0
        <5> QED BY <5>1, <1>0, SelectsOrder
      <4>3. j = i + 1
        <5> SUFFICES ASSUME j # i + 1 PROVE FALSE
          OBVIOUS
        <5>1. PICK e : e = i + 1 /\ e \in DOMAIN s /\ i < e /\ e < j
          BY <4>1, <4>2, <1>0
        <5>2. m[e] \in 1..Len(t) /\ m[i] < m[e] /\ m[e] < m[j]
          <6>1. j \in DOMAIN s
            BY <4>1
          <6>2. m[e] \in DOMAIN t
            BY <5>1, <1>0, SelectsOrder
          <6>3. m[i] < m[e]
            BY <5>1, <1>0, SelectsOrder
          <6>4. m[e] < m[j]
            BY <5>1, <6>1, <1>0, SelectsOrder
          <6> QED BY <6>2, <6>3, <6>4, <1>0
        <5>3. m[e] \in k + 1..k + 1 + 3
          BY <5>2, <4>1, <1>k
        <5>4. Kept(m, Len(s), m[e])
          BY <5>1, <1>0 DEF Kept
        <5>5. k + 1 \in DOMAIN t
          BY <3>1, <1>k, <1>0
        <5> QED BY <3>1, <3>4, <5>3, <5>4, <5>5 DEF DropsForwards
      <4>4. KeptFrom(m, Len(s), m[j], 2)
        <5>1. \A d \in 0..2 : m[j] + d = k + 5 \/ m[j] + d = k + 6 \/ m[j] + d = k + 7
          BY <4>1, <1>k
        <5> QED BY <5>1, <3>2 DEF KeptFrom
      <4>5. SameFrom(s, j, t, m[j], 2)
        BY <4>2, <4>4, <1>0, KeptRun, Zenon
      <4>6. s[j] = t[m[j]] /\ j + 2 <= Len(s) /\ s[j + 1] = t[m[j] + 1] /\ s[j + 2] = t[m[j] + 2]
        BY <4>2, <4>5, <1>0, SelectsOrder DEF SameFrom
      <4>7. m[j] + 1 = k + 6 /\ m[j] + 2 = k + 7 /\ j + 1 = i + 2 /\ j + 2 = i + 3 /\ i \in 1..Len(s) - 3
        <5>1. i \in Nat \ {0} /\ Len(s) \in Nat /\ j + 2 <= Len(s)
          BY <1>0, <4>6
        <5> QED BY <5>1, <4>1, <4>3, <1>n
      <4>8. SessionAt(s, i, b)
        BY <1>2, <2>3, <4>1, <4>3, <4>6, <4>7 DEF SessionAt, NestedAt
      <4> QED BY <1>2, <4>8, ManagedFields DEF WholeAt
    <3> QED BY <3>3, <3>4
  <2> QED BY <2>1, <2>2, <2>3
<1> QED BY <1>1, <1>2 DEF WholeAt

\* Dropping forward blocks leaves the other blocks whole or cut off as they were.
LEMMA DropMarked ==
  ASSUME NEW s \in Seq(Line), NEW t \in Seq(Line), NEW m, NEW a \in Patterns, DropsForwards(s, t, m, a)
  PROVE  (Clean(t) => Clean(s)) /\ (Marked(t) => Marked(s))
<1>0. Selects(s, t, m, Len(t)) /\ \A i \in DOMAIN s : m[i] \in DOMAIN t /\ s[i] = t[m[i]]
  BY SelectsOrder DEF DropsForwards
<1>1. ASSUME Clean(t) PROVE Clean(s)
  BY <1>0, <1>1, DropWhole DEF Clean
<1>2. ASSUME NEW i \in DOMAIN s, NEW b \in Patterns, Unended(t, m[i], b) PROVE Unended(s, i, b)
  <2>1. ASSUME NEW j \in i..Len(s) PROVE m[j] \in m[i]..Len(t) /\ s[j] = t[m[j]]
    <3>1. j \in DOMAIN s /\ (i < j \/ i = j) /\ i \in Nat
      OBVIOUS
    <3>2. m[j] \in DOMAIN t /\ s[j] = t[m[j]] /\ (m[i] < m[j] \/ m[i] = m[j]) /\ m[i] \in DOMAIN t
      BY <3>1, <1>0, SelectsOrder
    <3> QED BY <3>2
  <2>2. s[i] = t[m[i]]
    BY <1>0
  <2> QED BY <1>2, <2>1, <2>2 DEF Unended
<1>3. ASSUME Marked(t) PROVE Marked(s)
  BY <1>0, <1>2, <1>3, DropWhole DEF Marked
<1> QED BY <1>1, <1>3

\* What is left of an ordered text is ordered.
LEMMA SelectOrdered ==
  ASSUME NEW s \in Seq(Line), NEW t \in Seq(Line), NEW m, Selects(s, t, m, Len(t)), Ordered(t)
  PROVE  Ordered(s)
<1> SUFFICES ASSUME NEW i \in DOMAIN s, s[i].kind = "begin", NEW j \in DOMAIN s
             PROVE  (s[j] = Mine("host", s[i].alias) => i < j) /\ (s[j] = s[i] => i = j)
  BY DEF Ordered
<1>1. m[i] \in DOMAIN t /\ m[j] \in DOMAIN t /\ s[i] = t[m[i]] /\ s[j] = t[m[j]]
  BY SelectsOrder
<1>2. (s[j] = Mine("host", s[i].alias) => m[i] < m[j]) /\ (s[j] = s[i] => m[i] = m[j])
  BY <1>1 DEF Ordered
<1> QED BY <1>2, SelectsOrder

\* Lines that followed one another do.
LEMMA Neighbours ==
  ASSUME NEW s \in Seq(Line), NEW t \in Seq(Line), NEW m, Selects(s, t, m, Len(t)),
         NEW i \in DOMAIN s, NEW j \in DOMAIN s, m[j] = m[i] + 1
  PROVE  j = i + 1
<1>0. DOMAIN s = 1..Len(s) /\ Len(s) \in Nat /\ m[i] \in 1..Len(t) /\ m[j] \in 1..Len(t) /\ i < j
  <2>1. m[i] \in 1..Len(t) /\ m[j] \in 1..Len(t)
    BY SelectsOrder
  <2>2. m[i] < m[j]
    BY <2>1
  <2> QED BY <2>1, <2>2, SelectsOrder
<1> SUFFICES ASSUME j # i + 1 PROVE FALSE
  OBVIOUS
<1>1. PICK e : e = i + 1 /\ e \in DOMAIN s /\ i < e /\ e < j
  BY <1>0
<1>2. m[e] \in DOMAIN t /\ m[i] < m[e]
  BY <1>1, SelectsOrder
<1>3. m[e] < m[j]
  BY <1>1, SelectsOrder
<1> QED BY <1>0, <1>2, <1>3

\* A forward that is left is still in its block.
LEMMA DropForwards ==
  ASSUME NEW s \in Seq(Line), NEW t \in Seq(Line), NEW m, NEW a \in Patterns, DropsForwards(s, t, m, a),
         Forwards(t)
  PROVE  Forwards(s)
<1> SUFFICES ASSUME NEW i \in DOMAIN s, NEW b \in Patterns, s[i] = Managed("forward", b)
             PROVE  i > 2 /\ s[i - 1] = Managed("host", b) /\ s[i - 2] = Managed("begin", b)
  BY DEF Forwards
<1>0. Selects(s, t, m, Len(t)) /\ m[i] \in 1..Len(t) /\ s[i] = t[m[i]] /\ Kept(m, Len(s), m[i])
      /\ DOMAIN t = 1..Len(t) /\ Len(t) \in Nat /\ DOMAIN s = 1..Len(s) /\ Len(s) \in Nat
  <2>1. Selects(s, t, m, Len(t))
    BY DEF DropsForwards
  <2> QED BY <2>1, SelectsOrder DEF Kept
<1>1. PICK k : k = m[i] /\ k \in 1..Len(t)
  BY <1>0
<1>2. k > 2 /\ t[k - 1] = Managed("host", b) /\ t[k - 2] = Managed("begin", b)
  BY <1>0, <1>1 DEF Forwards
<1>2a. k - 1 \in DOMAIN t /\ k - 2 \in DOMAIN t
  BY <1>0, <1>1, <1>2
<1>3. Kept(m, Len(s), k - 2)
  <2> SUFFICES ASSUME ~Kept(m, Len(s), k - 2) PROVE FALSE
    OBVIOUS
  <2>1. ForwardAt(t, k - 2, a)
    BY <1>2, <1>2a, DroppedLines, ManagedFields
  <2>2. k \in k - 2..k - 2 + 3
    BY <1>1
  <2> QED BY <2>1, <2>2, <1>0, <1>1, <1>2a DEF DropsForwards
<1>4. Kept(m, Len(s), k - 1)
  <2> SUFFICES ASSUME ~Kept(m, Len(s), k - 1) PROVE FALSE
    OBVIOUS
  <2>1. ForwardAt(t, k - 1 - 1, a)
    BY <1>2, <1>2a, DroppedLines, ManagedFields
  <2>2. k - 1 - 1 = k - 2 /\ k \in k - 2..k - 2 + 3
    BY <1>1
  <2> QED BY <2>1, <2>2, <1>0, <1>1, <1>2a DEF DropsForwards
<1>5. PICK g \in DOMAIN s : m[g] = k - 2
  BY <1>0, <1>3 DEF Kept
<1>6. PICK h \in DOMAIN s : m[h] = k - 1
  BY <1>0, <1>4 DEF Kept
<1>7. m[h] = m[g] + 1 /\ m[i] = m[h] + 1
  BY <1>1, <1>5, <1>6
<1>8. h = g + 1 /\ i = h + 1
  BY <1>0, <1>7, Neighbours
<1>9. s[g] = t[k - 2] /\ s[h] = t[k - 1]
  <2>1. s[g] = t[m[g]]
    BY <1>0, <1>5, SelectsOrder
  <2>2. s[h] = t[m[h]]
    BY <1>0, <1>6, SelectsOrder
  <2> QED BY <2>1, <2>2, <1>5, <1>6
<1>10. g \in 1..Len(s) /\ i - 1 = h /\ i - 2 = g /\ i > 2
  BY <1>8, <1>0
<1> QED BY <1>2, <1>9, <1>10

-----------------------------------------------------------------------------
(* Sections and the command ssh runs                                       *)

\* The host line of the section that line i belongs to.
LastHost(t, i, h) == h \in 1..i /\ t[h].kind = "host" /\ \A k \in h + 1..i : t[k].kind # "host"
NoHost(t, i) == \A k \in 1..i : t[k].kind # "host"

\* A line has a last host before it, or none.
LEMMA HostCases ==
  ASSUME NEW t, NEW i \in Nat
  PROVE  NoHost(t, i) \/ \E h : LastHost(t, i, h)
<1> DEFINE S == {n \in Nat : NoHost(t, n) \/ \E h : LastHost(t, n, h)}
<1>1. 0 \in S
  BY DEF NoHost
<1>2. ASSUME NEW n \in Nat, n \in S PROVE n + 1 \in S
  <2>1. CASE t[n + 1].kind = "host"
    <3>1. LastHost(t, n + 1, n + 1)
      BY <2>1 DEF LastHost
    <3> QED BY <3>1
  <2>2. CASE t[n + 1].kind # "host" /\ NoHost(t, n)
    <3>1. NoHost(t, n + 1)
      BY <2>2 DEF NoHost
    <3> QED BY <3>1
  <2>3. CASE t[n + 1].kind # "host" /\ \E h : LastHost(t, n, h)
    <3>1. PICK h : LastHost(t, n, h)
      BY <2>3
    <3>2. LastHost(t, n + 1, h)
      BY <2>3, <3>1 DEF LastHost
    <3> QED BY <3>2
  <2> QED BY <1>2, <2>1, <2>2, <2>3
<1> HIDE DEF S
<1>3. i \in S
  BY <1>1, <1>2, SetInduction
<1> QED BY <1>3 DEF S

\* The section of a line is that of its last host (ssh_config: Host).
LEMMA SectionOf ==
  ASSUME NEW t, NEW i \in Nat
  PROVE  /\ NoHost(t, i) => Section(t, i) = AnyHost
         /\ \A h : LastHost(t, i, h) => Section(t, i) = t[h].alias
<1>1. ASSUME NoHost(t, i) PROVE Section(t, i) = AnyHost
  BY <1>1 DEF NoHost, Section
<1>2. ASSUME NEW h, LastHost(t, i, h) PROVE Section(t, i) = t[h].alias
  <2> DEFINE hosts == {j \in 1..i : t[j].kind = "host"}
             Greatest(j) == \A k \in hosts : k <= j
  <2>1. h \in hosts /\ Greatest(h)
    BY <1>2 DEF LastHost
  <2>2. \A j \in hosts : Greatest(j) => j = h
    BY <2>1
  <2> HIDE DEF Greatest
  <2>3. (CHOOSE j \in hosts : Greatest(j)) = h
    BY <2>1, <2>2
  <2>4. hosts # {}
    BY <2>1
  <2>5. Section(t, i) = IF hosts = {} THEN AnyHost ELSE t[CHOOSE j \in hosts : Greatest(j)].alias
    BY DEF Section, Greatest
  <2> HIDE DEF hosts
  <2> QED BY <2>3, <2>4, <2>5
<1> QED BY <1>1, <1>2

\* Dropping hosts that a forward follows changes the section of no LocalCommand.
LEMMA DropSections ==
  ASSUME NEW s \in Seq(Line), NEW t \in Seq(Line), NEW m, NEW a \in Patterns, DropsForwards(s, t, m, a),
         Apart(t), NEW i \in DOMAIN s, s[i].kind = "localcommand"
  PROVE  /\ Section(s, i) = Section(t, m[i])
         /\ \A h : LastHost(t, m[i], h) => Kept(m, Len(s), h)
<1>0. Selects(s, t, m, Len(t)) /\ m[i] \in 1..Len(t) /\ s[i] = t[m[i]] /\ DOMAIN t = 1..Len(t)
      /\ Len(t) \in Nat /\ DOMAIN s = 1..Len(s) /\ Len(s) \in Nat
  <2>1. Selects(s, t, m, Len(t))
    BY DEF DropsForwards
  <2> QED BY <2>1, SelectsOrder
<1>k. PICK k : k = m[i] /\ k \in 1..Len(t) /\ k \in Nat /\ i \in Nat /\ t[k].kind = "localcommand"
  BY <1>0
<1>1. ASSUME NEW h, LastHost(t, k, h) PROVE Kept(m, Len(s), h)
  <2> SUFFICES ASSUME ~Kept(m, Len(s), h) PROVE FALSE
    OBVIOUS
  <2>1. h \in DOMAIN t /\ h \in 1..k /\ t[h].kind = "host"
    BY <1>1, <1>0, <1>k DEF LastHost
  <2>2. h + 1 \in DOMAIN t /\ t[h + 1] = Managed("forward", a)
    BY <2>1, DroppedLines
  <2>3. t[h + 1].kind = "forward" /\ h + 1 < k
    <3>1. t[h + 1].kind = "forward" /\ h # k /\ h + 1 # k
      BY <2>1, <2>2, <1>k, ManagedFields
    <3> QED BY <2>1, <3>1, <1>k
  <2>4. PICK g \in h + 1 + 1..k - 1 : t[g].kind = "host"
    BY <1>0, <1>k, <2>2, <2>3 DEF Apart
  <2>5. g \in h + 1..k
    BY <2>1, <2>4, <1>k
  <2> QED BY <1>1, <2>4, <2>5 DEF LastHost
<1>2. ASSUME NEW h, LastHost(t, k, h) PROVE Section(s, i) = Section(t, k)
  <2>1. PICK g \in 1..Len(s) : m[g] = h
    BY <1>1, <1>2 DEF Kept
  <2>2. h \in 1..k /\ t[h].kind = "host"
    BY <1>2 DEF LastHost
  <2>3. s[g] = t[h] /\ g <= i
    <3>1. g \in DOMAIN s /\ (m[g] < m[i] \/ m[g] = m[i])
      BY <2>1, <2>2, <1>0, <1>k
    <3>2. s[g] = t[m[g]] /\ (g < i \/ g = i)
      BY <3>1, <1>0, SelectsOrder
    <3> QED BY <3>2, <2>1, <1>k
  <2>4. ASSUME NEW l \in g + 1..i PROVE s[l].kind # "host"
    <3>1. l \in DOMAIN s /\ g \in DOMAIN s /\ g < l /\ (l < i \/ l = i)
      BY <2>1, <2>3, <1>0, <1>k
    <3>2. m[g] < m[l] /\ m[l] \in 1..Len(t) /\ s[l] = t[m[l]]
      BY <3>1, <1>0, SelectsOrder
    <3>3. m[l] < m[i] \/ m[l] = m[i]
      BY <3>1, <1>0, SelectsOrder
    <3>4. m[l] \in h + 1..k
      BY <3>2, <3>3, <2>1, <2>2, <1>k
    <3> QED BY <3>2, <3>4, <1>2 DEF LastHost
  <2>5. LastHost(s, i, g)
    <3>1. g \in 1..i
      BY <2>1, <2>3, <1>k
    <3> QED BY <2>2, <2>3, <2>4, <3>1 DEF LastHost
  <2>6. Section(s, i) = s[g].alias /\ Section(t, k) = t[h].alias
    BY <2>5, <1>2, <1>k, SectionOf
  <2> QED BY <2>3, <2>6
<1>3. ASSUME NoHost(t, k) PROVE Section(s, i) = Section(t, k)
  <2>1. ASSUME NEW l \in 1..i PROVE s[l].kind # "host"
    <3>1. l \in DOMAIN s /\ (l < i \/ l = i)
      BY <1>0, <1>k
    <3>2. m[l] \in 1..Len(t) /\ s[l] = t[m[l]]
      <4>1. m[l] \in DOMAIN t /\ s[l] = t[m[l]]
        <5>1. l \in DOMAIN s /\ Selects(s, t, m, Len(t))
          BY <3>1, <1>0
        <5> QED BY <5>1, SelectsOrder
      <4> QED BY <4>1, <1>0
    <3>3. m[l] < m[i] \/ m[l] = m[i]
      BY <3>1, <1>0, SelectsOrder
    <3>4. m[l] \in 1..k
      BY <3>2, <3>3, <1>k
    <3> QED BY <3>2, <3>4, <1>3 DEF NoHost
  <2>2. NoHost(s, i)
    BY <2>1 DEF NoHost
  <2> QED BY <2>2, <1>3, <1>k, SectionOf
<1>4. Section(s, i) = Section(t, k)
  BY <1>2, <1>3, <1>k, HostCases
<1> QED BY <1>1, <1>4, <1>k

\* No LocalCommand comes into the section of a forward.
LEMMA DropApart ==
  ASSUME NEW s \in Seq(Line), NEW t \in Seq(Line), NEW m, NEW a \in Patterns, DropsForwards(s, t, m, a),
         Apart(t)
  PROVE  Apart(s)
<1> SUFFICES ASSUME NEW i \in DOMAIN s, NEW j \in DOMAIN s, s[i].kind = "localcommand",
                    s[j].kind = "forward", j < i
             PROVE  \E h \in j + 1..i - 1 : s[h].kind = "host"
  BY DEF Apart
<1>0. Selects(s, t, m, Len(t)) /\ DOMAIN s = 1..Len(s) /\ Len(s) \in Nat
  BY DEF DropsForwards
<1>1. m[i] \in 1..Len(t) /\ m[j] \in 1..Len(t) /\ s[i] = t[m[i]] /\ s[j] = t[m[j]] /\ m[j] < m[i]
  BY <1>0, SelectsOrder
<1>2. PICK k, l : k = m[i] /\ l = m[j] /\ k \in DOMAIN t /\ l \in DOMAIN t /\ l < k /\ k \in Nat /\ l \in Nat
  BY <1>1
<1>3. PICK g \in l + 1..k - 1 : t[g].kind = "host"
  BY <1>1, <1>2 DEF Apart
<1>4. ~NoHost(t, k)
  <2>1. g \in 1..k
    BY <1>2, <1>3
  <2> QED BY <2>1, <1>3 DEF NoHost
<1>5. PICK h : LastHost(t, k, h)
  BY <1>2, <1>4, HostCases
<1>6. Kept(m, Len(s), h)
  BY <1>2, <1>5, DropSections
<1>7. PICK e \in 1..Len(s) : m[e] = h
  BY <1>6 DEF Kept
<1>8. h \in 1..k /\ t[h].kind = "host" /\ g <= h
  <2>1. h \in 1..k /\ t[h].kind = "host" /\ ~(g \in h + 1..k)
    BY <1>3, <1>5 DEF LastHost
  <2> QED BY <2>1, <1>3, <1>2
<1>9. h # k
  BY <1>1, <1>2, <1>8
<1>10. m[j] < m[e] /\ m[e] < m[i]
  <2>1. h \in Int /\ l \in Int /\ k \in Int /\ g \in l + 1..k - 1 /\ g <= h /\ h <= k /\ h # k
    BY <1>2, <1>3, <1>8, <1>9
  <2>2. l < h /\ h < k
    BY <2>1
  <2> QED BY <2>2, <1>2, <1>7
<1>11. j < e /\ e < i /\ s[e] = t[h]
  BY <1>0, <1>7, <1>10, SelectsOrder
<1>12. e \in j + 1..i - 1
  BY <1>0, <1>7, <1>11
<1> QED BY <1>8, <1>11, <1>12

\* The command that ssh runs for a host stays what it is.
LEMMA DropHooks ==
  ASSUME NEW s \in Seq(Line), NEW t \in Seq(Line), NEW m, NEW a \in Patterns, DropsForwards(s, t, m, a),
         Apart(t), NEW b
  PROVE  RunsHook(s, b) <=> RunsHook(t, b)
<1>0. Selects(s, t, m, Len(t)) /\ DOMAIN t = 1..Len(t) /\ DOMAIN s = 1..Len(s)
      /\ \A i \in DOMAIN s : m[i] \in DOMAIN t /\ s[i] = t[m[i]]
  <2>1. Selects(s, t, m, Len(t))
    BY DEF DropsForwards
  <2> QED BY <2>1, SelectsOrder
<1>1. \A i \in DOMAIN s : i \in LocalCommands(s, b) <=> m[i] \in LocalCommands(t, b)
  BY <1>0, DropSections DEF LocalCommands
<1>2. \A k \in LocalCommands(t, b) : \E i \in DOMAIN s : m[i] = k /\ i \in LocalCommands(s, b)
  <2> SUFFICES ASSUME NEW k \in LocalCommands(t, b)
               PROVE  \E i \in DOMAIN s : m[i] = k /\ i \in LocalCommands(s, b)
    OBVIOUS
  <2>1. k \in DOMAIN t /\ t[k].kind = "localcommand"
    BY DEF LocalCommands
  <2>2. Kept(m, Len(s), k)
    BY <2>1, DroppedLines
  <2> QED BY <2>2, <1>0, <1>1 DEF Kept
<1>3. \A i \in LocalCommands(s, b) : i \in DOMAIN s /\ m[i] \in LocalCommands(t, b)
  BY <1>1 DEF LocalCommands
<1>4. \A i, j \in DOMAIN s : i <= j <=> m[i] <= m[j]
  <2> SUFFICES ASSUME NEW i \in DOMAIN s, NEW j \in DOMAIN s PROVE i <= j <=> m[i] <= m[j]
    OBVIOUS
  <2>1. (i < j <=> m[i] < m[j]) /\ (i = j <=> m[i] = m[j])
    BY <1>0, SelectsOrder
  <2>2. i \in Int /\ j \in Int /\ m[i] \in Int /\ m[j] \in Int
    BY <1>0
  <2> QED BY <2>1, <2>2
<1>5. ASSUME RunsHook(s, b) PROVE RunsHook(t, b)
  <2>1. PICK i \in LocalCommands(s, b) : s[i] = Managed("localcommand", b)
                /\ \A j \in LocalCommands(s, b) : i <= j
    BY <1>5 DEF RunsHook
  <2>2. m[i] \in LocalCommands(t, b) /\ t[m[i]] = Managed("localcommand", b) /\ i \in DOMAIN s
    BY <2>1, <1>3, <1>0
  <2>3. \A k \in LocalCommands(t, b) : m[i] <= k
    BY <2>1, <2>2, <1>2, <1>4
  <2> QED BY <2>2, <2>3 DEF RunsHook
<1>6. ASSUME RunsHook(t, b) PROVE RunsHook(s, b)
  <2>1. PICK k \in LocalCommands(t, b) : t[k] = Managed("localcommand", b)
                /\ \A l \in LocalCommands(t, b) : k <= l
    BY <1>6 DEF RunsHook
  <2>2. PICK i \in DOMAIN s : m[i] = k /\ i \in LocalCommands(s, b)
    BY <2>1, <1>2
  <2>3. s[i] = Managed("localcommand", b)
    BY <2>1, <2>2, <1>0
  <2>4. \A j \in LocalCommands(s, b) : i <= j
    BY <2>1, <2>2, <1>3, <1>4
  <2> QED BY <2>2, <2>3, <2>4 DEF RunsHook
<1> QED BY <1>5, <1>6

-----------------------------------------------------------------------------
(* RemoveForward and InstallForward                                        *)

\* What WithoutForward keeps is the text without the forward blocks of a.
LEMMA WithoutForwardDrops ==
  ASSUME NEW t \in Seq(Line), Marked(t), NEW a \in Patterns, ~WithoutForward(t, a).inBlock
  PROVE  /\ WithoutForward(t, a).kept \in Seq(Line)
         /\ \E m : DropsForwards(WithoutForward(t, a).kept, t, m, a)
         /\ \A i \in DOMAIN WithoutForward(t, a).kept :
              WithoutForward(t, a).kept[i] # Managed("begin", a)
         /\ ~WithoutForward(t, a).removed => \A i \in DOMAIN t : t[i] # Managed("begin", a)
<1> DEFINE begins == {Managed("begin", a)}
           ends == {Managed("end", a)}
           r == WithoutForward(t, a)
<1>0. Managed("begin", a).kind = "begin" /\ Managed("end", a).kind = "end" /\ begins \cap ends = {}
  BY ManagedFields
<1>1. ScanInv(r, t, begins, ends, Len(t))
  BY <1>0, RemoveBlocksKeeps DEF WithoutForward
<1> HIDE DEF r
<1>2. r.kept \in Seq(Line) /\ ~Open(t, begins, ends, Len(t))
      /\ (r.removed <=> \E k \in 1..Len(t) : t[k] \in begins)
  BY <1>1 DEF ScanInv, ScanState, r
<1>3. PICK m : Selects(r.kept, t, m, Len(t)) /\ KeepsRest(r.kept, t, m, begins, ends, Len(t))
  BY <1>1 DEF ScanInv
<1>n. PICK N : N = Len(t) /\ N \in Nat /\ DOMAIN t = 1..N
  OBVIOUS
\* A block that is open to its end would be open at the end.
<1>4. ASSUME NEW j \in DOMAIN t, t[j] = Managed("begin", a) PROVE ForwardAt(t, j, a)
  <2> SUFFICES ASSUME ~ForwardAt(t, j, a) PROVE FALSE
    OBVIOUS
  <2>1. Unended(t, j, a)
    BY <1>4 DEF Marked, WholeAt
  <2>2. \A k \in j..Len(t) : t[k] \notin ends
    BY <1>4, <2>1 DEF Unended
  <2>3. Open(t, begins, ends, Len(t))
    BY <1>4, <1>n, <2>2 DEF Open
  <2> QED BY <1>2, <2>3
<1>5. ASSUME NEW k \in DOMAIN t
      PROVE  Covered(t, begins, ends, k) <=> \E j \in DOMAIN t : ForwardAt(t, j, a) /\ k \in j..j + 3
  <2>1. ASSUME Covered(t, begins, ends, k) PROVE \E j \in DOMAIN t : ForwardAt(t, j, a) /\ k \in j..j + 3
    <3>1. PICK j \in 1..k : t[j] \in begins /\ \A l \in j..k - 1 : t[l] \notin ends
      BY <2>1 DEF Covered
    <3>2. j \in DOMAIN t /\ j \in Nat /\ k \in Nat /\ j <= k
      BY <3>1, <1>n
    <3>3. ForwardAt(t, j, a)
      BY <3>1, <3>2, <1>4
    <3>4. t[j + 3] \in ends
      BY <3>3 DEF ForwardAt
    <3>5. ~(j + 3 \in j..k - 1)
      BY <3>1, <3>4
    <3>6. k \in j..j + 3
      BY <3>2, <3>5
    <3> QED BY <3>2, <3>3, <3>6
  <2>2. ASSUME NEW j \in DOMAIN t, ForwardAt(t, j, a), k \in j..j + 3 PROVE Covered(t, begins, ends, k)
    <3>1. j \in 1..k /\ t[j] \in begins
      BY <2>2, <1>n DEF ForwardAt
    <3>2. ASSUME NEW l \in j..k - 1 PROVE t[l] \notin ends
      <4>1. l = j \/ l = j + 1 \/ l = j + 2
        BY <2>2, <1>n
      <4>2. t[l].kind # "end"
        BY <2>2, <4>1, ManagedFields DEF ForwardAt
      <4> QED BY <4>2, <1>0
    <3> QED BY <3>1, <3>2 DEF Covered
  <2> QED BY <2>1, <2>2
<1>6. \A k \in DOMAIN t : Covered(t, begins, ends, k) => ~Kept(m, Len(r.kept), k)
  BY <1>3 DEF KeepsRest, Kept
<1>7. \A k \in DOMAIN t : ~Kept(m, Len(r.kept), k) => t[k].kind = "blank" \/ Covered(t, begins, ends, k)
  BY <1>3, <1>n DEF KeepsRest, Kept
<1>8. ASSUME NEW j \in DOMAIN t, ForwardAt(t, j, a), NEW k \in j..j + 3 PROVE ~Kept(m, Len(r.kept), k)
  <2>1. k \in DOMAIN t
    BY <1>8, <1>n DEF ForwardAt
  <2> QED BY <1>5, <1>6, <1>8, <2>1
<1>9. DropsForwards(r.kept, t, m, a)
  BY <1>3, <1>5, <1>7, <1>8 DEF DropsForwards
<1>10. ASSUME NEW i \in DOMAIN r.kept, r.kept[i] = Managed("begin", a) PROVE FALSE
  <2>1. m[i] \in DOMAIN t /\ t[m[i]] = Managed("begin", a) /\ Kept(m, Len(r.kept), m[i])
    BY <1>2, <1>3, <1>10, SelectsOrder DEF Kept
  <2>2. m[i] \in m[i]..m[i] + 3
    BY <2>1, <1>n
  <2> QED BY <2>1, <2>2, <1>4, <1>8
<1>11. ~r.removed => \A i \in DOMAIN t : t[i] # Managed("begin", a)
  BY <1>2, <1>n
<1> QED BY <1>2, <1>9, <1>10, <1>11 DEF r

\* A set of numbers that is not empty has a least one.
LEMMA LeastExists ==
  ASSUME NEW S \in SUBSET Nat, S # {}
  PROVE  \E n \in S : \A k \in S : n <= k
<1> SUFFICES ASSUME \A n \in S : \E k \in S : k < n PROVE FALSE
  OBVIOUS
<1> DEFINE T == {n \in Nat : \A k \in 0..n : k \notin S}
<1>1. 0 \in T
  OBVIOUS
<1>2. ASSUME NEW n \in Nat, n \in T PROVE n + 1 \in T
  <2>1. n + 1 \notin S
    BY <1>2
  <2> QED BY <1>2, <2>1
<1> HIDE DEF T
<1>3. \A n \in Nat : n \in T
  BY <1>1, <1>2, SetInduction
<1>4. \A n \in Nat : n \notin S
  BY <1>3 DEF T
<1> QED BY <1>4

\* t is s with a forward block of a before the first host a of s, at f.
Inserted(s, t, f, a) ==
  /\ f \in 1..Len(s) /\ s[f].kind = "host" /\ s[f].alias = a
  /\ \A i \in 1..f - 1 : ~(s[i].kind = "host" /\ s[i].alias = a)
  /\ Len(t) = Len(s) + 4
  /\ \A i \in 1..f - 1 : t[i] = s[i]
  /\ ForwardAt(t, f, a)
  /\ \A i \in f..Len(s) : t[i + 4] = s[i]

\* The two blocks, line by line.
LEMMA ForwardBlockFacts ==
  ASSUME NEW a \in Patterns
  PROVE  /\ ForwardBlock(a) \in Seq(Line) /\ Len(ForwardBlock(a)) = 4
         /\ SessionBlock(a) \in Seq(Line) /\ Len(SessionBlock(a)) = 4
         /\ ForwardBlock(a)[1] = Managed("begin", a) /\ ForwardBlock(a)[2] = Managed("host", a)
         /\ ForwardBlock(a)[3] = Managed("forward", a) /\ ForwardBlock(a)[4] = Managed("end", a)
         /\ SessionBlock(a)[1] = Managed("sessionbegin", a) /\ SessionBlock(a)[2] = Managed("host", a)
         /\ SessionBlock(a)[3] = Managed("localcommand", a) /\ SessionBlock(a)[4] = Managed("sessionend", a)
<1>1. \A kind \in Kinds : Managed(kind, a) \in Line
  BY DEF Managed, Line
<1>2. {"begin", "host", "forward", "end", "sessionbegin", "localcommand", "sessionend"} \subseteq Kinds
  BY DEF Kinds, UserKinds
<1>3. ForwardBlock(a) \in Seq(Line) /\ SessionBlock(a) \in Seq(Line)
  BY <1>1, <1>2 DEF ForwardBlock, SessionBlock
<1> QED BY <1>3 DEF ForwardBlock, SessionBlock

\* A text after another.
LEMMA Concatenated ==
  ASSUME NEW s \in Seq(Line), NEW b \in Seq(Line)
  PROVE  /\ s \o b \in Seq(Line) /\ Len(s \o b) = Len(s) + Len(b)
         /\ \A i \in 1..Len(s) : (s \o b)[i] = s[i]
         /\ \A i \in 1..Len(b) : (s \o b)[Len(s) + i] = b[i]
<1>1. s \o b \in Seq(Line) /\ Len(s \o b) = Len(s) + Len(b)
  OBVIOUS
<1>2. \A i \in 1..Len(s) + Len(b) : (s \o b)[i] = IF i <= Len(s) THEN s[i] ELSE b[i - Len(s)]
  BY ConcatProperties, Zenon
<1>3. PICK c : c = s \o b
  OBVIOUS
<1>4a. PICK p : p = Len(s) /\ p \in Nat
  OBVIOUS
<1>4b. PICK q : q = Len(b) /\ q \in Nat
  OBVIOUS
<1>4. p = Len(s) /\ q = Len(b) /\ p \in Nat /\ q \in Nat
  BY <1>4a, <1>4b
<1>5. \A i \in 1..p + q : c[i] = IF i <= p THEN s[i] ELSE b[i - p]
  BY <1>2, <1>3, <1>4
<1>6. \A i \in 1..p : c[i] = s[i]
  <2>1. \A i \in 1..p : i \in 1..p + q /\ i <= p
    BY <1>4
  <2> QED BY <1>5, <2>1
<1>7. ASSUME NEW i \in 1..q PROVE c[p + i] = b[i]
  <2>1. PICK e : e = p + i /\ e \in 1..p + q /\ ~(e <= p) /\ e - p = i
    BY <1>4
  <2>2. c[e] = b[e - p]
    BY <1>5, <2>1
  <2> QED BY <2>1, <2>2
<1> QED BY <1>1, <1>3, <1>4, <1>6, <1>7

\* InsertBeforeHost puts the block before the first host of a, or at the end.
LEMMA InsertCases ==
  ASSUME NEW s \in Seq(Line), NEW a \in Patterns
  PROVE  LET t == InsertBeforeHost(s, a, ForwardBlock(a))
         IN /\ t \in Seq(Line)
            /\ \/ \E f : Inserted(s, t, f, a)
               \/ /\ \A i \in DOMAIN s : ~(s[i].kind = "host" /\ s[i].alias = a)
                  /\ t = IF s = <<>> THEN ForwardBlock(a) ELSE Append(s, Blank) \o ForwardBlock(a)
<1> DEFINE t == InsertBeforeHost(s, a, ForwardBlock(a))
           at == {i \in DOMAIN s : s[i].kind = "host" /\ s[i].alias = a}
           Least(i) == \A j \in at : i <= j
<1>0. DOMAIN s = 1..Len(s) /\ Len(s) \in Nat
  OBVIOUS
<1>1. CASE at = {}
  <2>1. t = IF s = <<>> THEN ForwardBlock(a) ELSE Append(s, Blank) \o ForwardBlock(a)
    BY <1>1 DEF InsertBeforeHost
  <2>2. Blank \in Line
    BY DEF Blank, Managed, Line, Kinds, UserKinds, Patterns
  <2>3. t \in Seq(Line)
    BY <2>1, <2>2, ForwardBlockFacts
  <2>4. \A i \in DOMAIN s : ~(s[i].kind = "host" /\ s[i].alias = a)
    BY <1>1
  <2> QED BY <2>1, <2>3, <2>4
<1>2. CASE at # {}
  <2>0. at \in SUBSET Nat
    BY <1>0
  <2>1. \E i \in at : Least(i)
    <3> HIDE DEF at
    <3> QED BY <2>0, <1>2, LeastExists
  <2>2. PICK f : f = CHOOSE i \in at : Least(i)
    OBVIOUS
  <2>3. f \in at /\ Least(f)
    <3> HIDE DEF at, Least
    <3> QED BY <2>1, <2>2
  <2>4. t = SubSeq(s, 1, f - 1) \o ForwardBlock(a) \o SubSeq(s, f, Len(s))
    BY <1>2, <2>2 DEF InsertBeforeHost
  <2>5. f \in 1..Len(s) /\ s[f].kind = "host" /\ s[f].alias = a
        /\ \A i \in 1..f - 1 : ~(s[i].kind = "host" /\ s[i].alias = a)
    BY <2>3, <1>0
  <2>5a. PICK p, n : p = f - 1 /\ p \in Nat /\ n = Len(s) /\ n \in Nat /\ f \in 1..n /\ f = p + 1
    BY <1>0, <2>5
  <2>6. PICK u : u = SubSeq(s, 1, f - 1) /\ u \in Seq(Line) /\ Len(u) = p
                 /\ \A i \in 1..p : u[i] = s[i]
    <3>1. p \in Int /\ \A i \in 1..p : s[i] \in Line
      BY <2>5a
    <3>2. /\ SubSeq(s, 1, p) \in Seq(Line)
          /\ Len(SubSeq(s, 1, p)) = IF 1 <= p THEN p - 1 + 1 ELSE 0
          /\ \A i \in 1..p - 1 + 1 : SubSeq(s, 1, p)[i] = s[1 + i - 1]
      BY <3>1, SubSeqProperties
    <3>3. p - 1 + 1 = p /\ (~(1 <= p) => p = 0) /\ \A i \in 1..p : 1 + i - 1 = i
      BY <2>5a
    <3>4. Len(SubSeq(s, 1, p)) = p /\ \A i \in 1..p : SubSeq(s, 1, p)[i] = s[i]
      BY <3>2, <3>3
    <3> QED BY <2>5a, <3>2, <3>4
  <2>7. PICK v : v = SubSeq(s, f, Len(s)) /\ v \in Seq(Line) /\ Len(v) = n - p
                 /\ \A i \in 1..n - p : v[i] = s[p + i]
    <3>1. f \in Int /\ n \in Int /\ \A i \in f..n : s[i] \in Line
      BY <2>5a
    <3>2. /\ SubSeq(s, f, n) \in Seq(Line)
          /\ Len(SubSeq(s, f, n)) = IF f <= n THEN n - f + 1 ELSE 0
          /\ \A i \in 1..n - f + 1 : SubSeq(s, f, n)[i] = s[f + i - 1]
      BY <3>1, SubSeqProperties
    <3>3. f <= n /\ n - f + 1 = n - p /\ \A i \in 1..n - p : f + i - 1 = p + i
      BY <2>5a
    <3>4. Len(SubSeq(s, f, n)) = n - p /\ \A i \in 1..n - p : SubSeq(s, f, n)[i] = s[p + i]
      BY <3>2, <3>3
    <3> QED BY <2>5a, <3>2, <3>4
  <2>8. PICK b : b = ForwardBlock(a) /\ b \in Seq(Line) /\ Len(b) = 4
                 /\ b[1] = Managed("begin", a) /\ b[2] = Managed("host", a)
                 /\ b[3] = Managed("forward", a) /\ b[4] = Managed("end", a)
    BY ForwardBlockFacts
  <2>8a. PICK w : w = u \o b
    OBVIOUS
  <2>9. /\ w \in Seq(Line) /\ Len(w) = p + 4
        /\ (\A i \in 1..p : w[i] = s[i]) /\ \A i \in 1..4 : w[p + i] = b[i]
    <3>1. /\ u \o b \in Seq(Line) /\ Len(u \o b) = Len(u) + Len(b)
          /\ (\A i \in 1..Len(u) : (u \o b)[i] = u[i])
          /\ \A i \in 1..Len(b) : (u \o b)[Len(u) + i] = b[i]
      BY <2>6, <2>8, Concatenated, Zenon
    <3>2. (\A i \in 1..p : w[i] = u[i]) /\ \A i \in 1..4 : w[p + i] = b[i]
      BY <2>6, <2>8, <2>8a, <3>1
    <3>3. \A i \in 1..p : w[i] = s[i]
      BY <2>6, <3>2
    <3> QED BY <2>6, <2>8, <2>8a, <3>1, <3>2, <3>3
  <2>10. /\ t \in Seq(Line) /\ Len(t) = n + 4
         /\ (\A i \in 1..p + 4 : t[i] = w[i]) /\ \A i \in 1..n - p : t[p + 4 + i] = s[p + i]
    <3>1. t = w \o v
      BY <2>4, <2>6, <2>7, <2>8, <2>8a
    <3> HIDE DEF t
    <3>2. /\ t \in Seq(Line) /\ Len(t) = Len(w) + Len(v)
          /\ (\A i \in 1..Len(w) : t[i] = w[i])
          /\ \A i \in 1..Len(v) : t[Len(w) + i] = v[i]
      <4>1. /\ w \o v \in Seq(Line) /\ Len(w \o v) = Len(w) + Len(v)
            /\ (\A i \in 1..Len(w) : (w \o v)[i] = w[i])
            /\ \A i \in 1..Len(v) : (w \o v)[Len(w) + i] = v[i]
        BY <2>7, <2>9, Concatenated, Zenon
      <4> QED BY <3>1, <4>1
    <3>3. p + 4 + (n - p) = n + 4
      BY <2>5a
    <3> QED BY <2>7, <2>9, <3>2, <3>3
  <2> HIDE DEF t
  <2>12. \A i \in 1..f - 1 : t[i] = s[i]
    <3>1. \A i \in 1..p : i \in 1..p + 4
      BY <2>5a
    <3> QED BY <2>5a, <2>9, <2>10, <3>1
  <2>13. ForwardAt(t, f, a)
    <3>1. /\ t[p + 1] = b[1] /\ t[p + 2] = b[2] /\ t[p + 3] = b[3] /\ t[p + 4] = b[4]
      <4>1. \A i \in 1..4 : p + i \in 1..p + 4
        BY <2>5a
      <4>2. \A i \in 1..4 : t[p + i] = b[i]
        BY <4>1, <2>9, <2>10
      <4> QED BY <4>2
    <3>2. f + 1 = p + 2 /\ f + 2 = p + 3 /\ f + 3 = p + 4 /\ f \in 1..n + 4 - 3
      BY <2>5a
    <3> QED BY <2>5a, <2>8, <2>10, <3>1, <3>2 DEF ForwardAt
  <2>14. ASSUME NEW i \in f..Len(s) PROVE t[i + 4] = s[i]
    <3>1. PICK e : e = i - p /\ e \in 1..n - p /\ p + 4 + e = i + 4 /\ p + e = i
      BY <2>5a
    <3> QED BY <2>10, <3>1
  <2>15. Inserted(s, t, f, a)
    BY <2>5, <2>5a, <2>10, <2>12, <2>13, <2>14 DEF Inserted
  <2> QED BY <2>10, <2>15 DEF t
<1> QED BY <1>1, <1>2

\* Every line of the new text is an old one or one of the block.
LEMMA InsertedLines ==
  ASSUME NEW s \in Seq(Line), NEW t \in Seq(Line), NEW f, NEW a \in Patterns, Inserted(s, t, f, a)
  PROVE  /\ f \in Nat \ {0} /\ f <= Len(s) /\ Len(s) \in Nat /\ Len(t) = Len(s) + 4
         /\ DOMAIN s = 1..Len(s) /\ DOMAIN t = 1..Len(s) + 4
         /\ t[f] = Managed("begin", a) /\ t[f + 1] = Managed("host", a)
         /\ t[f + 2] = Managed("forward", a) /\ t[f + 3] = Managed("end", a)
         /\ s[f].kind = "host" /\ s[f].alias = a
         /\ t[f].kind = "begin" /\ t[f + 1].kind = "host" /\ t[f + 2].kind = "forward" /\ t[f + 3].kind = "end"
         /\ \A k \in {f, f + 1, f + 2, f + 3} : t[k].by = "clipport" /\ t[k].alias = a
         /\ \A k \in DOMAIN t : \/ k < f /\ k \in DOMAIN s /\ t[k] = s[k]
                                \/ k = f \/ k = f + 1 \/ k = f + 2 \/ k = f + 3
                                \/ k - 4 >= f /\ k - 4 \in DOMAIN s /\ t[k] = s[k - 4]
<1>1. /\ f \in 1..Len(s) /\ Len(s) \in Nat /\ Len(t) = Len(s) + 4
      /\ DOMAIN s = 1..Len(s) /\ DOMAIN t = 1..Len(t)
      /\ t[f] = Managed("begin", a) /\ t[f + 1] = Managed("host", a)
      /\ t[f + 2] = Managed("forward", a) /\ t[f + 3] = Managed("end", a)
  BY DEF Inserted, ForwardAt
<1>1a. /\ s[f].kind = "host" /\ s[f].alias = a
       /\ t[f].kind = "begin" /\ t[f + 1].kind = "host" /\ t[f + 2].kind = "forward" /\ t[f + 3].kind = "end"
       /\ \A k \in {f, f + 1, f + 2, f + 3} : t[k].by = "clipport" /\ t[k].alias = a
  <2>1. s[f].kind = "host" /\ s[f].alias = a
    BY DEF Inserted
  <2> QED BY <1>1, <2>1, ManagedFields
<1>2. \A i \in 1..f - 1 : t[i] = s[i]
  BY DEF Inserted
<1>3. \A i \in f..Len(s) : t[i + 4] = s[i]
  BY DEF Inserted
<1>4. ASSUME NEW k \in DOMAIN t
      PROVE  \/ k < f /\ k \in DOMAIN s /\ t[k] = s[k]
             \/ k = f \/ k = f + 1 \/ k = f + 2 \/ k = f + 3
             \/ k - 4 >= f /\ k - 4 \in DOMAIN s /\ t[k] = s[k - 4]
  <2>0. k \in 1..Len(s) + 4
    BY <1>1
  <2>1. CASE k < f
    <3>1. k \in 1..f - 1 /\ k \in DOMAIN s
      BY <1>1, <2>0, <2>1
    <3> QED BY <2>1, <3>1, <1>2
  <2>2. CASE k >= f + 4
    <3>1. PICK e : e = k - 4 /\ e \in f..Len(s) /\ e + 4 = k /\ e >= f /\ e \in DOMAIN s
      BY <1>1, <2>0, <2>2
    <3> QED BY <3>1, <1>3
  <2>3. ~(k < f) /\ ~(k >= f + 4) => k = f \/ k = f + 1 \/ k = f + 2 \/ k = f + 3
    BY <1>1, <2>0
  <2> QED BY <2>1, <2>2, <2>3
<1> QED BY <1>1, <1>1a, <1>4

\* What was there before is what is left when the forward blocks are dropped.
LEMMA InsertedDrops ==
  ASSUME NEW s \in Seq(Line), NEW t \in Seq(Line), NEW f, NEW a \in Patterns, Inserted(s, t, f, a),
         \A i \in DOMAIN s : s[i] # Managed("begin", a)
  PROVE  \E m : DropsForwards(s, t, m, a)
<1>0. /\ f \in Nat \ {0} /\ f <= Len(s) /\ Len(s) \in Nat /\ Len(t) = Len(s) + 4
      /\ DOMAIN s = 1..Len(s) /\ DOMAIN t = 1..Len(s) + 4
  BY InsertedLines
<1>1. PICK m : m = [i \in 1..Len(s) |-> IF i < f THEN i ELSE i + 4]
  OBVIOUS
<1>2. \A i \in 1..Len(s) : m[i] = (IF i < f THEN i ELSE i + 4) /\ m[i] \in 1..Len(t)
  BY <1>0, <1>1
<1>3. \A i \in 1..Len(s) : s[i] = t[m[i]]
  <2> SUFFICES ASSUME NEW i \in 1..Len(s) PROVE s[i] = t[m[i]]
    OBVIOUS
  <2>1. CASE i < f
    <3>1. i \in 1..f - 1
      BY <1>0, <2>1
    <3> QED BY <1>2, <2>1, <3>1 DEF Inserted
  <2>2. CASE ~(i < f)
    <3>1. i \in f..Len(s)
      BY <1>0, <2>2
    <3> QED BY <1>2, <2>2, <3>1 DEF Inserted
  <2> QED BY <2>1, <2>2
<1>4. \A i, j \in 1..Len(s) : i < j => m[i] < m[j]
  BY <1>0, <1>2
<1>5. Selects(s, t, m, Len(t))
  <2>1. m \in [1..Len(s) -> 1..Len(t)]
    BY <1>1, <1>2
  <2> QED BY <2>1, <1>3, <1>4 DEF Selects
<1>6. \A k \in DOMAIN t : Kept(m, Len(s), k) <=> ~(k \in f..f + 3)
  <2> SUFFICES ASSUME NEW k \in DOMAIN t PROVE Kept(m, Len(s), k) <=> ~(k \in f..f + 3)
    OBVIOUS
  <2>1. k \in 1..Len(s) + 4
    BY <1>0
  <2>2. CASE k < f
    <3>1. k \in 1..Len(s) /\ m[k] = k
      BY <1>0, <1>2, <2>1, <2>2
    <3> QED BY <3>1, <2>2, <1>0 DEF Kept
  <2>3. CASE k > f + 3
    <3>1. PICK e : e = k - 4 /\ e \in 1..Len(s) /\ ~(e < f) /\ e + 4 = k
      BY <1>0, <2>1, <2>3
    <3>2. m[e] = k
      BY <1>2, <3>1
    <3> QED BY <3>1, <3>2, <2>3, <1>0 DEF Kept
  <2>4. CASE ~(k < f) /\ ~(k > f + 3)
    <3>1. \A i \in 1..Len(s) : m[i] # k
      BY <1>0, <1>2, <2>4, <2>1
    <3> QED BY <3>1, <2>4, <2>1, <1>0 DEF Kept
  <2> QED BY <2>2, <2>3, <2>4
<1>7. ForwardAt(t, f, a) /\ f \in DOMAIN t
  BY <1>0 DEF Inserted
<1>8. ASSUME NEW j \in DOMAIN t, ForwardAt(t, j, a) PROVE j = f
  <2>1. t[j] = Managed("begin", a) /\ t[j].kind = "begin"
    BY <1>8, ManagedFields DEF ForwardAt
  <2>2. \/ j < f /\ j \in DOMAIN s /\ t[j] = s[j]
        \/ j = f \/ j = f + 1 \/ j = f + 2 \/ j = f + 3
        \/ j - 4 >= f /\ j - 4 \in DOMAIN s /\ t[j] = s[j - 4]
    BY InsertedLines
  <2>3. t[f + 1].kind # "begin" /\ t[f + 2].kind # "begin" /\ t[f + 3].kind # "begin"
    BY <1>7, ManagedFields DEF ForwardAt
  <2> QED BY <2>1, <2>2, <2>3
<1>8a. \A k \in DOMAIN t : ~Kept(m, Len(s), k) =>
         t[k].kind = "blank" \/ \E j \in DOMAIN t : ForwardAt(t, j, a) /\ k \in j..j + 3
  BY <1>6, <1>7
<1>8b. \A j \in DOMAIN t : ForwardAt(t, j, a) => \A k \in j..j + 3 : ~Kept(m, Len(s), k)
  <2> SUFFICES ASSUME NEW k \in f..f + 3 PROVE ~Kept(m, Len(s), k)
    BY <1>8
  <2>1. k \in DOMAIN t
    BY <1>0
  <2> QED BY <1>6, <2>1
<1>9. DropsForwards(s, t, m, a)
  BY <1>5, <1>8a, <1>8b DEF DropsForwards
<1> QED BY <1>9

\* Where a run of lines that the block does not split goes.
LEMMA InsertedRun ==
  ASSUME NEW s \in Seq(Line), NEW t \in Seq(Line), NEW f, NEW a \in Patterns, Inserted(s, t, f, a),
         NEW i \in DOMAIN s, NEW n \in Nat, i + n <= Len(s)
  PROVE  /\ i + n < f => SameFrom(t, i, s, i, n)
         /\ i >= f => SameFrom(t, i + 4, s, i, n)
<1>0. /\ f \in Nat \ {0} /\ f <= Len(s) /\ Len(s) \in Nat /\ Len(t) = Len(s) + 4 /\ i \in Nat \ {0}
  BY InsertedLines
<1>1. ASSUME i + n < f PROVE SameFrom(t, i, s, i, n)
  <2>1. ASSUME NEW d \in 0..n PROVE t[i + d] = s[i + d]
    <3>1. i + d \in 1..f - 1
      BY <1>0, <1>1
    <3> QED BY <3>1 DEF Inserted
  <2>2. i + n <= Len(t)
    BY <1>0
  <2> QED BY <1>0, <2>1, <2>2 DEF SameFrom
<1>2. ASSUME i >= f PROVE SameFrom(t, i + 4, s, i, n)
  <2>1. ASSUME NEW d \in 0..n PROVE t[i + 4 + d] = s[i + d]
    <3>1. PICK e : e = i + d /\ e \in f..Len(s) /\ e + 4 = i + 4 + d
      BY <1>0, <1>2
    <3> QED BY <3>1 DEF Inserted
  <2>2. i + 4 + n <= Len(t) /\ i + 4 \in Nat \ {0}
    BY <1>0
  <2> QED BY <1>0, <2>1, <2>2 DEF SameFrom
<1> QED BY <1>1, <1>2

\* A block that was whole is, if the new one is not in it or where it may be.
LEMMA InsertWhole ==
  ASSUME NEW s \in Seq(Line), NEW t \in Seq(Line), NEW f, NEW a \in Patterns, Inserted(s, t, f, a),
         \A i \in DOMAIN s : s[i] # Managed("begin", a),
         NEW i \in DOMAIN s, NEW b \in Patterns, WholeAt(s, i, b)
  PROVE  WholeAt(t, IF i < f THEN i ELSE i + 4, b)
<1>0. /\ f \in Nat \ {0} /\ f <= Len(s) /\ Len(s) \in Nat /\ Len(t) = Len(s) + 4 /\ i \in Nat \ {0}
      /\ DOMAIN s = 1..Len(s) /\ i <= Len(s) /\ s[f].kind = "host" /\ s[f].alias = a
      /\ ForwardAt(t, f, a)
  BY InsertedLines DEF Inserted
<1>1. PICK k : k = (IF i < f THEN i ELSE i + 4) /\ k \in Nat
  BY <1>0
<1>2. t[k] = s[i]
  <2>1. CASE i < f
    <3>1. i \in 1..f - 1
      BY <1>0, <2>1
    <3> QED BY <1>1, <2>1, <3>1 DEF Inserted
  <2>2. CASE ~(i < f)
    <3>1. i \in f..Len(s)
      BY <1>0, <2>2
    <3> QED BY <1>1, <2>2, <3>1 DEF Inserted
  <2> QED BY <2>1, <2>2
\* A block of n + 1 lines that f does not split.
<1>3. ASSUME NEW n \in Nat, i + n <= Len(s), ~(f \in i + 1..i + n)
      PROVE  SameFrom(t, k, s, i, n)
  <2>1. CASE i < f
    <3>1. i + n < f
      BY <1>0, <1>3, <2>1
    <3> QED BY <1>1, <2>1, <3>1, <1>3, InsertedRun
  <2>2. CASE ~(i < f)
    <3>1. i >= f
      BY <1>0, <2>2
    <3> QED BY <1>1, <2>2, <3>1, <1>3, InsertedRun
  <2> QED BY <2>1, <2>2
<1>4. CASE s[i] = Managed("begin", b)
  <2>1. ForwardAt(s, i, b) /\ b # a
    BY <1>4 DEF WholeAt
  <2>2. i + 3 <= Len(s)
    BY <2>1, <1>0 DEF ForwardAt
  <2>3. ~(f \in i + 1..i + 3)
    <3> SUFFICES ASSUME f \in i + 1..i + 3 PROVE FALSE
      OBVIOUS
    <3>1. f = i + 1 \/ f = i + 2 \/ f = i + 3
      BY <1>0
    <3>2. s[f].alias = b
      BY <2>1, <3>1, ManagedFields DEF ForwardAt
    <3> QED BY <2>1, <3>2, <1>0
  <2>4. ForwardAt(t, k, b)
    BY <2>1, <2>2, <2>3, <1>3, SameBlocks
  <2> QED BY <1>1, <1>2, <1>4, <2>4, ManagedFields DEF WholeAt
<1>5. CASE s[i] = Managed("sessionbegin", b)
  <2>0. SessionAt(s, i, b) \/ NestedAt(s, i, b)
    BY <1>5 DEF WholeAt
  <2>1. CASE SessionAt(s, i, b)
    <3>1. i + 3 <= Len(s)
      BY <2>1, <1>0 DEF SessionAt
    <3>2. CASE ~(f \in i + 1..i + 3)
      <4>1. SessionAt(t, k, b)
        BY <2>1, <3>1, <3>2, <1>3, SameBlocks
      <4> QED BY <1>1, <1>2, <1>5, <4>1, ManagedFields DEF WholeAt
    <3>3. CASE f \in i + 1..i + 3
      <4>1. f = i + 1 \/ f = i + 2 \/ f = i + 3
        BY <3>3, <1>0
      <4>2. f = i + 1 /\ b = a /\ s[f] = Managed("host", a)
        BY <4>1, <2>1, <1>0, ManagedFields DEF SessionAt
      <4>3. k = i /\ i \in 1..Len(t) - 7 /\ f + 4 = i + 5 /\ f + 1 \in f..Len(s) /\ f + 2 \in f..Len(s)
            /\ f + 1 + 4 = i + 6 /\ f + 2 + 4 = i + 7 /\ f \in f..Len(s) /\ f + 1 = i + 2 /\ f + 2 = i + 3
        BY <4>2, <3>1, <1>0, <1>1
      <4>4. t[f + 4] = s[f] /\ t[f + 1 + 4] = s[f + 1] /\ t[f + 2 + 4] = s[f + 2]
        BY <4>3 DEF Inserted
      <4>5. NestedAt(t, k, b)
        BY <1>0, <1>2, <1>5, <2>1, <4>2, <4>3, <4>4 DEF NestedAt, SessionAt
      <4> QED BY <1>1, <1>2, <1>5, <4>5, ManagedFields DEF WholeAt
    <3> QED BY <3>2, <3>3
  <2>2. CASE NestedAt(s, i, b)
    <3>1. i + 7 <= Len(s) /\ ForwardAt(s, i + 1, b) /\ i + 1 \in DOMAIN s
      BY <2>2, <1>0 DEF NestedAt
    <3>2. b # a
      BY <3>1 DEF ForwardAt
    <3>3. ~(f \in i + 1..i + 7)
      <4> SUFFICES ASSUME f \in i + 1..i + 7 PROVE FALSE
        OBVIOUS
      <4>1. f = i + 1 \/ f = i + 1 + 1 \/ f = i + 1 + 2 \/ f = i + 1 + 3
            \/ f = i + 5 \/ f = i + 6 \/ f = i + 7
        <5>1. i \in Int /\ f \in i..i + 7 /\ f # i
          BY <1>0
        <5> QED BY <5>1, PlacesOn, NextPlaces
      <4>1a. /\ s[i + 1].alias = b /\ s[i + 1 + 1].alias = b /\ s[i + 1 + 2].alias = b
             /\ s[i + 1 + 3].alias = b
        BY <3>1, ManagedFields DEF ForwardAt
      <4>1b. s[i + 5].alias = b /\ s[i + 6].alias = b /\ s[i + 7].alias = b
        BY <2>2, ManagedFields DEF NestedAt
      <4>2. s[f].alias = b
        BY <4>1, <4>1a, <4>1b
      <4> QED BY <3>2, <4>2, <1>0
    <3>4. NestedAt(t, k, b)
      BY <2>2, <3>1, <3>3, <1>3, SameBlocks
    <3> QED BY <1>1, <1>2, <1>5, <3>4, ManagedFields DEF WholeAt
  <2> QED BY <2>0, <2>1, <2>2
<1> QED BY <1>1, <1>2, <1>4, <1>5 DEF WholeAt

\* No block is broken by the new one.
LEMMA InsertMarked ==
  ASSUME NEW s \in Seq(Line), NEW t \in Seq(Line), NEW f, NEW a \in Patterns, Inserted(s, t, f, a),
         \A i \in DOMAIN s : s[i] # Managed("begin", a)
  PROVE  (Clean(s) => Clean(t)) /\ (Marked(s) => Marked(t))
<1>0. /\ f \in Nat \ {0} /\ f <= Len(s) /\ Len(s) \in Nat /\ Len(t) = Len(s) + 4
      /\ DOMAIN s = 1..Len(s) /\ DOMAIN t = 1..Len(s) + 4 /\ ForwardAt(t, f, a)
  BY InsertedLines DEF Inserted
<1>1. ASSUME NEW i \in DOMAIN s, NEW b \in Patterns, Unended(s, i, b),
             NEW k, k = IF i < f THEN i ELSE i + 4, t[k] = s[i]
      PROVE  Unended(t, k, b)
  <2>1. ASSUME t[k] = Managed("begin", b), NEW j \in k..Len(t), t[j] = Managed("end", b) PROVE FALSE
    <3>1. b # a
      BY <1>1, <2>1
    <3>2. j \in DOMAIN t /\ \A l \in i..Len(s) : s[l] # Managed("end", b)
      BY <1>0, <1>1, <2>1 DEF Unended
    <3>3. t[j].alias = b
      BY <2>1, ManagedFields
    <3>4. ~(j = f \/ j = f + 1 \/ j = f + 2 \/ j = f + 3)
      BY <1>0, <3>1, <3>3, ManagedFields DEF ForwardAt
    <3>5. \/ j < f /\ j \in DOMAIN s /\ t[j] = s[j]
          \/ j - 4 >= f /\ j - 4 \in DOMAIN s /\ t[j] = s[j - 4]
      BY <3>2, <3>4, InsertedLines
    <3>6. CASE j < f /\ j \in DOMAIN s /\ t[j] = s[j]
      <4>1. j \in i..Len(s)
        BY <1>0, <1>1, <3>6
      <4> QED BY <2>1, <3>2, <3>6, <4>1
    <3>7. CASE j - 4 >= f /\ j - 4 \in DOMAIN s /\ t[j] = s[j - 4]
      <4>1. j - 4 \in i..Len(s)
        BY <1>0, <1>1, <3>7
      <4> QED BY <2>1, <3>2, <3>7, <4>1
    <3> QED BY <3>5, <3>6, <3>7
  <2>2. ASSUME t[k] = Managed("sessionbegin", b), NEW j \in k..Len(t), t[j] = Managed("sessionend", b)
        PROVE  FALSE
    <3>2. j \in DOMAIN t /\ \A l \in i..Len(s) : s[l] # Managed("sessionend", b)
      BY <1>0, <1>1, <2>2 DEF Unended
    <3>3. t[j].kind = "sessionend"
      BY <2>2, ManagedFields
    <3>4. ~(j = f \/ j = f + 1 \/ j = f + 2 \/ j = f + 3)
      BY <1>0, <3>3, ManagedFields DEF ForwardAt
    <3>5. \/ j < f /\ j \in DOMAIN s /\ t[j] = s[j]
          \/ j - 4 >= f /\ j - 4 \in DOMAIN s /\ t[j] = s[j - 4]
      BY <3>2, <3>4, InsertedLines
    <3>6. CASE j < f /\ j \in DOMAIN s /\ t[j] = s[j]
      <4>1. j \in i..Len(s)
        BY <1>0, <1>1, <3>6
      <4> QED BY <2>2, <3>2, <3>6, <4>1
    <3>7. CASE j - 4 >= f /\ j - 4 \in DOMAIN s /\ t[j] = s[j - 4]
      <4>1. j - 4 \in i..Len(s)
        BY <1>0, <1>1, <3>7
      <4> QED BY <2>2, <3>2, <3>7, <4>1
    <3> QED BY <3>5, <3>6, <3>7
  <2> QED BY <2>1, <2>2 DEF Unended
\* Every block of t is one of s or the new one.
<1>2. ASSUME NEW k \in DOMAIN t, NEW b \in Patterns
      PROVE  \/ WholeAt(t, k, b)
             \/ \E i \in DOMAIN s : k = (IF i < f THEN i ELSE i + 4) /\ t[k] = s[i]
  <2>1. CASE k = f
    <3>1. t[k] = Managed("begin", a)
      BY <2>1, InsertedLines
    <3> QED BY <1>0, <2>1, <3>1, ManagedFields DEF WholeAt
  <2>2. CASE k = f + 1 \/ k = f + 2 \/ k = f + 3
    <3>1. t[k].kind \in {"host", "forward", "end"}
      BY <2>2, InsertedLines, ManagedFields
    <3> QED BY <3>1, ManagedFields DEF WholeAt
  <2>3. CASE k < f /\ k \in DOMAIN s /\ t[k] = s[k]
    BY <2>3
  <2>4. CASE k - 4 >= f /\ k - 4 \in DOMAIN s /\ t[k] = s[k - 4]
    <3>1. ~(k - 4 < f) /\ k - 4 + 4 = k
      BY <1>0, <2>4
    <3> QED BY <2>4, <3>1
  <2> QED BY <2>1, <2>2, <2>3, <2>4, InsertedLines
<1>3. ASSUME Clean(s) PROVE Clean(t)
  <2> SUFFICES ASSUME NEW k \in DOMAIN t, NEW b \in Patterns PROVE WholeAt(t, k, b)
    BY DEF Clean
  <2>1. ASSUME NEW i \in DOMAIN s, k = IF i < f THEN i ELSE i + 4 PROVE WholeAt(t, k, b)
    <3>1. WholeAt(s, i, b)
      BY <1>3 DEF Clean
    <3> QED BY <2>1, <3>1, InsertWhole
  <2> QED BY <1>2, <2>1
<1>4. ASSUME Marked(s) PROVE Marked(t)
  <2> SUFFICES ASSUME NEW k \in DOMAIN t, NEW b \in Patterns PROVE WholeAt(t, k, b) \/ Unended(t, k, b)
    BY DEF Marked
  <2>1. ASSUME NEW i \in DOMAIN s, k = (IF i < f THEN i ELSE i + 4), t[k] = s[i]
        PROVE  WholeAt(t, k, b) \/ Unended(t, k, b)
    <3>1. CASE WholeAt(s, i, b)
      <4>1. WholeAt(t, k, b)
        BY <2>1, <3>1, InsertWhole
      <4> QED BY <4>1
    <3>2. CASE Unended(s, i, b)
      BY <2>1, <3>2, <1>1
    <3> QED BY <1>4, <3>1, <3>2 DEF Marked
  <2> QED BY <1>2, <2>1
<1> QED BY <1>3, <1>4

\* Every forward is in a block, the new one in its own.
LEMMA InsertForwards ==
  ASSUME NEW s \in Seq(Line), NEW t \in Seq(Line), NEW f, NEW a \in Patterns, Inserted(s, t, f, a),
         \A i \in DOMAIN s : s[i] # Managed("begin", a), Forwards(s)
  PROVE  Forwards(t)
<1> SUFFICES ASSUME NEW k \in DOMAIN t, NEW b \in Patterns, t[k] = Managed("forward", b)
             PROVE  k > 2 /\ t[k - 1] = Managed("host", b) /\ t[k - 2] = Managed("begin", b)
  BY DEF Forwards
<1>0. /\ f \in Nat \ {0} /\ f <= Len(s) /\ Len(s) \in Nat /\ Len(t) = Len(s) + 4
      /\ DOMAIN s = 1..Len(s) /\ DOMAIN t = 1..Len(s) + 4 /\ s[f].kind = "host" /\ s[f].alias = a
      /\ t[f] = Managed("begin", a) /\ t[f + 1] = Managed("host", a)
      /\ t[f + 2] = Managed("forward", a) /\ t[f + 3] = Managed("end", a)
  BY InsertedLines
<1>00. t[k].kind = "forward" /\ t[k].alias = b
  BY ManagedFields
<1>1. CASE k = f \/ k = f + 1 \/ k = f + 3
  BY <1>0, <1>00, <1>1, ManagedFields
<1>2. CASE k = f + 2
  <2>1. k - 1 = f + 1 /\ k - 2 = f /\ k > 2 /\ a = b
    BY <1>0, <1>00, <1>2, ManagedFields
  <2> QED BY <1>0, <2>1
<1>3. CASE k < f /\ k \in DOMAIN s /\ t[k] = s[k]
  <2>1. k > 2 /\ s[k - 1] = Managed("host", b) /\ s[k - 2] = Managed("begin", b)
    BY <1>3 DEF Forwards
  <2>2. k - 1 \in 1..f - 1 /\ k - 2 \in 1..f - 1
    BY <1>0, <1>3, <2>1
  <2> QED BY <2>1, <2>2 DEF Inserted
<1>4. CASE k - 4 >= f /\ k - 4 \in DOMAIN s /\ t[k] = s[k - 4]
  <2>1. PICK e : e = k - 4 /\ e >= f /\ e \in DOMAIN s /\ t[k] = s[e]
    BY <1>4
  <2>2. e > 2 /\ s[e - 1] = Managed("host", b) /\ s[e - 2] = Managed("begin", b)
    BY <2>1 DEF Forwards
  <2>3. e # f /\ e # f + 1
    <3>1. e # f
      BY <1>0, <1>00, <2>1
    <3>2. ASSUME e = f + 1 PROVE FALSE
      <4>1. e - 1 = f /\ e - 2 \in DOMAIN s
        BY <1>0, <2>1, <2>2, <3>2
      <4>2. a = b
        BY <1>0, <2>2, <4>1, ManagedFields
      <4> QED BY <2>2, <4>1, <4>2
    <3> QED BY <3>1, <3>2
  <2>4. e - 1 \in f..Len(s) /\ e - 2 \in f..Len(s) /\ e - 1 + 4 = k - 1 /\ e - 2 + 4 = k - 2 /\ k > 2
    <3>1. PICK n : n = Len(s) /\ n \in Nat
      BY <1>0
    <3>2. f \in Nat /\ e \in 1..n /\ e = k - 4 /\ e >= f /\ e # f /\ e # f + 1 /\ k \in Int
      BY <1>0, <2>1, <2>3, <3>1
    <3>3. e - 1 \in f..n /\ e - 2 \in f..n /\ e - 1 + 4 = k - 1 /\ e - 2 + 4 = k - 2 /\ k > 2
      BY <3>1, <3>2, PlacesBack
    <3> QED BY <3>1, <3>3
  <2>5. t[e - 1 + 4] = s[e - 1] /\ t[e - 2 + 4] = s[e - 2]
    BY <2>4 DEF Inserted
  <2> QED BY <2>2, <2>4, <2>5
<1> QED BY <1>1, <1>2, <1>3, <1>4, InsertedLines

\* The host that the new block stands before keeps its LocalCommands.
LEMMA InsertApart ==
  ASSUME NEW s \in Seq(Line), NEW t \in Seq(Line), NEW f, NEW a \in Patterns, Inserted(s, t, f, a),
         Apart(s)
  PROVE  Apart(t)
<1> SUFFICES ASSUME NEW i \in DOMAIN t, NEW j \in DOMAIN t, t[i].kind = "localcommand",
                    t[j].kind = "forward", j < i
             PROVE  \E h \in j + 1..i - 1 : t[h].kind = "host"
  BY DEF Apart
<1>0. /\ f \in Nat \ {0} /\ f <= Len(s) /\ Len(s) \in Nat /\ Len(t) = Len(s) + 4
      /\ DOMAIN s = 1..Len(s) /\ DOMAIN t = 1..Len(s) + 4 /\ s[f].kind = "host"
      /\ t[f].kind = "begin" /\ t[f + 1].kind = "host"
      /\ t[f + 2].kind = "forward" /\ t[f + 3].kind = "end"
  BY InsertedLines
<1>1. \/ i < f /\ i \in DOMAIN s /\ t[i] = s[i]
      \/ i - 4 >= f /\ i - 4 \in DOMAIN s /\ t[i] = s[i - 4]
  <2>1. i # f /\ i # f + 1 /\ i # f + 2 /\ i # f + 3
    BY <1>0
  <2> QED BY <2>1, InsertedLines
<1>2. \/ j < f /\ j \in DOMAIN s /\ t[j] = s[j]
      \/ j = f + 2
      \/ j - 4 >= f /\ j - 4 \in DOMAIN s /\ t[j] = s[j - 4]
  <2>1. j # f /\ j # f + 1 /\ j # f + 3
    BY <1>0
  <2> QED BY <2>1, InsertedLines
\* A host of s between two lines of s is between them in t.
<1>3. ASSUME NEW x \in DOMAIN s, NEW y \in DOMAIN s, s[x].kind = "localcommand", s[y].kind = "forward",
             y < x, i = (IF x < f THEN x ELSE x + 4), j = (IF y < f THEN y ELSE y + 4)
      PROVE  \E h \in j + 1..i - 1 : t[h].kind = "host"
  <2>1. PICK h \in y + 1..x - 1 : s[h].kind = "host"
    BY <1>3 DEF Apart
  <2>2. h \in 1..Len(s) /\ y < h /\ h < x
    BY <1>0, <1>3, <2>1
  <2>3. CASE h < f
    <3>1. h \in 1..f - 1 /\ h \in j + 1..i - 1
      BY <1>0, <1>3, <2>2, <2>3
    <3>2. t[h] = s[h]
      BY <3>1 DEF Inserted
    <3> QED BY <2>1, <3>1, <3>2
  <2>4. CASE ~(h < f)
    <3>1. h \in f..Len(s) /\ h + 4 \in j + 1..i - 1
      <4>1. h \in f..Len(s)
        BY <1>0, <2>2, <2>4
      <4>2. h + 4 \in j + 1..i - 1
        <5>1. h \in Int /\ f \in Int /\ ~(h < f) /\ y < h /\ h < x /\ x \in Int /\ y \in Int
          BY <1>0, <1>3, <2>2, <2>4
        <5>2. i = x + 4
          BY <5>1, <1>3
        <5>3. j <= y + 4 /\ j \in Int /\ i \in Int
          BY <5>1, <5>2, <1>3
        <5> QED BY ONLY <5>1, <5>2, <5>3, MovedBetween, Zenon
      <4> QED BY <4>1, <4>2
    <3>2. t[h + 4] = s[h]
      BY <3>1 DEF Inserted
    <3> QED BY <2>1, <3>1, <3>2
  <2> QED BY <2>3, <2>4
<1>4. CASE j = f + 2
  <2>1. i - 4 >= f /\ i - 4 \in DOMAIN s /\ t[i] = s[i - 4]
    BY <1>0, <1>1, <1>4
  <2>2. i - 4 # f
    BY <1>0, <2>1
  <2>3. f + 4 \in j + 1..i - 1 /\ f \in f..Len(s)
    BY <1>0, <1>4, <2>1, <2>2
  <2>4. t[f + 4] = s[f]
    BY <2>3 DEF Inserted
  <2> QED BY <1>0, <2>3, <2>4
<1>5. CASE j # f + 2
  <2>1. PICK x : x \in DOMAIN s /\ t[i] = s[x] /\ i = IF x < f THEN x ELSE x + 4
    <3>1. CASE i < f /\ i \in DOMAIN s /\ t[i] = s[i]
      BY <3>1
    <3>2. CASE i - 4 >= f /\ i - 4 \in DOMAIN s /\ t[i] = s[i - 4]
      <4>1. PICK e : e = i - 4 /\ e \in DOMAIN s /\ t[i] = s[e] /\ ~(e < f) /\ i = e + 4
        BY <1>0, <3>2
      <4> QED BY <4>1
    <3> QED BY <1>1, <3>1, <3>2
  <2>2. PICK y : y \in DOMAIN s /\ t[j] = s[y] /\ j = IF y < f THEN y ELSE y + 4
    <3>1. CASE j < f /\ j \in DOMAIN s /\ t[j] = s[j]
      BY <3>1
    <3>2. CASE j - 4 >= f /\ j - 4 \in DOMAIN s /\ t[j] = s[j - 4]
      <4>1. PICK e : e = j - 4 /\ e \in DOMAIN s /\ t[j] = s[e] /\ ~(e < f) /\ j = e + 4
        BY <1>0, <3>2
      <4> QED BY <4>1
    <3> QED BY <1>2, <1>5, <3>1, <3>2
  <2>3. y < x
    BY <1>0, <2>1, <2>2
  <2> QED BY <1>3, <2>1, <2>2, <2>3
<1> QED BY <1>4, <1>5

\* The forward that is put before the first host is before every host.
LEMMA InsertOrdered ==
  ASSUME NEW s \in Seq(Line), NEW t \in Seq(Line), NEW f, NEW a \in Patterns, Inserted(s, t, f, a),
         \A i \in DOMAIN s : s[i] # Managed("begin", a), Ordered(s)
  PROVE  Ordered(t)
<1> SUFFICES ASSUME NEW i \in DOMAIN t, t[i].kind = "begin", NEW j \in DOMAIN t
             PROVE  (t[j] = Mine("host", t[i].alias) => i < j) /\ (t[j] = t[i] => i = j)
  BY DEF Ordered
<1>0. /\ f \in Nat \ {0} /\ f <= Len(s) /\ Len(s) \in Nat /\ Len(t) = Len(s) + 4
      /\ DOMAIN s = 1..Len(s) /\ DOMAIN t = 1..Len(s) + 4
      /\ t[f] = Managed("begin", a) /\ t[f].kind = "begin" /\ t[f].alias = a
      /\ t[f + 1].kind = "host" /\ t[f + 2].kind = "forward" /\ t[f + 3].kind = "end"
      /\ t[f].by = "clipport" /\ t[f + 1].by = "clipport" /\ t[f + 2].by = "clipport"
      /\ t[f + 3].by = "clipport"
  BY InsertedLines
<1>n. f \in Nat /\ i \in Nat /\ j \in Nat
  BY <1>0
<1>1. \/ i < f /\ i \in DOMAIN s /\ t[i] = s[i]
      \/ i = f
      \/ i - 4 >= f /\ i - 4 \in DOMAIN s /\ t[i] = s[i - 4]
  <2>1. i # f + 1 /\ i # f + 2 /\ i # f + 3
    BY <1>0
  <2> QED BY <2>1, InsertedLines
<1>1a. i = f \/ \E x \in DOMAIN s : t[i] = s[x] /\ i = IF x < f THEN x ELSE x + 4
  <2>1. CASE i - 4 >= f /\ i - 4 \in DOMAIN s /\ t[i] = s[i - 4]
    <3>1. PICK e : e = i - 4 /\ e \in DOMAIN s /\ t[i] = s[e] /\ ~(e < f) /\ i = e + 4
      BY <1>n, <2>1
    <3> QED BY <3>1
  <2> QED BY <1>1, <2>1
<1>2. ASSUME j \notin {f, f + 1, f + 2, f + 3}
      PROVE  \E y \in DOMAIN s : t[j] = s[y] /\ j = IF y < f THEN y ELSE y + 4
  <2>1. CASE j - 4 >= f /\ j - 4 \in DOMAIN s /\ t[j] = s[j - 4]
    <3>1. PICK e : e = j - 4 /\ e \in DOMAIN s /\ t[j] = s[e] /\ ~(e < f) /\ j = e + 4
      BY <1>n, <2>1
    <3> QED BY <3>1
  <2> QED BY <1>2, <2>1, InsertedLines
<1>3. CASE i = f
  <2>1. ASSUME t[j] = Mine("host", t[i].alias) PROVE i < j
    <3>1. t[j].kind = "host" /\ t[j].alias = a /\ t[j].by = "user"
      BY <1>0, <1>3, <2>1, ManagedFields
    <3>2. j # f /\ j # f + 1 /\ j # f + 2 /\ j # f + 3
      BY <1>0, <3>1
    <3>3. PICK y \in DOMAIN s : t[j] = s[y] /\ j = IF y < f THEN y ELSE y + 4
      BY <1>2, <3>2
    <3>4. ~(y \in 1..f - 1)
      BY <3>1, <3>3 DEF Inserted
    <3> QED BY <1>0, <1>3, <3>3, <3>4
  <2>2. ASSUME t[j] = t[i] PROVE i = j
    <3> SUFFICES ASSUME j # f PROVE FALSE
      BY <1>3
    <3>1. j # f + 1 /\ j # f + 2 /\ j # f + 3 /\ t[j] = Managed("begin", a)
      BY <1>0, <1>3, <2>2
    <3>2. PICK y \in DOMAIN s : t[j] = s[y]
      BY <1>2, <3>1
    <3> QED BY <3>1, <3>2
  <2> QED BY <2>1, <2>2
<1>4. CASE i # f
  <2>1. PICK x \in DOMAIN s : t[i] = s[x] /\ i = IF x < f THEN x ELSE x + 4
    BY <1>1a, <1>4
  <2>2. CASE j \in {f, f + 1, f + 2, f + 3}
    <3>1. t[j] # Mine("host", t[i].alias)
      BY <1>0, <2>2, ManagedFields
    <3>2. t[j] # t[i]
      <4> SUFFICES ASSUME t[j] = t[i] PROVE FALSE
        OBVIOUS
      <4>1. j = f
        BY <1>0, <2>2
      <4> QED BY <1>0, <2>1, <4>1
    <3> QED BY <3>1, <3>2
  <2>3. CASE j \notin {f, f + 1, f + 2, f + 3}
    <3>1. PICK y \in DOMAIN s : t[j] = s[y] /\ j = IF y < f THEN y ELSE y + 4
      BY <1>2, <2>3
    <3>2. (t[j] = Mine("host", t[i].alias) => x < y) /\ (t[j] = t[i] => x = y)
      BY <2>1, <3>1 DEF Ordered
    <3> QED BY <1>0, <2>1, <3>1, <3>2
  <2> QED BY <2>2, <2>3
<1> QED BY <1>3, <1>4

-----------------------------------------------------------------------------
(* What is appended, and what is left of a text                            *)

\* A LocalCommand of b is in a section of b.
Hosted(b) ==
  \A i \in DOMAIN b : b[i].kind = "localcommand" => \E h \in 1..i - 1 : b[h].kind = "host"
\* The lines of b do not belong to blocks of s, and no forward of b comes late.
Joins(s, b) ==
  /\ Clean(b) /\ Sound(b) /\ Hosted(b)
  /\ \A i \in DOMAIN s, k \in DOMAIN b, c \in Patterns :
       /\ s[i] = Managed("begin", c) => b[k] # Managed("end", c) /\ b[k] # Managed("begin", c)
       /\ s[i] = Managed("sessionbegin", c) => b[k] # Managed("sessionend", c)
       /\ b[k] = Managed("begin", c) => s[i] # Mine("host", c)

\* t is s and then b.
Joined(s, b, t) ==
  /\ t \in Seq(Line) /\ Len(s) \in Nat /\ Len(b) \in Nat /\ Len(t) = Len(s) + Len(b)
  /\ DOMAIN s = 1..Len(s) /\ DOMAIN b = 1..Len(b) /\ DOMAIN t = 1..Len(s) + Len(b)
  /\ \A i \in DOMAIN s : i \in DOMAIN t /\ t[i] = s[i]
  /\ \A k \in DOMAIN b : Len(s) + k \in DOMAIN t /\ t[Len(s) + k] = b[k]
  /\ \A i \in DOMAIN t : i \in DOMAIN s \/ \E k \in DOMAIN b : i = Len(s) + k

\* The lines of two texts one after the other.
LEMMA JoinedLines ==
  ASSUME NEW s \in Seq(Line), NEW b \in Seq(Line)
  PROVE  Joined(s, b, s \o b)
<1>0. PICK t : t = s \o b
  OBVIOUS
<1>1. /\ t \in Seq(Line) /\ Len(s) \in Nat /\ Len(b) \in Nat /\ Len(t) = Len(s) + Len(b)
      /\ \A i \in 1..Len(s) : t[i] = s[i]
      /\ \A k \in 1..Len(b) : t[Len(s) + k] = b[k]
  BY <1>0, Concatenated
<1>2. DOMAIN s = 1..Len(s) /\ DOMAIN b = 1..Len(b) /\ DOMAIN t = 1..Len(s) + Len(b)
  BY <1>1
<1>3. PICK p, q : p = Len(s) /\ q = Len(b) /\ p \in Nat /\ q \in Nat
  BY <1>1
<1>4. /\ \A i \in 1..p : i \in 1..p + q
      /\ \A k \in 1..q : p + k \in 1..p + q
  BY <1>3
<1>5. ASSUME NEW i \in 1..p + q PROVE i \in 1..p \/ \E k \in 1..q : i = p + k
  <2>1. i > p => i - p \in 1..q /\ i = p + (i - p)
    BY <1>3
  <2>2. ~(i > p) => i \in 1..p
    BY <1>3
  <2> QED BY <2>1, <2>2
<1>6. \A i \in DOMAIN s : i \in DOMAIN t /\ t[i] = s[i]
  BY <1>1, <1>2, <1>3, <1>4
<1>7. \A k \in DOMAIN b : Len(s) + k \in DOMAIN t /\ t[Len(s) + k] = b[k]
  <2>1. \A k \in 1..q : p + k \in 1..p + q /\ t[p + k] = b[k]
    BY <1>1, <1>3, <1>4
  <2> QED BY <1>2, <1>3, <2>1
<1>8. \A i \in DOMAIN t : i \in DOMAIN s \/ \E k \in DOMAIN b : i = Len(s) + k
  <2>1. \A i \in 1..p + q : i \in 1..p \/ \E k \in 1..q : i = p + k
    BY <1>5
  <2> QED BY <1>2, <1>3, <2>1
<1>9. Joined(s, b, t)
  BY <1>1, <1>2, <1>6, <1>7, <1>8 DEF Joined
<1> QED BY <1>0, <1>9, Zenon

\* Lines that follow one another in either do so in both together.
LEMMA JoinedRun ==
  ASSUME NEW s \in Seq(Line), NEW b \in Seq(Line), NEW t, Joined(s, b, t), NEW n \in Nat
  PROVE  /\ \A i \in DOMAIN s : i + n <= Len(s) => SameFrom(t, i, s, i, n)
         /\ \A k \in DOMAIN b : k + n <= Len(b) => SameFrom(t, Len(s) + k, b, k, n)
<1>0. /\ Len(s) \in Nat /\ Len(b) \in Nat /\ Len(t) = Len(s) + Len(b)
      /\ DOMAIN s = 1..Len(s) /\ DOMAIN b = 1..Len(b)
      /\ \A i \in DOMAIN s : t[i] = s[i]
      /\ \A k \in DOMAIN b : t[Len(s) + k] = b[k]
  BY DEF Joined
<1>1. ASSUME NEW i \in DOMAIN s, i + n <= Len(s) PROVE SameFrom(t, i, s, i, n)
  <2>1. ASSUME NEW d \in 0..n PROVE t[i + d] = s[i + d]
    <3>1. i + d \in DOMAIN s
      BY <1>0, <1>1
    <3> QED BY <3>1, <1>0
  <2>2. i + n <= Len(t) /\ i \in Nat \ {0}
    BY <1>0, <1>1
  <2> QED BY <2>1, <2>2 DEF SameFrom
<1>2. ASSUME NEW k \in DOMAIN b, k + n <= Len(b) PROVE SameFrom(t, Len(s) + k, b, k, n)
  <2>1. ASSUME NEW d \in 0..n PROVE t[Len(s) + k + d] = b[k + d]
    <3>1. PICK e : e = k + d /\ e \in DOMAIN b /\ Len(s) + e = Len(s) + k + d
      BY <1>0, <1>2
    <3>2. t[Len(s) + e] = b[e]
      BY <3>1, <1>0
    <3> QED BY <3>1, <3>2
  <2>2. Len(s) + k + n <= Len(t) /\ Len(s) + k \in Nat \ {0} /\ k \in Nat \ {0}
    BY <1>0, <1>2
  <2> QED BY <2>1, <2>2 DEF SameFrom
<1> QED BY <1>1, <1>2

\* A block keeps its place in a text that has its lines.
LEMMA SameWhole ==
  ASSUME NEW s \in Seq(Line), NEW t \in Seq(Line), NEW i \in DOMAIN s, NEW k \in DOMAIN t, NEW c,
         WholeAt(s, i, c), t[k] = s[i],
         \A n \in Nat : i + n <= Len(s) => SameFrom(t, k, s, i, n)
  PROVE  WholeAt(t, k, c)
<1>0. DOMAIN s = 1..Len(s) /\ Len(s) \in Nat
  OBVIOUS
<1>1. ASSUME ForwardAt(s, i, c) PROVE ForwardAt(t, k, c)
  <2>1. i + 3 <= Len(s)
    BY <1>0, <1>1 DEF ForwardAt
  <2> QED BY <1>1, <2>1, SameBlocks
<1>2. ASSUME SessionAt(s, i, c) PROVE SessionAt(t, k, c)
  <2>1. i + 3 <= Len(s)
    BY <1>0, <1>2 DEF SessionAt
  <2> QED BY <1>2, <2>1, SameBlocks
<1>3. ASSUME NestedAt(s, i, c) PROVE NestedAt(t, k, c)
  <2>1. i + 7 <= Len(s)
    BY <1>0, <1>3 DEF NestedAt
  <2> QED BY <1>3, <2>1, SameBlocks
<1> QED BY <1>1, <1>2, <1>3 DEF WholeAt

\* Blocks stay whole or cut off.
LEMMA JoinMarked ==
  ASSUME NEW s \in Seq(Line), NEW b \in Seq(Line), NEW t, Joined(s, b, t), Joins(s, b)
  PROVE  (Clean(s) => Clean(t)) /\ (Marked(s) => Marked(t))
<1>0. /\ t \in Seq(Line) /\ Len(s) \in Nat /\ Len(b) \in Nat /\ Len(t) = Len(s) + Len(b)
      /\ DOMAIN s = 1..Len(s) /\ DOMAIN b = 1..Len(b) /\ DOMAIN t = 1..Len(s) + Len(b)
      /\ \A i \in DOMAIN s : i \in DOMAIN t /\ t[i] = s[i]
      /\ \A k \in DOMAIN b : Len(s) + k \in DOMAIN t /\ t[Len(s) + k] = b[k]
      /\ \A i \in DOMAIN t : i \in DOMAIN s \/ \E k \in DOMAIN b : i = Len(s) + k
  BY DEF Joined
<1>1. ASSUME NEW k \in DOMAIN b, NEW c \in Patterns PROVE WholeAt(t, Len(s) + k, c)
  <2>1. WholeAt(b, k, c)
    BY DEF Joins, Clean
  <2>2. \A n \in Nat : k + n <= Len(b) => SameFrom(t, Len(s) + k, b, k, n)
    BY JoinedRun
  <2>3. Len(s) + k \in DOMAIN t /\ t[Len(s) + k] = b[k]
    BY <1>0
  <2> QED BY <1>0, <2>1, <2>2, <2>3, SameWhole
<1>2. ASSUME NEW i \in DOMAIN s, NEW c \in Patterns, WholeAt(s, i, c) PROVE WholeAt(t, i, c)
  <2>1. \A n \in Nat : i + n <= Len(s) => SameFrom(t, i, s, i, n)
    BY JoinedRun
  <2>2. i \in DOMAIN t /\ t[i] = s[i]
    BY <1>0
  <2> QED BY <1>0, <1>2, <2>1, <2>2, SameWhole
<1>3. ASSUME NEW i \in DOMAIN s, NEW c \in Patterns, Unended(s, i, c) PROVE Unended(t, i, c)
  <2>1. ASSUME NEW j \in i..Len(t)
        PROVE  /\ t[i] = Managed("begin", c) => t[j] # Managed("end", c)
               /\ t[i] = Managed("sessionbegin", c) => t[j] # Managed("sessionend", c)
    <3>1. j \in DOMAIN t /\ t[i] = s[i]
      BY <1>0
    <3>2. CASE j \in DOMAIN s
      <4>1. j \in i..Len(s) /\ t[j] = s[j]
        BY <1>0, <3>2
      <4> QED BY <1>3, <3>1, <4>1 DEF Unended
    <3>3. CASE \E k \in DOMAIN b : j = Len(s) + k
      <4>1. PICK k \in DOMAIN b : t[j] = b[k]
        BY <1>0, <3>3
      <4> QED BY <3>1, <4>1 DEF Joins
    <3> QED BY <1>0, <3>1, <3>2, <3>3
  <2> QED BY <2>1 DEF Unended
<1>4. ASSUME Clean(s), NEW i \in DOMAIN t, NEW c \in Patterns PROVE WholeAt(t, i, c)
  BY <1>0, <1>1, <1>2, <1>4 DEF Clean
<1>5. ASSUME Marked(s), NEW i \in DOMAIN t, NEW c \in Patterns PROVE WholeAt(t, i, c) \/ Unended(t, i, c)
  BY <1>0, <1>1, <1>2, <1>3, <1>5 DEF Marked
<1> QED BY <1>4, <1>5 DEF Clean, Marked

\* Forwards stay in their blocks.
LEMMA JoinForwards ==
  ASSUME NEW s \in Seq(Line), NEW b \in Seq(Line), NEW t, Joined(s, b, t), Forwards(s), Forwards(b)
  PROVE  Forwards(t)
<1>0. /\ Len(s) \in Nat /\ Len(b) \in Nat /\ Len(t) = Len(s) + Len(b)
      /\ DOMAIN s = 1..Len(s) /\ DOMAIN b = 1..Len(b)
      /\ \A i \in DOMAIN s : t[i] = s[i]
      /\ \A k \in DOMAIN b : t[Len(s) + k] = b[k]
      /\ \A i \in DOMAIN t : i \in DOMAIN s \/ \E k \in DOMAIN b : i = Len(s) + k
  BY DEF Joined
<1> SUFFICES ASSUME NEW i \in DOMAIN t, NEW c \in Patterns, t[i] = Managed("forward", c)
             PROVE  i > 2 /\ t[i - 1] = Managed("host", c) /\ t[i - 2] = Managed("begin", c)
  BY DEF Forwards
<1>1. CASE i \in DOMAIN s
  <2>1. i > 2 /\ s[i - 1] = Managed("host", c) /\ s[i - 2] = Managed("begin", c)
    BY <1>0, <1>1 DEF Forwards
  <2>2. i - 1 \in DOMAIN s /\ i - 2 \in DOMAIN s
    BY <1>0, <1>1, <2>1
  <2> QED BY <1>0, <2>1, <2>2
<1>2. CASE \E k \in DOMAIN b : i = Len(s) + k
  <2>1. PICK k \in DOMAIN b : i = Len(s) + k
    BY <1>2
  <2>2. k > 2 /\ b[k - 1] = Managed("host", c) /\ b[k - 2] = Managed("begin", c)
    BY <1>0, <2>1 DEF Forwards
  <2>3. k - 1 \in DOMAIN b /\ k - 2 \in DOMAIN b /\ Len(s) + (k - 1) = i - 1 /\ Len(s) + (k - 2) = i - 2 /\ i > 2
    <3>1. k \in 1..Len(b) /\ Len(b) \in Nat /\ k > 2 /\ i = Len(s) + k /\ Len(s) \in Nat /\ DOMAIN b = 1..Len(b)
      BY <1>0, <2>1, <2>2
    <3>2. PICK p : p = Len(s) /\ p \in Nat
      BY <3>1
    <3>3. k - 1 \in 1..Len(b) /\ k - 2 \in 1..Len(b) /\ p + (k - 1) = i - 1 /\ p + (k - 2) = i - 2 /\ i > 2
      BY ONLY <3>1, <3>2, JoinedBack
    <3> QED BY <3>1, <3>2, <3>3
  <2>4. t[Len(s) + (k - 1)] = b[k - 1] /\ t[Len(s) + (k - 2)] = b[k - 2]
    BY <1>0, <2>3
  <2> QED BY <2>2, <2>3, <2>4
<1> QED BY <1>0, <1>1, <1>2

\* A LocalCommand of the second text is in a section of its own.
LEMMA JoinApart ==
  ASSUME NEW s \in Seq(Line), NEW b \in Seq(Line), NEW t, Joined(s, b, t), Apart(s), Apart(b), Hosted(b)
  PROVE  Apart(t)
<1>0. /\ Len(s) \in Nat /\ Len(b) \in Nat /\ Len(t) = Len(s) + Len(b)
      /\ DOMAIN s = 1..Len(s) /\ DOMAIN b = 1..Len(b)
      /\ \A i \in DOMAIN s : t[i] = s[i]
      /\ \A k \in DOMAIN b : t[Len(s) + k] = b[k]
      /\ \A i \in DOMAIN t : i \in DOMAIN s \/ \E k \in DOMAIN b : i = Len(s) + k
  BY DEF Joined
<1>n. PICK p : p = Len(s) /\ p \in Nat
  BY <1>0
<1> SUFFICES ASSUME NEW i \in DOMAIN t, NEW j \in DOMAIN t, t[i].kind = "localcommand",
                    t[j].kind = "forward", j < i
             PROVE  \E h \in j + 1..i - 1 : t[h].kind = "host"
  BY DEF Apart
<1>1. CASE i \in DOMAIN s
  <2>1. j \in DOMAIN s
    BY <1>0, <1>1
  <2>2. PICK h \in j + 1..i - 1 : s[h].kind = "host"
    BY <1>0, <1>1, <2>1 DEF Apart
  <2>3. h \in DOMAIN s
    BY <1>0, <1>1, <2>1, <2>2
  <2> QED BY <1>0, <2>2, <2>3
<1>2. CASE \E k \in DOMAIN b : i = Len(s) + k
  <2>1. PICK k \in DOMAIN b : i = p + k /\ t[i] = b[k]
    BY <1>0, <1>2, <1>n
  <2>2. PICK h \in 1..k - 1 : b[h].kind = "host" /\ j < p + h
    <3>1. CASE j \in DOMAIN s
      <4>1. PICK h \in 1..k - 1 : b[h].kind = "host"
        BY <2>1 DEF Hosted
      <4>2. j < p + h
        BY <3>1, <4>1, <1>0, <1>n
      <4> QED BY <4>1, <4>2
    <3>2. CASE \E l \in DOMAIN b : j = Len(s) + l
      <4>1. PICK l \in DOMAIN b : j = p + l /\ t[j] = b[l]
        BY <1>0, <3>2, <1>n
      <4>2. l < k
        BY <1>0, <1>n, <2>1, <4>1
      <4>3. PICK h \in l + 1..k - 1 : b[h].kind = "host"
        BY <2>1, <4>1, <4>2 DEF Apart
      <4>4. h \in 1..k - 1 /\ j < p + h
        BY <1>0, <1>n, <4>1, <4>3
      <4> QED BY <4>3, <4>4
    <3> QED BY <1>0, <3>1, <3>2
  <2>3. h \in DOMAIN b /\ p + h \in j + 1..i - 1
    <3>1. k \in 1..Len(b) /\ Len(b) \in Nat /\ j \in Nat /\ i = p + k /\ h \in 1..k - 1 /\ j < p + h
      BY <1>0, <2>1, <2>2
    <3> QED BY <1>0, <1>n, <3>1
  <2>4. t[p + h] = b[h]
    BY <1>0, <1>n, <2>3
  <2> QED BY <2>2, <2>3, <2>4
<1> QED BY <1>0, <1>1, <1>2

\* The forwards stay first.
LEMMA JoinOrdered ==
  ASSUME NEW s \in Seq(Line), NEW b \in Seq(Line), NEW t, Joined(s, b, t), Ordered(s), Joins(s, b)
  PROVE  Ordered(t)
<1>0. /\ t \in Seq(Line) /\ Len(s) \in Nat /\ Len(b) \in Nat /\ Len(t) = Len(s) + Len(b)
      /\ DOMAIN s = 1..Len(s) /\ DOMAIN b = 1..Len(b)
      /\ \A i \in DOMAIN s : t[i] = s[i]
      /\ \A k \in DOMAIN b : t[Len(s) + k] = b[k]
      /\ \A i \in DOMAIN t : i \in DOMAIN s \/ \E k \in DOMAIN b : i = Len(s) + k
  BY DEF Joined
<1>n. PICK p : p = Len(s) /\ p \in Nat
  BY <1>0
<1> SUFFICES ASSUME NEW i \in DOMAIN t, t[i].kind = "begin", NEW j \in DOMAIN t
             PROVE  (t[j] = Mine("host", t[i].alias) => i < j) /\ (t[j] = t[i] => i = j)
  BY DEF Ordered
<1>1. PICK c \in Patterns : t[i] = Managed("begin", c) /\ t[i].alias = c
  <2>1. t[i] \in Line /\ "begin" \notin UserKinds
    BY <1>0 DEF UserKinds
  <2> QED BY <2>1, LineForm
<1>2. CASE i \in DOMAIN s
  <2>1. CASE j \in DOMAIN s
    BY <1>0, <1>2, <2>1 DEF Ordered
  <2>2. CASE \E k \in DOMAIN b : j = Len(s) + k
    <3>1. PICK k \in DOMAIN b : j = p + k /\ t[j] = b[k]
      BY <1>0, <2>2, <1>n
    <3>2. i < j
      BY <1>0, <1>n, <1>2, <3>1
    <3>3. t[j] # t[i]
      BY <1>0, <1>1, <1>2, <3>1 DEF Joins
    <3> QED BY <3>2, <3>3
  <2> QED BY <1>0, <2>1, <2>2
<1>3. CASE \E k \in DOMAIN b : i = Len(s) + k
  <2>0. PICK k \in DOMAIN b : i = p + k /\ t[i] = b[k]
    BY <1>0, <1>3, <1>n
  <2>1. CASE j \in DOMAIN s
    <3>1. t[j] = s[j]
      BY <1>0, <2>1
    <3>2. s[j] # Mine("host", c) /\ s[j] # Managed("begin", c)
      BY <1>1, <2>0, <2>1 DEF Joins
    <3> QED BY <1>1, <3>1, <3>2
  <2>2. CASE \E l \in DOMAIN b : j = Len(s) + l
    <3>1. PICK l \in DOMAIN b : j = p + l /\ t[j] = b[l]
      BY <1>0, <2>2, <1>n
    <3>2. (b[l] = Mine("host", b[k].alias) => k < l) /\ (b[l] = b[k] => k = l)
      <4>1. b[k].kind = "begin" /\ Ordered(b)
        BY <2>0 DEF Joins, Sound
      <4> QED BY <4>1 DEF Ordered
    <3> QED BY <1>0, <1>n, <2>0, <3>1, <3>2
  <2> QED BY <1>0, <2>1, <2>2
<1> QED BY <1>0, <1>2, <1>3

\* Sound texts that do not meddle with one another are sound together.
LEMMA JoinSound ==
  ASSUME NEW s \in Seq(Line), NEW b \in Seq(Line), Joins(s, b)
  PROVE  (Sound(s) => Sound(s \o b)) /\ (Clean(s) => Clean(s \o b))
<1>1. PICK t : t = s \o b /\ Joined(s, b, t)
  BY JoinedLines
<1>2. Sound(b) /\ Hosted(b)
  BY DEF Joins
<1>3. Clean(s) => Clean(t)
  BY <1>1, JoinMarked
<1>4. ASSUME Sound(s) PROVE Sound(t)
  BY <1>1, <1>2, <1>4, JoinMarked, JoinForwards, JoinApart, JoinOrdered DEF Sound
<1> QED BY <1>1, <1>3, <1>4

-----------------------------------------------------------------------------
(* Texts without blocks, and what they and the blocks are appended to      *)

\* No line begins a block, and none forwards a port.
Plain(t) == \A i \in DOMAIN t : t[i].kind \notin {"begin", "sessionbegin", "forward"}

\* A text without blocks is sound.
LEMMA PlainSound ==
  ASSUME NEW t \in Seq(Line), Plain(t)
  PROVE  Sound(t) /\ Clean(t)
<1>1. ASSUME NEW i \in DOMAIN t, NEW c
      PROVE  t[i] # Managed("begin", c) /\ t[i] # Managed("sessionbegin", c) /\ t[i] # Managed("forward", c)
  BY ManagedFields DEF Plain
<1>2. Clean(t)
  BY <1>1 DEF Clean, WholeAt
<1>3. Forwards(t)
  BY <1>1 DEF Forwards
<1>4. Apart(t) /\ Ordered(t)
  BY DEF Plain, Apart, Ordered
<1> QED BY <1>2, <1>3, <1>4 DEF Sound, Marked, Clean

\* What the user writes has no block.
LEMMA UserTexts ==
  ASSUME NEW t \in Seq(UserLine)
  PROVE  /\ t \in Seq(Line) /\ Plain(t)
         /\ \A i \in DOMAIN t : t[i].kind \in UserKinds
<1>1. UserLine \subseteq Line
  BY DEF Line
<1>2. t \in Seq(Line)
  BY <1>1
<1>3. \A i \in DOMAIN t : t[i] \in UserLine
  OBVIOUS
<1>4. \A i \in DOMAIN t : t[i].kind \in UserKinds
  BY <1>3 DEF UserLine
<1> QED BY <1>2, <1>4 DEF Plain, UserKinds

\* A text of the user can come after any other.
LEMMA PlainJoins ==
  ASSUME NEW s \in Seq(Line), NEW b \in Seq(Line), Plain(b), Hosted(b),
         \A k \in DOMAIN b : b[k].kind \in UserKinds
  PROVE  Joins(s, b)
<1>1. ASSUME NEW k \in DOMAIN b, NEW c
      PROVE  /\ b[k] # Managed("begin", c) /\ b[k] # Managed("end", c) /\ b[k] # Managed("sessionend", c)
  BY ManagedFields DEF UserKinds
<1> QED BY <1>1, PlainSound DEF Joins

\* The forward of an alias can come after a text that does not name it.
LEMMA ForwardBlockJoins ==
  ASSUME NEW s \in Seq(Line), NEW a \in Patterns,
         \A i \in DOMAIN s : s[i] # Managed("begin", a) /\ s[i] # Mine("host", a)
  PROVE  Joins(s, ForwardBlock(a))
<1>1. PICK b : b = ForwardBlock(a)
  OBVIOUS
<1>2. /\ b \in Seq(Line) /\ Len(b) = 4 /\ DOMAIN b = 1..4
      /\ b[1] = Managed("begin", a) /\ b[2] = Managed("host", a)
      /\ b[3] = Managed("forward", a) /\ b[4] = Managed("end", a)
  BY <1>1, ForwardBlockFacts
<1>3. \A k \in DOMAIN b : k = 1 \/ k = 2 \/ k = 3 \/ k = 4
  BY <1>2
<1>4. /\ b[1].kind = "begin" /\ b[2].kind = "host" /\ b[3].kind = "forward" /\ b[4].kind = "end"
      /\ \A k \in DOMAIN b : b[k].by = "clipport" /\ b[k].alias = a
  BY <1>2, <1>3, ManagedFields
<1>5. ForwardAt(b, 1, a)
  BY <1>2 DEF ForwardAt
<1>6. Clean(b)
  <2> SUFFICES ASSUME NEW i \in DOMAIN b, NEW c \in Patterns PROVE WholeAt(b, i, c)
    BY DEF Clean
  <2>1. b[i] # Managed("sessionbegin", c)
    BY <1>3, <1>4, ManagedFields
  <2>2. b[i] = Managed("begin", c) => i = 1 /\ c = a
    BY <1>3, <1>4, ManagedFields
  <2> QED BY <2>1, <2>2, <1>5 DEF WholeAt
<1>7. Forwards(b)
  <2> SUFFICES ASSUME NEW i \in DOMAIN b, NEW c \in Patterns, b[i] = Managed("forward", c)
               PROVE  i > 2 /\ b[i - 1] = Managed("host", c) /\ b[i - 2] = Managed("begin", c)
    BY DEF Forwards
  <2>1. i = 3 /\ c = a
    BY <1>3, <1>4, ManagedFields
  <2> QED BY <1>2, <2>1
<1>8. \A k \in DOMAIN b : b[k].kind # "localcommand"
  BY <1>3, <1>4
<1>9. Apart(b) /\ Hosted(b)
  BY <1>8 DEF Apart, Hosted
<1>10. Ordered(b)
  <2> SUFFICES ASSUME NEW i \in DOMAIN b, b[i].kind = "begin", NEW j \in DOMAIN b
               PROVE  (b[j] = Mine("host", b[i].alias) => i < j) /\ (b[j] = b[i] => i = j)
    BY DEF Ordered
  <2>1. i = 1
    BY <1>3, <1>4
  <2>2. b[j] # Mine("host", b[i].alias)
    BY <1>4, ManagedFields
  <2>3. b[j] = b[i] => j = 1
    BY <1>3, <1>4, <2>1
  <2> QED BY <2>1, <2>2, <2>3
<1>11. Sound(b)
  BY <1>6, <1>7, <1>9, <1>10 DEF Sound, Marked, Clean
<1>12. ASSUME NEW i \in DOMAIN s, NEW k \in DOMAIN b, NEW c \in Patterns
       PROVE  /\ s[i] = Managed("begin", c) => b[k] # Managed("end", c) /\ b[k] # Managed("begin", c)
              /\ s[i] = Managed("sessionbegin", c) => b[k] # Managed("sessionend", c)
              /\ b[k] = Managed("begin", c) => s[i] # Mine("host", c)
  <2>1. b[k].alias = a /\ b[k].kind # "sessionend"
    BY <1>3, <1>4
  <2> QED BY <2>1, ManagedFields
<1> QED BY <1>1, <1>6, <1>9, <1>11, <1>12 DEF Joins

\* A session block can come after a text that has none for its alias.
LEMMA SessionBlockJoins ==
  ASSUME NEW s \in Seq(Line), NEW a \in Patterns, \A i \in DOMAIN s : s[i] # Managed("sessionbegin", a)
  PROVE  Joins(s, SessionBlock(a))
<1>1. PICK b : b = SessionBlock(a)
  OBVIOUS
<1>2. /\ b \in Seq(Line) /\ Len(b) = 4 /\ DOMAIN b = 1..4
      /\ b[1] = Managed("sessionbegin", a) /\ b[2] = Managed("host", a)
      /\ b[3] = Managed("localcommand", a) /\ b[4] = Managed("sessionend", a)
  BY <1>1, ForwardBlockFacts
<1>3. \A k \in DOMAIN b : k = 1 \/ k = 2 \/ k = 3 \/ k = 4
  BY <1>2
<1>4. /\ b[1].kind = "sessionbegin" /\ b[2].kind = "host" /\ b[3].kind = "localcommand"
      /\ b[4].kind = "sessionend"
      /\ \A k \in DOMAIN b : b[k].by = "clipport" /\ b[k].alias = a
  BY <1>2, <1>3, ManagedFields
<1>5. SessionAt(b, 1, a)
  BY <1>2 DEF SessionAt
<1>6. Clean(b)
  <2> SUFFICES ASSUME NEW i \in DOMAIN b, NEW c \in Patterns PROVE WholeAt(b, i, c)
    BY DEF Clean
  <2>1. b[i] # Managed("begin", c)
    BY <1>3, <1>4, ManagedFields
  <2>2. b[i] = Managed("sessionbegin", c) => i = 1 /\ c = a
    BY <1>3, <1>4, ManagedFields
  <2> QED BY <2>1, <2>2, <1>5 DEF WholeAt
<1>7. \A k \in DOMAIN b : b[k].kind # "forward" /\ b[k].kind # "begin" /\ b[k].kind # "end"
  BY <1>3, <1>4
<1>8. Forwards(b) /\ Apart(b) /\ Ordered(b)
  BY <1>7, ManagedFields DEF Forwards, Apart, Ordered
<1>9. Hosted(b)
  <2> SUFFICES ASSUME NEW i \in DOMAIN b, b[i].kind = "localcommand"
               PROVE  \E h \in 1..i - 1 : b[h].kind = "host"
    BY DEF Hosted
  <2>1. i = 3
    BY <1>3, <1>4
  <2> QED BY <1>4, <2>1
<1>10. Sound(b)
  BY <1>6, <1>8 DEF Sound, Marked, Clean
<1>11. ASSUME NEW i \in DOMAIN s, NEW k \in DOMAIN b, NEW c \in Patterns
       PROVE  /\ s[i] = Managed("begin", c) => b[k] # Managed("end", c) /\ b[k] # Managed("begin", c)
              /\ s[i] = Managed("sessionbegin", c) => b[k] # Managed("sessionend", c)
              /\ b[k] = Managed("begin", c) => s[i] # Mine("host", c)
  <2>1. b[k].alias = a /\ b[k].kind # "begin" /\ b[k].kind # "end"
    BY <1>4, <1>7
  <2> QED BY <2>1, ManagedFields
<1> QED BY <1>1, <1>6, <1>9, <1>10, <1>11 DEF Joins

\* ssh finds the same command first.
LEMMA JoinHooks ==
  ASSUME NEW s \in Seq(Line), NEW b \in Seq(Line), NEW c, RunsHook(s, c)
  PROVE  RunsHook(s \o b, c)
<1>1. PICK t : t = s \o b /\ Joined(s, b, t)
  BY JoinedLines
<1>2. /\ t \in Seq(Line) /\ Len(s) \in Nat /\ DOMAIN s = 1..Len(s) /\ DOMAIN t = 1..Len(s) + Len(b) /\ Len(b) \in Nat
      /\ \A i \in DOMAIN s : i \in DOMAIN t /\ t[i] = s[i]
  BY <1>1 DEF Joined
<1>3. ASSUME NEW i \in DOMAIN s PROVE Section(t, i) = Section(s, i)
  <2>0. i \in 1..Len(s) /\ \A j \in 1..i : j \in DOMAIN s
    BY <1>2
  <2>1. {j \in 1..i : t[j].kind = "host"} = {j \in 1..i : s[j].kind = "host"}
    BY <1>2, <2>0
  <2> DEFINE hosts == {j \in 1..i : s[j].kind = "host"}
             Greatest(j) == \A k \in hosts : k <= j
  <2>2. hosts # {} => (CHOOSE j \in hosts : Greatest(j)) \in DOMAIN s
    <3> SUFFICES ASSUME hosts # {} PROVE (CHOOSE j \in hosts : Greatest(j)) \in DOMAIN s
      OBVIOUS
    <3>1. ~NoHost(s, i)
      BY DEF NoHost
    <3>2. PICK h : LastHost(s, i, h)
      BY <1>2, <3>1, HostCases
    <3>3. h \in hosts /\ Greatest(h)
      BY <3>2 DEF LastHost
    <3>4. \A j \in hosts : j \in DOMAIN s
      BY <2>0
    <3> HIDE DEF hosts, Greatest
    <3> QED BY <3>3, <3>4
  <2>3. Section(s, i) = IF hosts = {} THEN AnyHost ELSE s[CHOOSE j \in hosts : Greatest(j)].alias
    BY DEF Section
  <2>4. Section(t, i) = IF hosts = {} THEN AnyHost ELSE t[CHOOSE j \in hosts : Greatest(j)].alias
    <3> DEFINE others == {j \in 1..i : t[j].kind = "host"}
    <3>1. Section(t, i) = IF others = {} THEN AnyHost
                          ELSE t[CHOOSE j \in others : \A k \in others : k <= j].alias
      BY DEF Section
    <3>2. others = hosts
      BY <2>1
    <3> HIDE DEF others, hosts
    <3> QED BY <3>1, <3>2
  <2> HIDE DEF hosts, Greatest
  <2> QED BY <1>2, <2>2, <2>3, <2>4
<1>4. PICK i \in LocalCommands(s, c) :
        s[i] = Managed("localcommand", c) /\ \A j \in LocalCommands(s, c) : i <= j
  BY DEF RunsHook
<1>5. i \in DOMAIN s /\ i \in LocalCommands(t, c) /\ t[i] = Managed("localcommand", c)
  BY <1>2, <1>3, <1>4 DEF LocalCommands
<1>6. ASSUME NEW j \in LocalCommands(t, c) PROVE i <= j
  <2>1. CASE j \in DOMAIN s
    <3>1. j \in LocalCommands(s, c)
      BY <1>2, <1>3, <2>1 DEF LocalCommands
    <3> QED BY <1>4, <3>1
  <2>2. CASE j \notin DOMAIN s
    <3>1. j \in DOMAIN t
      BY DEF LocalCommands
    <3> QED BY <1>2, <1>5, <2>2, <3>1
  <2> QED BY <2>1, <2>2
<1>7. RunsHook(t, c)
  BY <1>5, <1>6 DEF RunsHook
<1> QED BY <1>1, <1>7

\* Lines that are not the user's add nothing for the user.
LEMMA JoinUserLines ==
  ASSUME NEW s \in Seq(Line), NEW b \in Seq(Line), \A k \in DOMAIN b : ~Owned(b[k])
  PROVE  UserLines(s \o b) = UserLines(s)
<1>1. PICK t : t = s \o b /\ Joined(s, b, t)
  BY JoinedLines
<1>2. /\ t \in Seq(Line) /\ Len(s) \in Nat /\ DOMAIN s = 1..Len(s) /\ DOMAIN t = 1..Len(s) + Len(b)
      /\ Len(t) = Len(s) + Len(b) /\ Len(b) \in Nat
      /\ (\A i \in DOMAIN s : i \in DOMAIN t /\ t[i] = s[i])
      /\ (\A k \in DOMAIN b : t[Len(s) + k] = b[k])
      /\ (\A i \in DOMAIN t : i \in DOMAIN s \/ \E k \in DOMAIN b : i = Len(s) + k)
  BY <1>1 DEF Joined
<1> DEFINE m == [i \in 1..Len(s) |-> i]
<1>3. Selects(s, t, m, Len(t))
  BY <1>2 DEF Selects
<1>4. ASSUME NEW k \in DOMAIN t, Owned(t[k]) PROVE Kept(m, Len(s), k)
  <2>1. k \in DOMAIN s
    BY <1>2, <1>4
  <2> QED BY <1>2, <2>1 DEF Kept
<1> HIDE DEF m
<1>5. UserLines(s) = UserLines(t)
  BY <1>2, <1>3, <1>4, UserLinesKeptBySelection
<1> QED BY <1>1, <1>5

-----------------------------------------------------------------------------
(* A torn write                                                            *)

\* What is cut off stays cut off: the first lines of a sound text are sound.
LEMMA PrefixSound ==
  ASSUME NEW t \in Seq(Line), Sound(t), NEW n \in 0..Len(t)
  PROVE  SubSeq(t, 1, n) \in Seq(Line) /\ Sound(SubSeq(t, 1, n))
<1>0. PICK N : N = Len(t) /\ N \in Nat /\ n \in 0..N /\ DOMAIN t = 1..N
  OBVIOUS
<1>1. PICK u : u = SubSeq(t, 1, n)
  OBVIOUS
<1>2. u \in Seq(Line) /\ Len(u) = n /\ DOMAIN u = 1..n /\ \A i \in 1..n : u[i] = t[i]
  <2>1. n \in Int /\ \A i \in 1..n : t[i] \in Line
    BY <1>0
  <2>2. /\ SubSeq(t, 1, n) \in Seq(Line)
        /\ Len(SubSeq(t, 1, n)) = IF 1 <= n THEN n - 1 + 1 ELSE 0
        /\ \A i \in 1..n - 1 + 1 : SubSeq(t, 1, n)[i] = t[1 + i - 1]
    BY <2>1, SubSeqProperties
  <2>3. n - 1 + 1 = n /\ (~(1 <= n) => n = 0) /\ \A i \in 1..n : 1 + i - 1 = i
    BY <1>0
  <2>4. Len(u) = n /\ \A i \in 1..n : u[i] = t[i]
    BY <1>1, <2>2, <2>3
  <2> QED BY <1>1, <2>2, <2>4
<1>3. \A i \in 1..n : i \in DOMAIN t /\ i \in Nat
  BY <1>0
<1>4. ASSUME NEW i \in DOMAIN u, NEW c \in Patterns PROVE WholeAt(u, i, c) \/ Unended(u, i, c)
  <2>0. i \in 1..n /\ i \in DOMAIN t /\ u[i] = t[i]
    BY <1>2, <1>3, <1>4
  <2>1. ASSUME Unended(t, i, c) PROVE Unended(u, i, c)
    <3>1. \A j \in i..Len(u) : j \in i..Len(t) /\ u[j] = t[j]
      BY <1>0, <1>2, <2>0
    <3> QED BY <2>0, <2>1, <3>1 DEF Unended
  <2>2. ASSUME ForwardAt(t, i, c) PROVE WholeAt(u, i, c) \/ Unended(u, i, c)
    <3>1. t[i].kind = "begin" /\ t[i + 1].kind = "host" /\ t[i + 2].kind = "forward"
      BY <2>2, ManagedFields DEF ForwardAt
    <3>2. u[i] # Managed("sessionbegin", c)
      BY <2>0, <3>1, ManagedFields
    <3>3. CASE i + 3 <= n
      <4>1. i \in 1..Len(u) - 3 /\ i \in 1..n /\ i + 1 \in 1..n /\ i + 2 \in 1..n /\ i + 3 \in 1..n
        BY <1>2, <2>0, <3>3
      <4>2. ForwardAt(u, i, c)
        BY <1>2, <4>1, <2>2 DEF ForwardAt
      <4> QED BY <3>2, <4>2 DEF WholeAt
    <3>4. CASE ~(i + 3 <= n)
      <4>1. ASSUME NEW j \in i..Len(u) PROVE u[j] # Managed("end", c)
        <5>1. (j = i \/ j = i + 1 \/ j = i + 2) /\ j \in 1..n
          BY <1>2, <2>0, <3>4
        <5> QED BY <1>2, <3>1, <5>1, ManagedFields
      <4> QED BY <3>2, <4>1 DEF Unended
    <3> QED BY <3>3, <3>4
  <2>3. ASSUME SessionAt(t, i, c) PROVE WholeAt(u, i, c) \/ Unended(u, i, c)
    <3>1. t[i].kind = "sessionbegin" /\ t[i + 1].kind = "host" /\ t[i + 2].kind = "localcommand"
      BY <2>3, ManagedFields DEF SessionAt
    <3>2. u[i] # Managed("begin", c)
      BY <2>0, <3>1, ManagedFields
    <3>3. CASE i + 3 <= n
      <4>1. i \in 1..Len(u) - 3 /\ i \in 1..n /\ i + 1 \in 1..n /\ i + 2 \in 1..n /\ i + 3 \in 1..n
        BY <1>2, <2>0, <3>3
      <4>2. SessionAt(u, i, c)
        BY <1>2, <4>1, <2>3 DEF SessionAt
      <4> QED BY <3>2, <4>2 DEF WholeAt
    <3>4. CASE ~(i + 3 <= n)
      <4>1. ASSUME NEW j \in i..Len(u) PROVE u[j] # Managed("sessionend", c)
        <5>1. (j = i \/ j = i + 1 \/ j = i + 2) /\ j \in 1..n
          BY <1>2, <2>0, <3>4
        <5> QED BY <1>2, <3>1, <5>1, ManagedFields
      <4> QED BY <3>2, <4>1 DEF Unended
    <3> QED BY <3>3, <3>4
  <2>4. ASSUME NestedAt(t, i, c) PROVE WholeAt(u, i, c) \/ Unended(u, i, c)
    <3>0. i + 1 + 1 = i + 2 /\ i + 1 + 2 = i + 3 /\ i + 1 + 3 = i + 4
      BY <2>0
    <3>1. /\ t[i].kind = "sessionbegin" /\ t[i + 1].kind = "begin" /\ t[i + 2].kind = "host"
          /\ t[i + 3].kind = "forward" /\ t[i + 4].kind = "end" /\ t[i + 5].kind = "host"
          /\ t[i + 6].kind = "localcommand"
      <4>1. /\ t[i] = Managed("sessionbegin", c) /\ t[i + 5] = Managed("host", c)
            /\ t[i + 6] = Managed("localcommand", c) /\ ForwardAt(t, i + 1, c)
        BY <2>4 DEF NestedAt
      <4>2. /\ t[i + 1] = Managed("begin", c) /\ t[i + 2] = Managed("host", c)
            /\ t[i + 3] = Managed("forward", c) /\ t[i + 4] = Managed("end", c)
        BY <4>1, <3>0 DEF ForwardAt
      <4> QED BY <4>1, <4>2, ManagedFields
    <3>2. u[i] # Managed("begin", c)
      BY <2>0, <3>1, ManagedFields
    <3>3. CASE i + 7 <= n
      <4>1. /\ i \in 1..Len(u) - 7 /\ i + 1 \in 1..Len(u) - 3 /\ i \in 1..n /\ i + 1 \in 1..n /\ i + 2 \in 1..n
            /\ i + 3 \in 1..n /\ i + 4 \in 1..n /\ i + 5 \in 1..n /\ i + 6 \in 1..n /\ i + 7 \in 1..n
        <5>1. Len(u) = n /\ i \in 1..n /\ n \in Nat
          BY <1>0, <1>2, <2>0
        <5>2. i \in 1..n - 7 /\ i + 1 \in 1..n - 3
          BY <5>1, <3>3
        <5>3. i + 1 \in 1..n /\ i + 2 \in 1..n /\ i + 3 \in 1..n /\ i + 4 \in 1..n
          BY <5>1, <3>3
        <5>4. i + 5 \in 1..n /\ i + 6 \in 1..n /\ i + 7 \in 1..n
          BY <5>1, <3>3
        <5> QED BY <5>1, <5>2, <5>3, <5>4
      <4>2. /\ u[i] = t[i] /\ u[i + 1] = t[i + 1] /\ u[i + 2] = t[i + 2] /\ u[i + 3] = t[i + 3]
            /\ u[i + 4] = t[i + 4] /\ u[i + 5] = t[i + 5] /\ u[i + 6] = t[i + 6] /\ u[i + 7] = t[i + 7]
        BY <1>2, <4>1
      <4>3. ForwardAt(u, i + 1, c)
        BY <2>4, <3>0, <4>1, <4>2 DEF NestedAt, ForwardAt
      <4>4. NestedAt(u, i, c)
        BY <2>4, <4>1, <4>2, <4>3 DEF NestedAt
      <4> QED BY <3>2, <4>4 DEF WholeAt
    <3>4. CASE ~(i + 7 <= n)
      <4>1. ASSUME NEW j \in i..Len(u) PROVE u[j] # Managed("sessionend", c)
        <5>1. /\ j = i \/ j = i + 1 \/ j = i + 2 \/ j = i + 3 \/ j = i + 4 \/ j = i + 5 \/ j = i + 6
              /\ j \in 1..n
          <6>0. Len(u) = n
            BY <1>2
          <6>1. j \in i..n /\ i \in 1..n
            BY <6>0, <2>0
          <6>2. i \in Int /\ j \in Int /\ n \in Int /\ 1 <= i /\ i <= j /\ j <= n /\ ~(i + 7 <= n)
            BY <6>1, <1>0, <3>4
          <6>3. j \in 1..n
            BY <6>2
          <6>4. j \in i..i + 7 /\ j # i + 7
            BY <6>2
          <6> QED BY <6>2, <6>3, <6>4, PlacesOn
        <5>2. t[j].kind # "sessionend"
          BY <3>1, <5>1
        <5> QED BY <1>2, <5>1, <5>2, ManagedFields
      <4> QED BY <3>2, <4>1 DEF Unended
    <3> QED BY <3>3, <3>4
  <2>5. WholeAt(t, i, c) \/ Unended(t, i, c)
    BY <2>0, <1>4 DEF Sound, Marked
  <2>6. CASE t[i] # Managed("begin", c) /\ t[i] # Managed("sessionbegin", c)
    BY <2>0, <2>6 DEF WholeAt
  <2> QED BY <2>1, <2>2, <2>3, <2>4, <2>5, <2>6 DEF WholeAt
<1>5. Forwards(u)
  <2> SUFFICES ASSUME NEW i \in DOMAIN u, NEW c \in Patterns, u[i] = Managed("forward", c)
               PROVE  i > 2 /\ u[i - 1] = Managed("host", c) /\ u[i - 2] = Managed("begin", c)
    BY DEF Forwards
  <2>1. i \in 1..n /\ i \in DOMAIN t /\ t[i] = Managed("forward", c)
    BY <1>2, <1>3
  <2>2. i > 2 /\ t[i - 1] = Managed("host", c) /\ t[i - 2] = Managed("begin", c)
    BY <2>1 DEF Sound, Forwards
  <2>3. i - 1 \in 1..n /\ i - 2 \in 1..n
    BY <2>1, <2>2, <1>0
  <2> QED BY <1>2, <2>2, <2>3
<1>6. Apart(u)
  <2> SUFFICES ASSUME NEW i \in DOMAIN u, NEW j \in DOMAIN u, u[i].kind = "localcommand",
                      u[j].kind = "forward", j < i
               PROVE  \E h \in j + 1..i - 1 : u[h].kind = "host"
    BY DEF Apart
  <2>1. i \in 1..n /\ j \in 1..n /\ i \in DOMAIN t /\ j \in DOMAIN t /\ t[i].kind = "localcommand" /\ t[j].kind = "forward"
    BY <1>2, <1>3
  <2>2. PICK h \in j + 1..i - 1 : t[h].kind = "host"
    BY <2>1 DEF Sound, Apart
  <2>3. h \in 1..n
    BY <2>1, <2>2, <1>0
  <2> QED BY <1>2, <2>2, <2>3
<1>7. Ordered(u)
  <2>1. \A i \in DOMAIN u : i \in DOMAIN t /\ u[i] = t[i]
    BY <1>2, <1>3
  <2> QED BY <2>1 DEF Sound, Ordered
<1>8. Sound(u)
  BY <1>4, <1>5, <1>6, <1>7 DEF Sound, Marked
<1> QED BY <1>1, <1>2, <1>8

-----------------------------------------------------------------------------
(* RemoveAllClipportBlocks                                                 *)

\* What an edit makes of a text: a sound one, and nothing changes for the user
\* unless a block was cut off.
Keeps(t, new) ==
  /\ new \in Seq(Line) /\ Sound(new)
  /\ Clean(t) => Clean(new) /\ UserLines(new) = UserLines(t)

\* RemoveAllClipportBlocks leaves no block and every line of the user.
LEMMA RemoveAllKeeps ==
  ASSUME NEW t \in Seq(Line), Sound(t), RemoveAllClipportBlocks(t).out = "write"
  PROVE  Keeps(t, RemoveAllClipportBlocks(t).text) /\ Plain(RemoveAllClipportBlocks(t).text)
<1> DEFINE r == RemoveBlocks(t, ClipportBegins, ClipportEnds)
<1>0. ClipportBegins \cap ClipportEnds = {}
  BY DEF ClipportBegins, ClipportEnds, IsClipportBegin, IsClipportEnd
<1>n. PICK N : N = Len(t) /\ N \in Nat /\ DOMAIN t = 1..N
  OBVIOUS
<1>1. ScanInv(r, t, ClipportBegins, ClipportEnds, N)
  BY <1>0, <1>n, RemoveBlocksKeeps
<1> HIDE DEF r
<1>2. RemoveAllClipportBlocks(t) = Removed(r)
  BY DEF RemoveAllClipportBlocks, r
<1>3. PICK kept : kept = r.kept
  OBVIOUS
<1>4. RemoveAllClipportBlocks(t).text = kept
  BY <1>2, <1>3 DEF Removed, Failed, Same, Updated
<1>5. kept \in Seq(Line)
  BY <1>1, <1>3 DEF ScanInv, ScanState
<1>6. PICK m : Selects(kept, t, m, N) /\ KeepsRest(kept, t, m, ClipportBegins, ClipportEnds, N)
  BY <1>1, <1>3 DEF ScanInv
<1>6a. \A i \in DOMAIN kept : m[i] \in DOMAIN t /\ kept[i] = t[m[i]]
  BY <1>5, <1>6, <1>n, SelectsOrder
<1>7. \A k \in DOMAIN t : t[k] \in Line
  OBVIOUS
\* Whatever begins a block, or forwards, is in one.
<1>8. ASSUME NEW k \in DOMAIN t, t[k].kind \in {"begin", "sessionbegin", "forward"}
      PROVE  Covered(t, ClipportBegins, ClipportEnds, k)
  <2>1. CASE t[k].kind \in {"begin", "sessionbegin"}
    <3>1. t[k] \in ClipportBegins
      BY <2>1, <1>7 DEF ClipportBegins, IsClipportBegin
    <3>2. k \in 1..k /\ \A l \in k..k - 1 : FALSE
      BY <1>n
    <3> QED BY <3>1, <3>2 DEF Covered
  <2>2. CASE t[k].kind = "forward"
    <3>1. PICK c \in Patterns : t[k] = Managed("forward", c)
      <4>1. "forward" \notin UserKinds
        BY DEF UserKinds
      <4> QED BY <1>7, <2>2, <4>1, LineForm
    <3>2. k > 2 /\ t[k - 1] = Managed("host", c) /\ t[k - 2] = Managed("begin", c)
      BY <3>1 DEF Sound, Forwards
    <3>3. PICK j : j = k - 2 /\ j \in 1..k /\ j \in DOMAIN t /\ \A l \in j..k - 1 : l = j \/ l = k - 1
      BY <1>n, <3>2
    <3>4. t[j].kind = "begin" /\ t[k - 1].kind = "host"
      BY <3>2, <3>3, ManagedFields
    <3>5. t[j] \in ClipportBegins
      BY <3>3, <3>4, <1>7 DEF ClipportBegins, IsClipportBegin
    <3>6. \A l \in j..k - 1 : t[l] \notin ClipportEnds
      BY <3>3, <3>4 DEF ClipportEnds, IsClipportEnd
    <3> QED BY <3>3, <3>5, <3>6 DEF Covered
  <2> QED BY <1>8, <2>1, <2>2
<1>9. Plain(kept)
  <2> SUFFICES ASSUME NEW i \in DOMAIN kept, kept[i].kind \in {"begin", "sessionbegin", "forward"} PROVE FALSE
    BY DEF Plain
  <2>1. Covered(t, ClipportBegins, ClipportEnds, m[i])
    BY <1>6a, <1>8
  <2>2. i \in 1..Len(kept)
    BY <1>5
  <2> QED BY <1>6, <2>1, <2>2 DEF KeepsRest
<1>10. ASSUME Clean(t), NEW k \in DOMAIN t, Owned(t[k]) PROVE Kept(m, Len(kept), k)
  <2>1. ~Covered(t, ClipportBegins, ClipportEnds, k)
    <3> SUFFICES ASSUME Covered(t, ClipportBegins, ClipportEnds, k) PROVE FALSE
      OBVIOUS
    <3>1. PICK j \in 1..k : t[j] \in ClipportBegins /\ \A l \in j..k - 1 : t[l] \notin ClipportEnds
      BY DEF Covered
    <3>2. j \in DOMAIN t /\ j \in Nat /\ k \in Nat /\ j <= k
      BY <1>n, <3>1
    <3>3. t[j].kind \in {"begin", "sessionbegin"} /\ t[j] \in Line
      BY <3>1 DEF ClipportBegins, IsClipportBegin
    <3>4. PICK c \in Patterns : t[j] = Managed("begin", c) \/ t[j] = Managed("sessionbegin", c)
      <4>1. "begin" \notin UserKinds /\ "sessionbegin" \notin UserKinds
        BY DEF UserKinds
      <4> QED BY <3>3, <4>1, LineForm
    <3>5. ForwardAt(t, j, c) \/ SessionAt(t, j, c) \/ NestedAt(t, j, c)
      BY <1>10, <3>2, <3>4 DEF Clean, WholeAt
    <3>6. \A l \in DOMAIN t : t[l].kind \in {"end", "sessionend"} => t[l] \in ClipportEnds
      BY <1>7 DEF ClipportEnds, IsClipportEnd
    <3>7. t[k].by = "user"
      BY <1>10 DEF Owned
    <3>8. CASE ForwardAt(t, j, c) \/ SessionAt(t, j, c)
      <4>1. /\ t[j].by = "clipport" /\ t[j + 1].by = "clipport" /\ t[j + 2].by = "clipport"
            /\ t[j + 3].by = "clipport" /\ t[j + 3].kind \in {"end", "sessionend"} /\ j + 3 \in DOMAIN t
        BY <3>8, <1>n, ManagedFields DEF ForwardAt, SessionAt
      <4>2. k # j /\ k # j + 1 /\ k # j + 2 /\ k # j + 3
        BY <3>7, <4>1
      <4>3. j + 3 \in j..k - 1
        BY <3>2, <4>2
      <4> QED BY <3>1, <3>6, <4>1, <4>3
    <3>9. CASE NestedAt(t, j, c)
      <4>0. j + 1 + 1 = j + 2 /\ j + 1 + 2 = j + 3 /\ j + 1 + 3 = j + 4
        BY <3>2
      <4>1. /\ t[j].by = "clipport" /\ t[j + 1].by = "clipport" /\ t[j + 2].by = "clipport"
            /\ t[j + 3].by = "clipport" /\ t[j + 4].by = "clipport" /\ t[j + 4].kind = "end"
        BY <3>9, <4>0, ManagedFields DEF NestedAt, ForwardAt
      <4>2. k # j /\ k # j + 1 /\ k # j + 2 /\ k # j + 3 /\ k # j + 4
        BY <3>7, <4>1
      <4>3. j + 4 \in j..k - 1 /\ j + 4 \in DOMAIN t
        BY <3>2, <4>2, <1>n
      <4> QED BY <3>1, <3>6, <4>1, <4>3
    <3> QED BY <3>5, <3>8, <3>9
  <2>2. t[k].kind # "blank" /\ k \in 1..N
    BY <1>10, <1>n DEF Owned
  <2> QED BY <1>6, <2>1, <2>2 DEF KeepsRest, Kept
<1>11. Clean(t) => UserLines(kept) = UserLines(t)
  BY <1>5, <1>6, <1>10, <1>n, UserLinesKeptBySelection
<1>12. Keeps(t, kept)
  BY <1>5, <1>9, <1>11, PlainSound DEF Keeps
<1> QED BY <1>4, <1>9, <1>12

-----------------------------------------------------------------------------
(* What updateSessionBlock reads                                           *)

HookState == [out : Seq(Line), inside : BOOLEAN, found : BOOLEAN, err : BOOLEAN]
HookStart == [out |-> <<>>, inside |-> FALSE, found |-> FALSE, err |-> FALSE]

\* How a line changes the state.
HookChange(st, line, a, block, new) ==
  LET begins == line = Managed("sessionbegin", a)
      ends == line = Managed("sessionend", a)
  IN /\ new \in HookState
     /\ begins => /\ new.out = st.out \o block /\ new.inside /\ new.found
                  /\ (new.err <=> st.err \/ st.inside \/ st.found)
     /\ ends => new.out = st.out /\ ~new.inside /\ new.found = st.found /\ (st.err => new.err)
     /\ ~begins /\ ~ends =>
          /\ new.inside = st.inside /\ new.found = st.found
          /\ new.out = (IF st.inside THEN st.out ELSE Append(st.out, line))
          /\ new.err <=> st.err \/ (st.inside /\ (IsClipportBegin(line) \/ IsClipportEnd(line)))

\* HookLine changes the state like that.
LEMMA HookLineFields ==
  ASSUME NEW st \in HookState, NEW line \in Line, NEW a \in Patterns, NEW block \in Seq(Line)
  PROVE  HookChange(st, line, a, block, HookLine(st, line, a, block))
<1> DEFINE begins == line = Managed("sessionbegin", a)
           ends == line = Managed("sessionend", a)
           new == HookLine(st, line, a, block)
<1>0. st.out \o block \in Seq(Line) /\ Append(st.out, line) \in Seq(Line) /\ st.out \in Seq(Line)
  BY DEF HookState
<1>0a. /\ st.err \in BOOLEAN /\ st.inside \in BOOLEAN /\ st.found \in BOOLEAN
       /\ IsClipportBegin(line) \in BOOLEAN /\ IsClipportEnd(line) \in BOOLEAN
  BY DEF HookState, IsClipportBegin, IsClipportEnd
<1>1. /\ begins <=> line.kind = "sessionbegin" /\ line.alias = a
      /\ ends <=> line.kind = "sessionend" /\ line.alias = a
  <2>1. "sessionbegin" \notin UserKinds /\ "sessionend" \notin UserKinds
    BY DEF UserKinds
  <2> QED BY <2>1, LineForm, ManagedFields
<1> HIDE DEF begins, ends
<1>2. CASE begins
  <2>1. new = [out |-> st.out \o block, inside |-> TRUE, found |-> TRUE,
               err |-> st.err \/ st.inside \/ st.found]
    BY <1>1, <1>2 DEF HookLine
  <2>2. ~ends
    BY <1>1, <1>2
  <2> HIDE DEF new
  <2>3. new \in HookState
    BY <2>1, <1>0, <1>0a DEF HookState
  <2>4. new.out = st.out \o block /\ new.inside /\ new.found /\ (new.err <=> st.err \/ st.inside \/ st.found)
    BY <2>1
  <2> QED BY <1>2, <2>2, <2>3, <2>4 DEF begins, ends, new, HookChange
<1>3. CASE ends
  <2>1. new = [st EXCEPT !.inside = FALSE, !.err = @ \/ ~st.inside]
    BY <1>1, <1>3 DEF HookLine
  <2>2. ~begins
    BY <1>1, <1>3
  <2> HIDE DEF new
  <2>3. new \in HookState /\ new.out = st.out /\ ~new.inside /\ new.found = st.found /\ (st.err => new.err)
    BY <2>1, <1>0, <1>0a DEF HookState
  <2> QED BY <1>3, <2>2, <2>3 DEF begins, ends, new, HookChange
<1>4. CASE ~begins /\ ~ends
  <2>1. new = IF st.inside
              THEN [st EXCEPT !.err = @ \/ IsClipportBegin(line) \/ IsClipportEnd(line)]
              ELSE [st EXCEPT !.out = Append(@, line)]
    BY <1>1, <1>4 DEF HookLine
  <2> HIDE DEF new
  <2>2. CASE st.inside
    <3>1. new = [st EXCEPT !.err = @ \/ IsClipportBegin(line) \/ IsClipportEnd(line)]
      BY <2>1, <2>2
    <3>2. /\ new \in HookState /\ new.inside = st.inside /\ new.found = st.found /\ new.out = st.out
          /\ new.err <=> st.err \/ IsClipportBegin(line) \/ IsClipportEnd(line)
      BY <3>1, <1>0, <1>0a DEF HookState
    <3> QED BY <1>4, <2>2, <3>2 DEF begins, ends, new, HookChange
  <2>3. CASE ~st.inside
    <3>1. new = [st EXCEPT !.out = Append(@, line)]
      BY <2>1, <2>3
    <3>2. /\ new \in HookState /\ new.inside = st.inside /\ new.found = st.found
          /\ new.out = Append(st.out, line) /\ new.err = st.err
      BY <3>1, <1>0, <1>0a DEF HookState
    <3> QED BY <1>4, <2>3, <3>2 DEF begins, ends, new, HookChange
  <2> QED BY <2>2, <2>3
<1> QED BY <1>2, <1>3, <1>4 DEF new

\* HooksRead, line by line.
IsHooks(read, text, a, block) ==
  /\ read[0] = HookStart
  /\ \A n \in 1..Len(text) : read[n] = HookLine(read[n - 1], text[n], a, block)

\* HooksRead is the last of a sequence of states that HookLine links.
LEMMA HooksReadRead ==
  ASSUME NEW text \in Seq(Line), NEW a \in Patterns, NEW block \in Seq(Line)
  PROVE  \E read : IsHooks(read, text, a, block) /\ HooksRead(text, a, block) = read[Len(text)]
<1> DEFINE Next1(f, n) == HookLine(f[n - 1], text[n], a, block)
           Rec(f) == f = [n \in 0..Len(text) |->
             IF n = 0 THEN [out |-> <<>>, inside |-> FALSE, found |-> FALSE, err |-> FALSE]
             ELSE HookLine(f[n - 1], text[n], a, block)]
<1>1. PICK N : N = Len(text) /\ N \in Nat
  OBVIOUS
<1>2. PICK X : X = HookState
  OBVIOUS
<1>3. HookStart \in X
  BY <1>2 DEF HookStart, HookState
<1>4. PICK g : g = [p \in (1..N) \X X |-> HookLine(p[2], text[p[1]], a, block)]
  OBVIOUS
<1>5. g \in Steps(N, X)
  <2>1. \A p \in (1..N) \X X : HookLine(p[2], text[p[1]], a, block) \in X
    BY <1>1, <1>2, HookLineFields DEF HookChange
  <2> QED BY <1>4, <2>1 DEF Steps
<1>6. PICK f : Solves(f, N, X, HookStart, g)
  BY <1>1, <1>3, <1>5, RecursionExists
<1>7. \A n \in 1..N : f[n] = Next1(f, n)
  <2> SUFFICES ASSUME NEW n \in 1..N PROVE f[n] = Next1(f, n)
    OBVIOUS
  <2>0. n - 1 \in 0..N
    BY <1>1
  <2>1. f[n - 1] \in X /\ f[n] = g[<<n, f[n - 1]>>]
    BY <1>6, <2>0 DEF Solves
  <2>2. <<n, f[n - 1]>> \in (1..N) \X X
    BY <2>1
  <2> QED BY <1>4, <2>1, <2>2
<1>8. Rec(f)
  <2>1. ASSUME NEW n \in 0..N
        PROVE  f[n] = IF n = 0 THEN [out |-> <<>>, inside |-> FALSE, found |-> FALSE, err |-> FALSE]
                      ELSE HookLine(f[n - 1], text[n], a, block)
    <3>1. CASE n = 0
      BY <1>6, <3>1 DEF Solves, HookStart
    <3>2. CASE n # 0
      <4>1. n \in 1..N
        BY <1>1, <3>2
      <4> QED BY <1>7, <3>2, <4>1
    <3> QED BY <3>1, <3>2
  <2>2. f = [n \in 0..N |-> f[n]]
    BY <1>6 DEF Solves
  <2> QED BY <1>1, <2>1, <2>2
<1>9. PICK read : Rec(read) /\ HooksRead(text, a, block) = read[Len(text)]
  BY <1>8 DEF HooksRead
<1>10. read[0] = HookStart
  BY <1>1, <1>9 DEF HookStart
<1>11. \A n \in 1..Len(text) : read[n] = HookLine(read[n - 1], text[n], a, block)
  <2> SUFFICES ASSUME NEW n \in 1..Len(text)
               PROVE  read[n] = HookLine(read[n - 1], text[n], a, block)
    OBVIOUS
  <2>1. n \in 0..Len(text) /\ n # 0
    BY <1>1
  <2>2. read[n] = IF n = 0 THEN [out |-> <<>>, inside |-> FALSE, found |-> FALSE, err |-> FALSE]
                  ELSE HookLine(read[n - 1], text[n], a, block)
    BY <1>9, <2>1
  <2> QED BY <2>1, <2>2
<1> QED BY <1>9, <1>10, <1>11 DEF IsHooks

\* out is the first k lines of t.
FirstLines(out, t, k) == out \in Seq(Line) /\ Len(out) = k /\ \A i \in 1..k : out[i] = t[i]

\* In a block at p after n lines: it is whole and all of it is in out already,
\* it is cut off, or a forward block is next, which is an error.
Within(st, t, a, n, p) ==
  /\ p \in 1..n /\ t[p] = Managed("sessionbegin", a)
  /\ \/ SessionAt(t, p, a) /\ n < p + 3 /\ FirstLines(st.out, t, p + 3)
     \/ NestedAt(t, p, a) /\ n = p
     \/ Unended(t, p, a)

\* Unless there was an error, nothing has changed so far.
HookInv(st, t, a, n) ==
  /\ st \in HookState
  /\ st.err
     \/ /\ ~st.found => \A i \in 1..n : t[i] # Managed("sessionbegin", a)
        /\ st.inside => \E p : Within(st, t, a, n, p)
        /\ ~st.inside => FirstLines(st.out, t, n)

\* The block that is put in place of a whole one is the same.
LEMMA SessionAppended ==
  ASSUME NEW t \in Seq(Line), NEW a \in Patterns, NEW n \in Nat, SessionAt(t, n + 1, a),
         NEW out, FirstLines(out, t, n)
  PROVE  FirstLines(out \o SessionBlock(a), t, n + 4)
<1>1. PICK b : b = SessionBlock(a) /\ b \in Seq(Line) /\ Len(b) = 4 /\ b[1] = Managed("sessionbegin", a)
               /\ b[2] = Managed("host", a) /\ b[3] = Managed("localcommand", a) /\ b[4] = Managed("sessionend", a)
  BY ForwardBlockFacts
<1>2. out \in Seq(Line) /\ Len(out) = n /\ \A i \in 1..n : out[i] = t[i]
  BY DEF FirstLines
<1>3. PICK c : c = out \o b
  OBVIOUS
<1>4. c \in Seq(Line) /\ Len(c) = n + 4 /\ (\A i \in 1..n : c[i] = t[i]) /\ \A i \in 1..4 : c[n + i] = b[i]
  <2>1. /\ out \o b \in Seq(Line) /\ Len(out \o b) = Len(out) + Len(b)
        /\ (\A i \in 1..Len(out) : (out \o b)[i] = out[i])
        /\ \A i \in 1..Len(b) : (out \o b)[Len(out) + i] = b[i]
    BY <1>1, <1>2, Concatenated, Zenon
  <2>2. /\ c \in Seq(Line) /\ Len(c) = n + 4
        /\ (\A i \in 1..n : c[i] = out[i]) /\ \A i \in 1..4 : c[n + i] = b[i]
    BY <1>1, <1>2, <1>3, <2>1
  <2> QED BY <1>2, <2>2
<1>5. t[n + 1] = b[1] /\ t[n + 2] = b[2] /\ t[n + 3] = b[3] /\ t[n + 4] = b[4]
  <2>1. n + 1 + 1 = n + 2 /\ n + 1 + 2 = n + 3 /\ n + 1 + 3 = n + 4
    OBVIOUS
  <2> QED BY <1>1, <2>1 DEF SessionAt
<1>6. c[n + 1] = b[1] /\ c[n + 2] = b[2] /\ c[n + 3] = b[3] /\ c[n + 4] = b[4]
  BY <1>4
<1>7. ASSUME NEW i \in 1..n + 4 PROVE c[i] = t[i]
  <2>1. i \in 1..n \/ i = n + 1 \/ i = n + 2 \/ i = n + 3 \/ i = n + 4
    OBVIOUS
  <2> QED BY <2>1, <1>4, <1>5, <1>6
<1>8. FirstLines(c, t, n + 4)
  BY <1>4, <1>7 DEF FirstLines
<1> QED BY <1>1, <1>3, <1>8

\* Each line keeps the invariant of updateSessionBlock.
LEMMA HookStep ==
  ASSUME NEW t \in Seq(Line), Marked(t), NEW a \in Patterns, NEW n \in Nat, n + 1 \in 1..Len(t),
         NEW st, HookInv(st, t, a, n)
  PROVE  HookInv(HookLine(st, t[n + 1], a, SessionBlock(a)), t, a, n + 1)
<1>0. st \in HookState /\ SessionBlock(a) \in Seq(Line)
  BY ForwardBlockFacts DEF HookInv
<1>1. PICK line : line = t[n + 1] /\ line \in Line /\ n + 1 \in DOMAIN t
  OBVIOUS
<1>2. PICK new : new = HookLine(st, line, a, SessionBlock(a))
  OBVIOUS
<1> DEFINE begins == line = Managed("sessionbegin", a)
           ends == line = Managed("sessionend", a)
<1>3. /\ new \in HookState
      /\ begins => /\ new.out = st.out \o SessionBlock(a) /\ new.inside /\ new.found
                   /\ (new.err <=> st.err \/ st.inside \/ st.found)
      /\ ends => new.out = st.out /\ ~new.inside /\ new.found = st.found /\ (st.err => new.err)
      /\ ~begins /\ ~ends =>
           /\ new.inside = st.inside /\ new.found = st.found
           /\ new.out = (IF st.inside THEN st.out ELSE Append(st.out, line))
           /\ new.err <=> st.err \/ (st.inside /\ (IsClipportBegin(line) \/ IsClipportEnd(line)))
  <2>1. HookChange(st, line, a, SessionBlock(a), HookLine(st, line, a, SessionBlock(a)))
    BY <1>0, <1>1, HookLineFields, Zenon
  <2>2. HookChange(st, line, a, SessionBlock(a), new)
    BY <1>2, <2>1
  <2> QED BY <2>2 DEF HookChange
<1>4. ~(begins /\ ends)
  BY ManagedFields
<1>5. st.err => new.err
  BY <1>3, <1>4
<1> HIDE DEF begins, ends
<1> SUFFICES ASSUME ~new.err
             PROVE  /\ ~new.found => \A i \in 1..n + 1 : t[i] # Managed("sessionbegin", a)
                    /\ new.inside => \E p : Within(new, t, a, n + 1, p)
                    /\ ~new.inside => FirstLines(new.out, t, n + 1)
  BY <1>1, <1>2, <1>3 DEF HookInv
<1>6. /\ ~st.err
      /\ ~st.found => \A i \in 1..n : t[i] # Managed("sessionbegin", a)
      /\ st.inside => \E p : Within(st, t, a, n, p)
      /\ ~st.inside => FirstLines(st.out, t, n)
  BY <1>5 DEF HookInv
<1>7. CASE begins
  <2>1. ~st.inside /\ new.inside /\ new.found /\ new.out = st.out \o SessionBlock(a)
    BY <1>3, <1>7
  <2>2. FirstLines(st.out, t, n) /\ t[n + 1] = Managed("sessionbegin", a)
    BY <1>1, <1>6, <1>7, <2>1 DEF begins
  <2>3. SessionAt(t, n + 1, a) \/ NestedAt(t, n + 1, a) \/ Unended(t, n + 1, a)
    BY <1>1, <2>2 DEF Marked, WholeAt
  <2>4. SessionAt(t, n + 1, a) => FirstLines(new.out, t, n + 4)
    BY <2>1, <2>2, SessionAppended
  <2>5. n + 1 + 3 = n + 4 /\ n + 1 < n + 4 /\ n + 1 \in 1..n + 1
    OBVIOUS
  <2>6. Within(new, t, a, n + 1, n + 1)
    BY <2>2, <2>3, <2>4, <2>5 DEF Within
  <2> QED BY <2>1, <2>6
<1>8. CASE ends
  <2>1. ~new.inside /\ new.out = st.out /\ new.found = st.found
    BY <1>3, <1>8
  <2>2. t[n + 1] = Managed("sessionend", a)
    BY <1>1, <1>8 DEF ends
  <2>3. ~new.found => \A i \in 1..n + 1 : t[i] # Managed("sessionbegin", a)
    BY <1>6, <2>1, <2>2, ManagedFields
  <2>4. CASE st.inside
    <3>1. PICK p : Within(st, t, a, n, p)
      BY <1>6, <2>4
    <3>2. p \in 1..n /\ p \in Nat
      BY <3>1 DEF Within
    <3>3. ~Unended(t, p, a)
      <4>1. n + 1 \in p..Len(t) /\ t[p] = Managed("sessionbegin", a)
        BY <3>1, <3>2 DEF Within
      <4> QED BY <2>2, <4>1 DEF Unended
    <3>4. ~(NestedAt(t, p, a) /\ n = p)
      <4> SUFFICES ASSUME NestedAt(t, p, a), n = p PROVE FALSE
        OBVIOUS
      <4>1. t[n + 1] = Managed("begin", a)
        BY DEF NestedAt, ForwardAt
      <4> QED BY <2>2, <4>1, ManagedFields
    <3>5. SessionAt(t, p, a) /\ n < p + 3 /\ FirstLines(st.out, t, p + 3)
      BY <3>1, <3>3, <3>4 DEF Within
    <3>6. t[p + 1].kind = "host" /\ t[p + 2].kind = "localcommand"
      BY <3>5, ManagedFields DEF SessionAt
    <3>7. n + 1 = p + 3
      <4>1. n + 1 # p + 1 /\ n + 1 # p + 2
        BY <2>2, <3>6, ManagedFields
      <4> QED BY <3>2, <3>5, <4>1
    <3> QED BY <2>1, <2>3, <3>5, <3>7
  <2>5. CASE ~st.inside
    <3>1. HookLine(st, line, a, SessionBlock(a)).err
      <4>1. line.kind = "sessionend" /\ line.alias = a
        BY <1>8, ManagedFields DEF ends
      <4>2. HookLine(st, line, a, SessionBlock(a)) = [st EXCEPT !.inside = FALSE, !.err = @ \/ ~st.inside]
        BY <4>1 DEF HookLine
      <4> QED BY <4>2, <2>5, <1>0 DEF HookState
    <3> QED BY <1>2, <3>1
  <2> QED BY <2>4, <2>5
<1>9. CASE ~begins /\ ~ends
  <2>1. /\ new.inside = st.inside /\ new.found = st.found
        /\ new.out = (IF st.inside THEN st.out ELSE Append(st.out, line))
        /\ st.inside => ~IsClipportBegin(line) /\ ~IsClipportEnd(line)
    BY <1>3, <1>9
  <2>2. ~new.found => \A i \in 1..n + 1 : t[i] # Managed("sessionbegin", a)
    <3>1. t[n + 1] # Managed("sessionbegin", a)
      BY <1>1, <1>9 DEF begins
    <3>2. ~new.found => \A i \in 1..n : t[i] # Managed("sessionbegin", a)
      BY <1>6, <2>1
    <3>3. \A i \in 1..n + 1 : i = n + 1 \/ i \in 1..n
      OBVIOUS
    <3> QED BY <3>1, <3>2, <3>3
  <2>3. CASE st.inside
    <3>1. PICK p : Within(st, t, a, n, p)
      BY <1>6, <2>3
    <3>2. p \in 1..n /\ p \in Nat /\ t[p] = Managed("sessionbegin", a)
      BY <3>1 DEF Within
    <3>3. ~(NestedAt(t, p, a) /\ n = p)
      <4> SUFFICES ASSUME NestedAt(t, p, a), n = p PROVE FALSE
        OBVIOUS
      <4>1. t[n + 1] = Managed("begin", a)
        BY DEF NestedAt, ForwardAt
      <4>2. IsClipportBegin(line)
        BY <1>1, <4>1, ManagedFields DEF IsClipportBegin
      <4> QED BY <2>1, <2>3, <4>2
    <3>4. ASSUME SessionAt(t, p, a), n < p + 3 PROVE n + 1 < p + 3
      <4>1. t[p + 3] = Managed("sessionend", a)
        BY <3>4 DEF SessionAt
      <4>2. n + 1 # p + 3
        BY <1>1, <1>9, <4>1 DEF ends
      <4> QED BY <3>2, <3>4, <4>2
    <3>5. new.out = st.out /\ p \in 1..n + 1
      BY <2>1, <2>3, <3>2
    <3>6. Within(new, t, a, n + 1, p)
      BY <3>1, <3>2, <3>3, <3>4, <3>5 DEF Within
    <3> QED BY <2>1, <2>2, <2>3, <3>6
  <2>4. CASE ~st.inside
    <3>1. new.out = Append(st.out, line) /\ ~new.inside
      BY <2>1, <2>4
    <3>2. st.out \in Seq(Line) /\ Len(st.out) = n /\ \A i \in 1..n : st.out[i] = t[i]
      BY <1>6, <2>4 DEF FirstLines
    <3>3. PICK o : o = Append(st.out, line)
      OBVIOUS
    <3>4. o \in Seq(Line) /\ Len(o) = n + 1 /\ o[n + 1] = line /\ \A i \in 1..n : o[i] = t[i]
      BY <1>1, <3>2, <3>3
    <3>5. \A i \in 1..n + 1 : i = n + 1 \/ i \in 1..n
      OBVIOUS
    <3>6. FirstLines(o, t, n + 1)
      BY <1>1, <3>4, <3>5 DEF FirstLines
    <3> QED BY <2>2, <3>1, <3>3, <3>6
  <2> QED BY <2>3, <2>4
<1> QED BY <1>7, <1>8, <1>9

\* Nothing changes, or a block is appended that was not there.
LEMMA UpdateCases ==
  ASSUME NEW t \in Seq(Line), Marked(t), NEW a \in Patterns
  PROVE  LET r == UpdateSessionBlock(t, a, SessionBlock(a))
         IN \/ r = Failed
            \/ r = Updated(t)
            \/ /\ r = Updated(Append(t, Blank) \o SessionBlock(a))
               /\ \A i \in DOMAIN t : t[i] # Managed("sessionbegin", a)
<1> DEFINE block == SessionBlock(a)
<1>0. block \in Seq(Line)
  BY ForwardBlockFacts
<1>1. PICK read : IsHooks(read, t, a, block) /\ HooksRead(t, a, block) = read[Len(t)]
  BY <1>0, HooksReadRead
<1> DEFINE S == {n \in Nat : n <= Len(t) => HookInv(read[n], t, a, n)}
<1>2. 0 \in S
  <2>1. HookStart \in HookState /\ HookStart.out = <<>> /\ ~HookStart.inside /\ ~HookStart.found
    BY DEF HookStart, HookState
  <2>2. FirstLines(<<>>, t, 0)
    BY DEF FirstLines
  <2>3. HookInv(HookStart, t, a, 0)
    BY <2>1, <2>2 DEF HookInv
  <2> QED BY <1>1, <2>3 DEF IsHooks
<1>3. ASSUME NEW n \in Nat, n \in S PROVE n + 1 \in S
  <2> SUFFICES ASSUME n + 1 <= Len(t) PROVE HookInv(read[n + 1], t, a, n + 1)
    OBVIOUS
  <2>1. n + 1 \in 1..Len(t) /\ n + 1 - 1 = n /\ HookInv(read[n], t, a, n)
    BY <1>3
  <2>2. read[n + 1] = HookLine(read[n], t[n + 1], a, block)
    BY <1>1, <2>1 DEF IsHooks
  <2> QED BY <2>1, <2>2, HookStep
<1> HIDE DEF S
<1>4. \A n \in Nat : n \in S
  BY <1>2, <1>3, SetInduction
<1>5. PICK N : N = Len(t) /\ N \in Nat /\ DOMAIN t = 1..N
  OBVIOUS
<1>6. PICK r : r = HooksRead(t, a, block) /\ HookInv(r, t, a, N)
  BY <1>1, <1>4, <1>5 DEF S
<1>7. CASE r.err \/ r.inside
  BY <1>6, <1>7 DEF UpdateSessionBlock
<1>8. CASE ~(r.err \/ r.inside)
  <2>1. FirstLines(r.out, t, N) /\ (~r.found => \A i \in 1..N : t[i] # Managed("sessionbegin", a))
    BY <1>6, <1>8 DEF HookInv
  <2>2. r.out = t
    <3>1. r.out \in Seq(Line) /\ Len(r.out) = Len(t) /\ \A i \in 1..Len(t) : r.out[i] = t[i]
      BY <2>1, <1>5 DEF FirstLines
    <3>2. PICK o : o = r.out
      OBVIOUS
    <3> QED BY <3>1, <3>2, SeqEqual
  <2>3. UpdateSessionBlock(t, a, block) =
          Updated(IF r.found THEN r.out ELSE Append(r.out, Blank) \o block)
    BY <1>6, <1>8 DEF UpdateSessionBlock
  <2> QED BY <1>5, <2>1, <2>2, <2>3
<1> QED BY <1>7, <1>8

-----------------------------------------------------------------------------
(* What the edits keep                                                     *)

\* ssh runs the hooks that it ran.
KeepsHooks(t, new) == \A c : RunsHook(t, c) => RunsHook(new, c)

\* A managed block at the end, after a blank line.
LEMMA AppendedKeeps ==
  ASSUME NEW s \in Seq(Line), Sound(s), NEW b \in Seq(Line), Joins(s \o <<Blank>>, b),
         \A k \in DOMAIN b : ~Owned(b[k])
  PROVE  Keeps(s, Append(s, Blank) \o b) /\ KeepsHooks(s, Append(s, Blank) \o b)
<1>1. Blank \in Line /\ Blank.kind = "blank" /\ ~Owned(Blank)
  BY ManagedFields DEF Blank, Managed, Line, Kinds, UserKinds, Patterns, Owned
<1>2. PICK e : e = <<Blank>> /\ e \in Seq(Line) /\ Len(e) = 1 /\ DOMAIN e = {1} /\ e[1] = Blank
  <2>1. <<Blank>> \in Seq(Line) /\ Len(<<Blank>>) = 1 /\ <<Blank>>[1] = Blank /\ DOMAIN <<Blank>> = {1}
    BY <1>1
  <2> QED BY <2>1
<1>3. PICK u : u = s \o e
  OBVIOUS
<1>4. Append(s, Blank) = u
  BY <1>1, <1>2, <1>3, AppendIsConcat
<1>5. Joins(s, e)
  <2>1. Plain(e) /\ Hosted(e) /\ \A k \in DOMAIN e : e[k].kind \in UserKinds
    BY <1>1, <1>2 DEF Plain, Hosted, UserKinds
  <2> QED BY <1>2, <2>1, PlainJoins
<1>6. u \in Seq(Line) /\ Sound(u) /\ (Clean(s) => Clean(u))
  <2>1. u \in Seq(Line)
    BY <1>2, <1>3
  <2>2. (Sound(s) => Sound(s \o e)) /\ (Clean(s) => Clean(s \o e))
    BY <1>2, <1>5, JoinSound, Zenon
  <2> QED BY <1>3, <2>1, <2>2
<1>7. UserLines(u) = UserLines(s)
  BY <1>1, <1>2, <1>3, JoinUserLines
<1>8. \A c : RunsHook(s, c) => RunsHook(u, c)
  BY <1>2, <1>3, JoinHooks
<1>9. Joins(u, b)
  BY <1>2, <1>3
<1>10. PICK t : t = u \o b
  OBVIOUS
<1>11. t \in Seq(Line) /\ Sound(t) /\ (Clean(u) => Clean(t))
  BY <1>6, <1>9, <1>10, JoinSound
<1>12. UserLines(t) = UserLines(u)
  BY <1>6, <1>10, JoinUserLines
<1>13. \A c : RunsHook(u, c) => RunsHook(t, c)
  BY <1>6, <1>10, JoinHooks
<1>14. Keeps(s, t) /\ KeepsHooks(s, t)
  BY <1>6, <1>7, <1>8, <1>11, <1>12, <1>13 DEF Keeps, KeepsHooks
<1> QED BY <1>4, <1>10, <1>14

\* The blocks have no line of the user.
LEMMA BlocksUnowned ==
  ASSUME NEW a \in Patterns
  PROVE  /\ \A k \in DOMAIN ForwardBlock(a) : ~Owned(ForwardBlock(a)[k])
         /\ \A k \in DOMAIN SessionBlock(a) : ~Owned(SessionBlock(a)[k])
<1>1. DOMAIN ForwardBlock(a) = 1..4 /\ DOMAIN SessionBlock(a) = 1..4
  BY ForwardBlockFacts
<1>2. \A k \in 1..4 : k = 1 \/ k = 2 \/ k = 3 \/ k = 4
  OBVIOUS
<1>3. \A k \in 1..4 : ForwardBlock(a)[k].by = "clipport"
  BY <1>2, ForwardBlockFacts, ManagedFields
<1>4. \A k \in 1..4 : SessionBlock(a)[k].by = "clipport"
  BY <1>2, ForwardBlockFacts, ManagedFields
<1> QED BY <1>1, <1>3, <1>4 DEF Owned

\* What is dropped from a text.
LEMMA DropKeeps ==
  ASSUME NEW s \in Seq(Line), NEW t \in Seq(Line), NEW m, NEW a \in Patterns, DropsForwards(s, t, m, a),
         Sound(t)
  PROVE  Keeps(t, s) /\ \A c : RunsHook(s, c) <=> RunsHook(t, c)
<1>1. Marked(t) /\ Forwards(t) /\ Apart(t) /\ Ordered(t)
  BY DEF Sound
<1>2. (Clean(t) => Clean(s)) /\ Marked(s)
  BY <1>1, DropMarked
<1>3. Forwards(s) /\ Apart(s)
  BY <1>1, DropForwards, DropApart
<1>4. Ordered(s)
  BY <1>1, SelectOrdered DEF DropsForwards
<1>5. UserLines(s) = UserLines(t)
  BY DropKeepsUserLines
<1>6. \A c : RunsHook(s, c) <=> RunsHook(t, c)
  BY <1>1, DropHooks
<1> QED BY <1>2, <1>3, <1>4, <1>5, <1>6 DEF Keeps, Sound

\* RemoveForward keeps the text sound, the user's lines and the hooks.
LEMMA RemoveForwardKeeps ==
  ASSUME NEW t \in Seq(Line), Sound(t), NEW a \in Patterns, RemoveForward(t, a).out = "write"
  PROVE  Keeps(t, RemoveForward(t, a).text) /\ KeepsHooks(t, RemoveForward(t, a).text)
<1>1. PICK r : r = WithoutForward(t, a)
  OBVIOUS
<1>2. ~r.inBlock /\ RemoveForward(t, a).text = r.kept
  BY <1>1 DEF RemoveForward, Removed, Failed, Same, Updated
<1>3. Marked(t)
  BY DEF Sound
<1>4. r.kept \in Seq(Line) /\ \E m : DropsForwards(r.kept, t, m, a)
  BY <1>1, <1>2, <1>3, WithoutForwardDrops
<1>5. Keeps(t, r.kept) /\ \A c : RunsHook(r.kept, c) <=> RunsHook(t, c)
  BY <1>4, DropKeeps
<1> QED BY <1>2, <1>5 DEF KeepsHooks

\* The block before the first host of its alias, or at the end.
LEMMA InsertKeeps ==
  ASSUME NEW s \in Seq(Line), Sound(s), NEW a \in Patterns, \A i \in DOMAIN s : s[i] # Managed("begin", a)
  PROVE  /\ Keeps(s, InsertBeforeHost(s, a, ForwardBlock(a)))
         /\ KeepsHooks(s, InsertBeforeHost(s, a, ForwardBlock(a)))
<1>1. PICK t : t = InsertBeforeHost(s, a, ForwardBlock(a))
  OBVIOUS
<1>2. /\ t \in Seq(Line)
      /\ \/ \E f : Inserted(s, t, f, a)
         \/ /\ \A i \in DOMAIN s : ~(s[i].kind = "host" /\ s[i].alias = a)
            /\ t = IF s = <<>> THEN ForwardBlock(a) ELSE Append(s, Blank) \o ForwardBlock(a)
  BY <1>1, InsertCases
<1>3. Marked(s) /\ Forwards(s) /\ Apart(s) /\ Ordered(s)
  BY DEF Sound
<1>4. CASE \E f : Inserted(s, t, f, a)
  <2>1. PICK f : Inserted(s, t, f, a)
    BY <1>4
  <2>2. (Clean(s) => Clean(t)) /\ Marked(t)
    BY <1>2, <1>3, <2>1, InsertMarked
  <2>3. Forwards(t)
    BY <1>2, <1>3, <2>1, InsertForwards
  <2>4. Apart(t)
    BY <1>2, <1>3, <2>1, InsertApart
  <2>5. Ordered(t)
    BY <1>2, <1>3, <2>1, InsertOrdered
  <2>6. PICK m : DropsForwards(s, t, m, a)
    BY <1>2, <2>1, InsertedDrops
  <2>7. UserLines(t) = UserLines(s)
    BY <1>2, <2>6, DropKeepsUserLines
  <2>8. \A c : RunsHook(s, c) => RunsHook(t, c)
    BY <1>2, <2>4, <2>6, DropHooks
  <2>9. Keeps(s, t) /\ KeepsHooks(s, t)
    BY <1>2, <2>2, <2>3, <2>4, <2>5, <2>7, <2>8 DEF Keeps, KeepsHooks, Sound
  <2> QED BY <1>1, <2>9
<1>5. CASE ~\E f : Inserted(s, t, f, a)
  <2>1. /\ \A i \in DOMAIN s : ~(s[i].kind = "host" /\ s[i].alias = a)
        /\ t = IF s = <<>> THEN ForwardBlock(a) ELSE Append(s, Blank) \o ForwardBlock(a)
    BY <1>2, <1>5
  <2>2. PICK b : b = ForwardBlock(a) /\ b \in Seq(Line) /\ \A k \in DOMAIN b : ~Owned(b[k])
    BY ForwardBlockFacts, BlocksUnowned
  <2>3. ASSUME NEW i \in DOMAIN s PROVE s[i] # Managed("begin", a) /\ s[i] # Mine("host", a)
    BY <2>1, ManagedFields
  <2>4. CASE s = <<>>
    <3>1. Joins(s, b)
      BY <2>2, <2>3, ForwardBlockJoins
    <3>2. t = s \o b
      BY <2>1, <2>2, <2>4
    <3>3. Sound(t) /\ (Clean(s) => Clean(t))
      BY <2>2, <3>1, <3>2, JoinSound
    <3>4. UserLines(t) = UserLines(s)
      BY <2>2, <3>2, JoinUserLines
    <3>5. \A c : RunsHook(s, c) => RunsHook(t, c)
      BY <2>2, <3>2, JoinHooks
    <3>6. Keeps(s, t) /\ KeepsHooks(s, t)
      BY <1>2, <3>3, <3>4, <3>5 DEF Keeps, KeepsHooks
    <3> QED BY <1>1, <3>6
  <2>5. CASE s # <<>>
    <3>1. PICK u : u = s \o <<Blank>>
      OBVIOUS
    <3>2. Blank \in Line
      BY DEF Blank, Managed, Line, Kinds, UserKinds, Patterns
    <3>3. u \in Seq(Line) /\ \A i \in DOMAIN u : (i \in DOMAIN s /\ u[i] = s[i]) \/ u[i] = Blank
      <4>1. <<Blank>> \in Seq(Line) /\ Len(<<Blank>>) = 1 /\ <<Blank>>[1] = Blank /\ DOMAIN <<Blank>> = {1}
        BY <3>2
      <4>2. Joined(s, <<Blank>>, u)
        BY <3>1, <4>1, JoinedLines
      <4> QED BY <4>1, <4>2 DEF Joined
    <3>4. \A i \in DOMAIN u : u[i] # Managed("begin", a) /\ u[i] # Mine("host", a)
      BY <2>3, <3>3, ManagedFields DEF Blank
    <3>5. Joins(s \o <<Blank>>, b)
      BY <2>2, <3>1, <3>3, <3>4, ForwardBlockJoins
    <3>6. t = Append(s, Blank) \o b
      BY <2>1, <2>2, <2>5
    <3>7. Keeps(s, t) /\ KeepsHooks(s, t)
      BY <2>2, <3>5, <3>6, AppendedKeeps
    <3> QED BY <1>1, <3>7
  <2> QED BY <2>4, <2>5
<1> QED BY <1>4, <1>5

\* InstallForward keeps the text sound, the user's lines and the hooks.
LEMMA InstallForwardKeeps ==
  ASSUME NEW t \in Seq(Line), Sound(t), NEW a \in Patterns, InstallForward(t, a).out = "write"
  PROVE  Keeps(t, InstallForward(t, a).text) /\ KeepsHooks(t, InstallForward(t, a).text)
<1>1. PICK r : r = WithoutForward(t, a)
  OBVIOUS
<1>1a. PICK new : new = InsertBeforeHost(r.kept, a, ForwardBlock(a))
  OBVIOUS
<1>2. ~r.inBlock /\ InstallForward(t, a).text = new
  BY <1>1, <1>1a DEF InstallForward, Failed, Same, Updated
<1>3. Marked(t)
  BY DEF Sound
<1>4. /\ r.kept \in Seq(Line) /\ \E m : DropsForwards(r.kept, t, m, a)
      /\ \A i \in DOMAIN r.kept : r.kept[i] # Managed("begin", a)
  BY <1>1, <1>2, <1>3, WithoutForwardDrops
<1>5. PICK s : s = r.kept
  OBVIOUS
<1>6. Keeps(t, s) /\ \A c : RunsHook(s, c) <=> RunsHook(t, c)
  BY <1>4, <1>5, DropKeeps
<1>7. Keeps(s, new) /\ KeepsHooks(s, new)
  <2>1. s \in Seq(Line) /\ Sound(s)
    BY <1>6 DEF Keeps
  <2> QED BY <1>1a, <1>4, <1>5, <2>1, InsertKeeps
<1>8. Keeps(t, new) /\ KeepsHooks(t, new)
  BY <1>6, <1>7 DEF Keeps, KeepsHooks
<1> QED BY <1>2, <1>8

\* InstallSessionHook keeps them too, and ssh runs the hook.
LEMMA InstallHookKeeps ==
  ASSUME NEW t \in Seq(Line), Sound(t), NEW a \in Patterns, InstallSessionHook(t, a).out = "write"
  PROVE  /\ Keeps(t, InstallSessionHook(t, a).text) /\ KeepsHooks(t, InstallSessionHook(t, a).text)
         /\ RunsHook(InstallSessionHook(t, a).text, a)
<1>1. PICK r : r = UpdateSessionBlock(t, a, SessionBlock(a))
  OBVIOUS
<1>2. r.out # "error" /\ RunsHook(r.text, a) /\ r.text # t /\ InstallSessionHook(t, a).text = r.text
  BY <1>1 DEF InstallSessionHook, Failed, Same
<1>3. Marked(t)
  BY DEF Sound
<1>4. /\ r.text = Append(t, Blank) \o SessionBlock(a)
      /\ \A i \in DOMAIN t : t[i] # Managed("sessionbegin", a)
  <2>1. \/ r = Failed
        \/ r = Updated(t)
        \/ /\ r = Updated(Append(t, Blank) \o SessionBlock(a))
           /\ \A i \in DOMAIN t : t[i] # Managed("sessionbegin", a)
    BY <1>1, <1>3, UpdateCases
  <2> QED BY <1>2, <2>1 DEF Failed, Updated
<1>5. PICK b : b = SessionBlock(a) /\ b \in Seq(Line) /\ \A k \in DOMAIN b : ~Owned(b[k])
  BY ForwardBlockFacts, BlocksUnowned
<1>6. PICK u : u = t \o <<Blank>>
  OBVIOUS
<1>7. u \in Seq(Line) /\ \A i \in DOMAIN u : (i \in DOMAIN t /\ u[i] = t[i]) \/ u[i] = Blank
  <2>0. Blank \in Line
    BY DEF Blank, Managed, Line, Kinds, UserKinds, Patterns
  <2>1. <<Blank>> \in Seq(Line) /\ Len(<<Blank>>) = 1 /\ <<Blank>>[1] = Blank /\ DOMAIN <<Blank>> = {1}
    BY <2>0
  <2>2. Joined(t, <<Blank>>, u)
    BY <1>6, <2>1, JoinedLines
  <2> QED BY <2>1, <2>2 DEF Joined
<1>8. \A i \in DOMAIN u : u[i] # Managed("sessionbegin", a)
  BY <1>4, <1>7, ManagedFields DEF Blank
<1>9. Joins(t \o <<Blank>>, b)
  BY <1>5, <1>6, <1>7, <1>8, SessionBlockJoins
<1>10. Keeps(t, r.text) /\ KeepsHooks(t, r.text)
  BY <1>4, <1>5, <1>9, AppendedKeeps
<1> QED BY <1>2, <1>10

\* A hook that is there already is what ssh runs.
LEMMA HookThere ==
  ASSUME NEW t, NEW a, InstallSessionHook(t, a).out = "same"
  PROVE  RunsHook(t, a)
<1>1. PICK r : r = UpdateSessionBlock(t, a, SessionBlock(a))
  OBVIOUS
<1>2. r.out = "error" \/ r.out = "write"
  BY <1>1 DEF UpdateSessionBlock, Failed, Updated
<1> QED BY <1>1, <1>2 DEF InstallSessionHook, Failed

-----------------------------------------------------------------------------
(* The forwards that setup installs                                        *)

Forwarded(t, a) == \E i : ForwardAt(t, i, a)
KeepsForwards(t, new) == \A b \in Patterns : Forwarded(t, b) => Forwarded(new, b)

\* Dropping the forward of a leaves those of the others.
LEMMA DropKeepsForwards ==
  ASSUME NEW s \in Seq(Line), NEW t \in Seq(Line), NEW m, NEW a \in Patterns, DropsForwards(s, t, m, a),
         NEW b \in Patterns, b # a, Forwarded(t, b)
  PROVE  Forwarded(s, b)
<1>1. PICK k : ForwardAt(t, k, b)
  BY DEF Forwarded
<1>2. k \in DOMAIN t /\ t[k] = Managed("begin", b)
  BY <1>1 DEF ForwardAt
<1>3. t[k].kind # "blank" /\ t[k].alias # a
  BY <1>2, ManagedFields
<1>4. Kept(m, Len(s), k)
  BY <1>2, <1>3, DroppedLines
<1>5. PICK i \in 1..Len(s) : m[i] = k
  BY <1>4 DEF Kept
<1>6. i \in DOMAIN s /\ s[i] = t[k]
  <2>1. i \in DOMAIN s /\ Selects(s, t, m, Len(t))
    BY DEF DropsForwards
  <2> QED BY <1>5, <2>1, SelectsOrder
<1>7. Managed("begin", b) # Managed("sessionbegin", b)
  BY ManagedFields
<1>8. WholeAt(t, m[i], b)
  BY <1>1, <1>2, <1>5, <1>7 DEF WholeAt
<1>9. WholeAt(s, i, b)
  BY <1>6, <1>8, DropWhole
<1>10. ForwardAt(s, i, b)
  BY <1>2, <1>6, <1>9 DEF WholeAt
<1> QED BY <1>10 DEF Forwarded

\* A block that is put in leaves the others.
LEMMA InsertKeepsForwards ==
  ASSUME NEW s \in Seq(Line), NEW t \in Seq(Line), NEW f, NEW a \in Patterns, Inserted(s, t, f, a),
         \A i \in DOMAIN s : s[i] # Managed("begin", a), NEW b \in Patterns, Forwarded(s, b)
  PROVE  Forwarded(t, b)
<1>1. PICK k : ForwardAt(s, k, b)
  BY DEF Forwarded
<1>2. k \in DOMAIN s /\ s[k] = Managed("begin", b) /\ k \in 1..Len(s)
  BY <1>1 DEF ForwardAt
<1>3. Managed("begin", b) # Managed("sessionbegin", b)
  BY ManagedFields
<1>4. WholeAt(s, k, b)
  BY <1>1, <1>2, <1>3 DEF WholeAt
<1>5. PICK j : j = IF k < f THEN k ELSE k + 4
  OBVIOUS
<1>6. WholeAt(t, j, b)
  BY <1>2, <1>4, <1>5, InsertWhole
<1>7. t[j] = s[k]
  <2>1. k < f => k \in 1..f - 1
    BY <1>2 DEF Inserted
  <2>2. ~(k < f) => k \in f..Len(s)
    BY <1>2 DEF Inserted
  <2> QED BY <1>5, <2>1, <2>2 DEF Inserted
<1>8. ForwardAt(t, j, b)
  BY <1>2, <1>6, <1>7 DEF WholeAt
<1> QED BY <1>8 DEF Forwarded

\* Two texts one after the other have the forwards of both.
LEMMA JoinKeepsForwards ==
  ASSUME NEW s \in Seq(Line), NEW b \in Seq(Line), NEW c, Forwarded(s, c) \/ Forwarded(b, c)
  PROVE  Forwarded(s \o b, c)
<1>1. PICK t : t = s \o b /\ Joined(s, b, t)
  BY JoinedLines
<1>2. t \in Seq(Line)
  BY <1>1 DEF Joined
<1>3. ASSUME NEW k, ForwardAt(s, k, c) PROVE ForwardAt(t, k, c)
  <2>1. k \in DOMAIN s /\ k + 3 <= Len(s)
    BY <1>3 DEF ForwardAt
  <2>2. SameFrom(t, k, s, k, 3)
    BY <1>1, <2>1, JoinedRun
  <2> QED BY <1>2, <1>3, <2>2, SameBlocks
<1>4. ASSUME NEW k, ForwardAt(b, k, c) PROVE ForwardAt(t, Len(s) + k, c)
  <2>1. k \in DOMAIN b /\ k + 3 <= Len(b)
    BY <1>4 DEF ForwardAt
  <2>2. SameFrom(t, Len(s) + k, b, k, 3)
    BY <1>1, <2>1, JoinedRun
  <2> QED BY <1>2, <1>4, <2>2, SameBlocks
<1>5. Forwarded(t, c)
  BY <1>3, <1>4 DEF Forwarded
<1> QED BY <1>1, <1>5

\* The text with the forward of a has it, and those it had.
LEMMA InsertForwarded ==
  ASSUME NEW s \in Seq(Line), NEW a \in Patterns, \A i \in DOMAIN s : s[i] # Managed("begin", a)
  PROVE  /\ Forwarded(InsertBeforeHost(s, a, ForwardBlock(a)), a)
         /\ KeepsForwards(s, InsertBeforeHost(s, a, ForwardBlock(a)))
<1>1. PICK t : t = InsertBeforeHost(s, a, ForwardBlock(a))
  OBVIOUS
<1>2. /\ t \in Seq(Line)
      /\ \/ \E f : Inserted(s, t, f, a)
         \/ t = IF s = <<>> THEN ForwardBlock(a) ELSE Append(s, Blank) \o ForwardBlock(a)
  BY <1>1, InsertCases
<1>3. CASE \E f : Inserted(s, t, f, a)
  <2>1. PICK f : Inserted(s, t, f, a)
    BY <1>3
  <2>2. Forwarded(t, a)
    BY <2>1 DEF Inserted, Forwarded
  <2>3. \A b \in Patterns : Forwarded(s, b) => Forwarded(t, b)
    BY <1>2, <2>1, InsertKeepsForwards
  <2> QED BY <1>1, <2>2, <2>3 DEF KeepsForwards
<1>4. CASE t = IF s = <<>> THEN ForwardBlock(a) ELSE Append(s, Blank) \o ForwardBlock(a)
  <2>1. PICK b : b = ForwardBlock(a) /\ b \in Seq(Line)
    BY ForwardBlockFacts
  <2>2. Forwarded(b, a)
    <3>1. /\ Len(b) = 4 /\ b[1] = Managed("begin", a) /\ b[2] = Managed("host", a)
          /\ b[3] = Managed("forward", a) /\ b[4] = Managed("end", a)
      BY <2>1, ForwardBlockFacts
    <3>2. ForwardAt(b, 1, a)
      BY <3>1 DEF ForwardAt
    <3> QED BY <3>2 DEF Forwarded
  <2>3. PICK u : u \in Seq(Line) /\ t = u \o b /\ \A c \in Patterns : Forwarded(s, c) => Forwarded(u, c)
    <3>1. CASE s = <<>>
      <4>1. t = s \o b
        BY <1>4, <2>1, <3>1
      <4> QED BY <4>1
    <3>2. CASE s # <<>>
      <4>0. Blank \in Line
        BY DEF Blank, Managed, Line, Kinds, UserKinds, Patterns
      <4>1. <<Blank>> \in Seq(Line)
        BY <4>0
      <4>2. s \o <<Blank>> \in Seq(Line)
        BY <4>1, Concatenated
      <4>3. \A c : Forwarded(s, c) => Forwarded(s \o <<Blank>>, c)
        BY <4>1, JoinKeepsForwards
      <4>4. t = Append(s, Blank) \o b
        BY <1>4, <2>1, <3>2
      <4>5. Append(s, Blank) = s \o <<Blank>>
        BY <4>0, AppendIsConcat
      <4> QED BY <4>2, <4>3, <4>4, <4>5
    <3> QED BY <3>1, <3>2
  <2>4. Forwarded(t, a) /\ \A c \in Patterns : Forwarded(s, c) => Forwarded(t, c)
    BY <2>1, <2>2, <2>3, JoinKeepsForwards
  <2> QED BY <1>1, <2>4 DEF KeepsForwards
<1> QED BY <1>2, <1>3, <1>4

\* After InstallForward the text has the forward, and those it had.
LEMMA InstallForwarded ==
  ASSUME NEW t \in Seq(Line), Sound(t), NEW a \in Patterns
  PROVE  /\ InstallForward(t, a).out = "write" =>
              Forwarded(InstallForward(t, a).text, a) /\ KeepsForwards(t, InstallForward(t, a).text)
         /\ InstallForward(t, a).out = "same" => Forwarded(t, a)
<1>1. PICK r, new : r = WithoutForward(t, a) /\ new = InsertBeforeHost(r.kept, a, ForwardBlock(a))
  OBVIOUS
<1>2. CASE r.inBlock
  BY <1>1, <1>2 DEF InstallForward, Failed
<1>3. CASE ~r.inBlock
  <2>1. /\ r.kept \in Seq(Line) /\ \E m : DropsForwards(r.kept, t, m, a)
        /\ \A i \in DOMAIN r.kept : r.kept[i] # Managed("begin", a)
    BY <1>1, <1>3, WithoutForwardDrops DEF Sound
  <2>2. Forwarded(new, a) /\ KeepsForwards(r.kept, new)
    BY <1>1, <2>1, InsertForwarded
  <2>3. \A b \in Patterns : b # a /\ Forwarded(t, b) => Forwarded(r.kept, b)
    BY <2>1, DropKeepsForwards
  <2>4. KeepsForwards(t, new)
    BY <2>2, <2>3 DEF KeepsForwards
  <2>5. InstallForward(t, a) = IF r.removed /\ new = t THEN Same ELSE Updated(new)
    BY <1>1, <1>3 DEF InstallForward
  <2> QED BY <2>2, <2>4, <2>5 DEF Same, Updated
<1> QED BY <1>2, <1>3

\* A forward is the four lines of its block.
LEMMA ForwardedLines ==
  ASSUME NEW t \in Seq(Line), NEW a \in Patterns, Forwarded(t, a)
  PROVE  \E i \in DOMAIN t : i + 3 <= Len(t) /\ SubSeq(t, i, i + 3) = ForwardBlock(a)
<1>1. PICK i : ForwardAt(t, i, a)
  BY DEF Forwarded
<1>2. i \in DOMAIN t /\ i + 3 <= Len(t) /\ i \in Nat \ {0} /\ Len(t) \in Nat
  BY <1>1 DEF ForwardAt
<1>3. PICK b : b = ForwardBlock(a) /\ b \in Seq(Line) /\ Len(b) = 4
  BY ForwardBlockFacts
<1>4. PICK u : u = SubSeq(t, i, i + 3)
  OBVIOUS
<1>5. u \in Seq(Line) /\ Len(u) = 4 /\ \A d \in 1..4 : u[d] = t[i + d - 1]
  <2>1. i \in Int /\ i + 3 \in Int /\ i <= i + 3 /\ i + 3 - i + 1 = 4
    BY <1>2
  <2>2. \A k \in i..i + 3 : t[k] \in Line
    BY <1>2
  <2>3. /\ SubSeq(t, i, i + 3) \in Seq(Line)
        /\ Len(SubSeq(t, i, i + 3)) = IF i <= i + 3 THEN i + 3 - i + 1 ELSE 0
        /\ \A d \in 1..i + 3 - i + 1 : SubSeq(t, i, i + 3)[d] = t[i + d - 1]
    BY <2>1, <2>2, SubSeqProperties
  <2> QED BY <1>4, <2>1, <2>3
<1>6. ASSUME NEW d \in 1..4 PROVE u[d] = b[d]
  <2>1. d = 1 \/ d = 2 \/ d = 3 \/ d = 4
    OBVIOUS
  <2>2. i + 1 - 1 = i /\ i + 2 - 1 = i + 1 /\ i + 3 - 1 = i + 2 /\ i + 4 - 1 = i + 3
    BY <1>2
  <2>3. /\ b[1] = Managed("begin", a) /\ b[2] = Managed("host", a)
        /\ b[3] = Managed("forward", a) /\ b[4] = Managed("end", a)
    BY <1>3, ForwardBlockFacts
  <2>4. u[1] = t[i] /\ u[2] = t[i + 1] /\ u[3] = t[i + 2] /\ u[4] = t[i + 3]
    BY <1>5, <2>2
  <2> QED BY <1>1, <2>1, <2>3, <2>4 DEF ForwardAt
<1>7. u = b
  BY <1>3, <1>5, <1>6, SeqEqual
<1> QED BY <1>2, <1>3, <1>4, <1>7

-----------------------------------------------------------------------------
(* Whole blocks, and what uninstall leaves                                 *)

Ours(line) == line.by = "clipport" /\ line.kind # "blank"
BlockAt(t, j, b) == ForwardAt(t, j, b) \/ SessionAt(t, j, b)

\* Every line of Clipport is in a block of four lines, ...
InBlock(t, i) == \E j \in DOMAIN t, b \in Patterns : BlockAt(t, j, b) /\ i \in j..j + 3
Whole(t) == \A i \in DOMAIN t : Ours(t[i]) => InBlock(t, i)
\* ... and the user names every alias before the session block of it.
HostFirst(t) ==
  \A a \in Aliases : \E i \in DOMAIN t :
    /\ t[i] = Mine("host", a)
    /\ \A j \in DOMAIN t : t[j] = Managed("sessionbegin", a) => i < j
Intact(t) == Whole(t) /\ HostFirst(t)
NoneOurs(t) == \A i \in DOMAIN t : ~Ours(t[i])

\* The lines of a block.
LEMMA BlockLines ==
  ASSUME NEW t \in Seq(Line), NEW j, NEW b \in Patterns, BlockAt(t, j, b)
  PROVE  /\ j \in DOMAIN t /\ j + 3 \in DOMAIN t /\ j \in Nat \ {0} /\ DOMAIN t = 1..Len(t)
         /\ IsClipportBegin(t[j]) /\ IsClipportEnd(t[j + 3])
         /\ \A l \in j..j + 3 :
              /\ l \in DOMAIN t /\ l \in Nat /\ Ours(t[l]) /\ t[l].alias = b
              /\ t[l].kind = "host" => l = j + 1
              /\ IsClipportBegin(t[l]) => l = j
              /\ IsClipportEnd(t[l]) => l = j + 3
<1>1. j \in 1..Len(t) - 3 /\ Len(t) \in Nat /\ DOMAIN t = 1..Len(t)
  BY DEF BlockAt, ForwardAt, SessionAt
<1>2. /\ t[j] \in {Managed("begin", b), Managed("sessionbegin", b)}
      /\ t[j + 1] = Managed("host", b)
      /\ t[j + 2] \in {Managed("forward", b), Managed("localcommand", b)}
      /\ t[j + 3] \in {Managed("end", b), Managed("sessionend", b)}
  BY DEF BlockAt, ForwardAt, SessionAt
<1>3. /\ t[j].kind \in {"begin", "sessionbegin"} /\ t[j].by = "clipport" /\ t[j].alias = b
      /\ t[j + 1].kind = "host" /\ t[j + 1].by = "clipport" /\ t[j + 1].alias = b
      /\ t[j + 2].kind \in {"forward", "localcommand"} /\ t[j + 2].by = "clipport" /\ t[j + 2].alias = b
      /\ t[j + 3].kind \in {"end", "sessionend"} /\ t[j + 3].by = "clipport" /\ t[j + 3].alias = b
  BY <1>2, ManagedFields
<1>4. j \in DOMAIN t /\ j + 3 \in DOMAIN t /\ j \in Nat \ {0}
  BY <1>1
<1>5. ASSUME NEW l \in j..j + 3
      PROVE  /\ l \in DOMAIN t /\ l \in Nat /\ Ours(t[l]) /\ t[l].alias = b
             /\ t[l].kind = "host" => l = j + 1
             /\ IsClipportBegin(t[l]) => l = j
             /\ IsClipportEnd(t[l]) => l = j + 3
  <2>1. l \in DOMAIN t /\ l \in Nat /\ (l = j \/ l = j + 1 \/ l = j + 2 \/ l = j + 3)
    <3>1. l \in Nat /\ j <= l /\ l <= j + 3 /\ j >= 1 /\ j + 3 <= Len(t)
      BY <1>1, <1>5
    <3> QED BY <1>1, <1>4, <3>1
  <2>2. Ours(t[l]) /\ t[l].alias = b
    BY <1>3, <2>1 DEF Ours
  <2>3. t[l].kind = "host" => l = j + 1
    BY <1>3, <2>1
  <2>4. IsClipportBegin(t[l]) => l = j
    BY <1>3, <2>1 DEF IsClipportBegin
  <2>5. IsClipportEnd(t[l]) => l = j + 3
    BY <1>3, <2>1 DEF IsClipportEnd
  <2> QED BY <2>1, <2>2, <2>3, <2>4, <2>5
<1> QED BY <1>1, <1>3, <1>4, <1>5 DEF IsClipportBegin, IsClipportEnd

\* A block of which a line is kept is kept.
LEMMA BlockKept ==
  ASSUME NEW s \in Seq(Line), NEW t \in Seq(Line), NEW m, NEW a \in Patterns, DropsForwards(s, t, m, a),
         NEW j, NEW b \in Patterns, BlockAt(t, j, b), NEW k \in j..j + 3, Kept(m, Len(s), k),
         NEW l \in j..j + 3
  PROVE  Kept(m, Len(s), l)
<1> SUFFICES ASSUME ~Kept(m, Len(s), l) PROVE FALSE
  OBVIOUS
<1>0. /\ j \in DOMAIN t /\ j \in Nat /\ l \in DOMAIN t /\ Ours(t[l]) /\ t[l].alias = b
      /\ t[l].kind = "host" => l = j + 1
  BY BlockLines
<1>1. t[l].alias = a /\ t[l].kind \in {"begin", "host", "forward", "end"}
  BY <1>0, DroppedLines DEF Ours
<1>2. CASE ForwardAt(t, j, b)
  BY <1>0, <1>1, <1>2 DEF DropsForwards
<1>3. CASE SessionAt(t, j, b)
  <2>1. l = j \/ l = j + 1 \/ l = j + 2 \/ l = j + 3
    BY <1>0
  <2>2. t[l].kind = "host"
    BY <1>1, <1>3, <2>1, ManagedFields DEF SessionAt
  <2>3. l = j + 1 /\ l - 1 = j
    BY <1>0, <2>2
  <2>4. ForwardAt(t, j, a)
    BY <1>0, <2>2, <2>3, DroppedLines
  <2> QED BY <1>3, <2>4, ManagedFields DEF ForwardAt, SessionAt
<1> QED BY <1>2, <1>3 DEF BlockAt

\* What is selected whole is a block again.
LEMMA BlockSelected ==
  ASSUME NEW s \in Seq(Line), NEW t \in Seq(Line), NEW m, Selects(s, t, m, Len(t)),
         NEW j, NEW b \in Patterns, BlockAt(t, j, b), \A l \in j..j + 3 : Kept(m, Len(s), l),
         NEW i \in DOMAIN s, m[i] \in j..j + 3
  PROVE  InBlock(s, i)
<1>0. j \in Nat \ {0} /\ DOMAIN s = 1..Len(s) /\ Len(s) \in Nat
  BY BlockLines
<1>1. j \in j..j + 3 /\ j + 1 \in j..j + 3 /\ j + 2 \in j..j + 3 /\ j + 3 \in j..j + 3
  BY <1>0
<1>2. PICK i0 \in DOMAIN s : m[i0] = j
  BY <1>0, <1>1 DEF Kept
<1>3. PICK i1 \in DOMAIN s : m[i1] = j + 1
  BY <1>0, <1>1 DEF Kept
<1>4. PICK i2 \in DOMAIN s : m[i2] = j + 2
  BY <1>0, <1>1 DEF Kept
<1>5. PICK i3 \in DOMAIN s : m[i3] = j + 3
  BY <1>0, <1>1 DEF Kept
<1>6. m[i1] = m[i0] + 1 /\ m[i2] = m[i1] + 1 /\ m[i3] = m[i2] + 1
  BY <1>0, <1>2, <1>3, <1>4, <1>5
<1>7. i1 = i0 + 1 /\ i2 = i1 + 1 /\ i3 = i2 + 1
  BY <1>6, Neighbours
<1>8. i = i0 \/ i = i1 \/ i = i2 \/ i = i3
  <2>1. m[i] = m[i0] \/ m[i] = m[i1] \/ m[i] = m[i2] \/ m[i] = m[i3]
    BY <1>0, <1>2, <1>3, <1>4, <1>5
  <2> QED BY <2>1, SelectsOrder
<1>9. i0 \in Nat /\ i \in i0..i0 + 3
  BY <1>0, <1>7, <1>8
<1>10. BlockAt(s, i0, b)
  <2>1. \A k \in m[i0]..m[i0] + 3 : Kept(m, Len(s), k)
    BY <1>2
  <2> QED BY <1>2, <2>1, BlocksKept DEF BlockAt
<1> QED BY <1>9, <1>10 DEF InBlock

\* Dropping forwards leaves the rest as whole as it was.
LEMMA DropIntact ==
  ASSUME NEW s \in Seq(Line), NEW t \in Seq(Line), NEW m, NEW a \in Patterns, DropsForwards(s, t, m, a),
         Intact(t)
  PROVE  Intact(s)
<1>0. Selects(s, t, m, Len(t)) /\ DOMAIN s = 1..Len(s)
  BY DEF DropsForwards
<1>1. ASSUME NEW i \in DOMAIN s, Ours(s[i]) PROVE InBlock(s, i)
  <2>1. m[i] \in DOMAIN t /\ s[i] = t[m[i]] /\ Kept(m, Len(s), m[i])
    BY <1>0, SelectsOrder DEF Kept
  <2>2. PICK j \in DOMAIN t, b \in Patterns : BlockAt(t, j, b) /\ m[i] \in j..j + 3
    BY <1>1, <2>1 DEF Intact, Whole, InBlock
  <2>3. \A l \in j..j + 3 : Kept(m, Len(s), l)
    BY <2>1, <2>2, BlockKept
  <2> QED BY <1>0, <2>2, <2>3, BlockSelected
<1>2. ASSUME NEW c \in Aliases
      PROVE  \E i \in DOMAIN s : /\ s[i] = Mine("host", c)
                                 /\ \A j \in DOMAIN s : s[j] = Managed("sessionbegin", c) => i < j
  <2>1. PICK k \in DOMAIN t : /\ t[k] = Mine("host", c)
                              /\ \A j \in DOMAIN t : t[j] = Managed("sessionbegin", c) => k < j
    BY DEF Intact, HostFirst
  <2>2. Kept(m, Len(s), k)
    <3>1. t[k].kind = "host" /\ t[k].by = "user"
      BY <2>1, ManagedFields
    <3> QED BY <3>1, DroppedLines
  <2>3. PICK i \in DOMAIN s : m[i] = k
    BY <1>0, <2>2 DEF Kept
  <2>4. s[i] = Mine("host", c)
    BY <1>0, <2>1, <2>3, SelectsOrder
  <2>5. ASSUME NEW j \in DOMAIN s, s[j] = Managed("sessionbegin", c) PROVE i < j
    <3>1. m[j] \in DOMAIN t /\ s[j] = t[m[j]]
      BY <1>0, SelectsOrder
    <3>2. m[i] < m[j]
      BY <2>1, <2>3, <2>5, <3>1
    <3> QED BY <1>0, <3>2, SelectsOrder
  <2> QED BY <2>4, <2>5
<1> QED BY <1>1, <1>2 DEF Intact, Whole, HostFirst

\* The first section of an alias is one of the user, and so a block that is put
\* before it is not put into another.
LEMMA InsertIntact ==
  ASSUME NEW s \in Seq(Line), NEW t \in Seq(Line), NEW f, NEW a \in Aliases, Inserted(s, t, f, a),
         \A i \in DOMAIN s : s[i] # Managed("begin", a), Intact(s)
  PROVE  Intact(t)
<1>0. a \in Patterns
  BY DEF Patterns
<1>1. /\ f \in Nat \ {0} /\ f <= Len(s) /\ Len(s) \in Nat /\ Len(t) = Len(s) + 4
      /\ DOMAIN s = 1..Len(s) /\ DOMAIN t = 1..Len(s) + 4 /\ f \in DOMAIN s
      /\ s[f].kind = "host" /\ s[f].alias = a
      /\ \A i \in 1..f - 1 : ~(s[i].kind = "host" /\ s[i].alias = a)
      /\ \A i \in 1..f - 1 : t[i] = s[i]
      /\ \A i \in f..Len(s) : t[i + 4] = s[i]
      /\ ForwardAt(t, f, a)
  BY <1>0, InsertedLines DEF Inserted
<1>2. ~Ours(s[f])
  <2> SUFFICES ASSUME Ours(s[f]) PROVE FALSE
    OBVIOUS
  <2>1. PICK j \in DOMAIN s, b \in Patterns : BlockAt(s, j, b) /\ f \in j..j + 3
    BY <1>1 DEF Intact, Whole, InBlock
  <2>2. f = j + 1 /\ b = a /\ j \in Nat
    BY <1>1, <2>1, BlockLines
  <2>3. SessionAt(s, j, a)
    BY <2>1, <2>2 DEF BlockAt, ForwardAt
  <2>4. PICK i \in DOMAIN s : s[i] = Mine("host", a) /\ i < j
    BY <2>1, <2>3 DEF Intact, HostFirst, SessionAt
  <2>5. i \in 1..f - 1 /\ s[i].kind = "host" /\ s[i].alias = a
    BY <1>1, <2>2, <2>4, ManagedFields
  <2> QED BY <1>1, <2>5
\* Where a line of s is in t.
<1>3. ASSUME NEW j \in DOMAIN s, NEW b \in Patterns, BlockAt(s, j, b)
      PROVE  /\ (j + 3 < f \/ j > f) /\ j \in Nat
             /\ j + 3 < f => BlockAt(t, j, b)
             /\ j > f => BlockAt(t, j + 4, b)
  <2>1. j \in Nat /\ j + 3 <= Len(s) /\ f \notin j..j + 3
    BY <1>1, <1>2, <1>3, BlockLines
  <2>2. j + 3 < f \/ j > f
    BY <1>1, <2>1
  <2>3. /\ j + 3 < f => SameFrom(t, j, s, j, 3)
        /\ j >= f => SameFrom(t, j + 4, s, j, 3)
    BY <1>0, <2>1, InsertedRun
  <2>4. /\ SameFrom(t, j, s, j, 3) => BlockAt(t, j, b)
        /\ SameFrom(t, j + 4, s, j, 3) => BlockAt(t, j + 4, b)
    BY <1>3, SameBlocks DEF BlockAt
  <2>5. j > f => j >= f
    BY <1>1, <2>1
  <2> QED BY <2>1, <2>2, <2>3, <2>4, <2>5
<1>4. ASSUME NEW k \in DOMAIN t
      PROVE  \/ k < f /\ k \in DOMAIN s /\ t[k] = s[k]
             \/ k \in f..f + 3
             \/ k - 4 >= f /\ k - 4 \in DOMAIN s /\ t[k] = s[k - 4]
  <2>1. CASE k < f
    BY <1>1, <2>1
  <2>2. CASE k \in f..f + 3
    BY <2>2
  <2>3. CASE k >= f + 4
    <3>1. k - 4 \in f..Len(s) /\ k - 4 + 4 = k
      BY <1>1, <2>3
    <3> QED BY <1>1, <3>1
  <2> QED BY <1>1, <2>1, <2>2, <2>3
<1>5. ASSUME NEW k \in DOMAIN t, Ours(t[k]) PROVE InBlock(t, k)
  <2>1. CASE k < f /\ k \in DOMAIN s /\ t[k] = s[k]
    <3>1. PICK j \in DOMAIN s, b \in Patterns : BlockAt(s, j, b) /\ k \in j..j + 3
      BY <1>5, <2>1 DEF Intact, Whole, InBlock
    <3>2. j \in Nat /\ ~(j > f)
      BY <1>1, <2>1, <3>1
    <3>3. BlockAt(t, j, b) /\ j \in DOMAIN t
      BY <1>1, <1>3, <3>1, <3>2
    <3> QED BY <3>1, <3>3 DEF InBlock
  <2>2. CASE k \in f..f + 3
    BY <1>0, <1>1, <2>2 DEF InBlock, BlockAt
  <2>3. CASE k - 4 >= f /\ k - 4 \in DOMAIN s /\ t[k] = s[k - 4]
    <3>1. PICK j \in DOMAIN s, b \in Patterns : BlockAt(s, j, b) /\ k - 4 \in j..j + 3
      BY <1>5, <2>3 DEF Intact, Whole, InBlock
    <3>2. j \in Nat /\ ~(j + 3 < f)
      BY <1>1, <2>3, <3>1
    <3>3. BlockAt(t, j + 4, b) /\ j + 4 \in DOMAIN t
      BY <1>1, <1>3, <3>1, <3>2
    <3>4. k \in j + 4..j + 4 + 3
      BY <1>1, <3>1, <3>2
    <3> QED BY <3>1, <3>3, <3>4 DEF InBlock
  <2> QED BY <1>4, <2>1, <2>2, <2>3
<1>6. ASSUME NEW c \in Aliases
      PROVE  \E i \in DOMAIN t : /\ t[i] = Mine("host", c)
                                 /\ \A j \in DOMAIN t : t[j] = Managed("sessionbegin", c) => i < j
  <2>1. PICK g \in DOMAIN s : /\ s[g] = Mine("host", c)
                              /\ \A j \in DOMAIN s : s[j] = Managed("sessionbegin", c) => g < j
    BY DEF Intact, HostFirst
  <2>2. PICK i : i = IF g < f THEN g ELSE g + 4
    OBVIOUS
  <2>3. i \in DOMAIN t /\ t[i] = Mine("host", c) /\ i <= g + 4 /\ (g < f => i = g) /\ g \in Nat
    <3>1. CASE g < f
      <4>1. g \in 1..f - 1
        BY <1>1, <3>1
      <4> QED BY <1>1, <2>1, <2>2, <3>1, <4>1
    <3>2. CASE ~(g < f)
      <4>1. g \in f..Len(s)
        BY <1>1, <3>2
      <4> QED BY <1>1, <2>1, <2>2, <3>2, <4>1
    <3> QED BY <3>1, <3>2
  <2>4. ASSUME NEW j \in DOMAIN t, t[j] = Managed("sessionbegin", c) PROVE i < j
    <3>1. CASE j < f /\ j \in DOMAIN s /\ t[j] = s[j]
      <4>1. g < j
        BY <2>1, <2>4, <3>1
      <4>2. g < f
        BY <1>1, <3>1, <4>1
      <4> QED BY <2>3, <4>1, <4>2
    <3>2. CASE j \in f..f + 3
      <4>1. IsClipportBegin(t[j]) /\ t[j].kind = "sessionbegin"
        BY <2>4, ManagedFields DEF IsClipportBegin
      <4>2. BlockAt(t, f, a) /\ t \in Seq(Line)
        BY <1>1 DEF BlockAt
      <4>3. j = f
        BY <1>0, <3>2, <4>1, <4>2, BlockLines
      <4>4. t[f].kind = "begin"
        BY <1>1, ManagedFields DEF ForwardAt
      <4> QED BY <4>1, <4>3, <4>4
    <3>3. CASE j - 4 >= f /\ j - 4 \in DOMAIN s /\ t[j] = s[j - 4]
      <4>1. g < j - 4
        BY <2>1, <2>4, <3>3
      <4> QED BY <1>1, <2>3, <4>1
    <3> QED BY <1>4, <3>1, <3>2, <3>3
  <2> QED BY <2>3, <2>4
<1> QED BY <1>5, <1>6 DEF Intact, Whole, HostFirst

\* Whole blocks, or lines of the user, may be added at the end.
LEMMA JoinIntact ==
  ASSUME NEW s \in Seq(Line), NEW b \in Seq(Line), Whole(b)
  PROVE  /\ Intact(s) => Intact(s \o b)
         /\ NoneOurs(s) /\ NoneOurs(b) => NoneOurs(s \o b)
<1>1. PICK t : t = s \o b /\ Joined(s, b, t)
  BY JoinedLines
<1>2. t \in Seq(Line) /\ Len(s) \in Nat /\ DOMAIN s = 1..Len(s) /\ DOMAIN b = 1..Len(b)
      /\ DOMAIN t = 1..Len(s) + Len(b)
  BY <1>1 DEF Joined
<1>3. ASSUME NEW i \in DOMAIN s, InBlock(s, i) PROVE InBlock(t, i)
  <2>1. PICK j \in DOMAIN s, c \in Patterns : BlockAt(s, j, c) /\ i \in j..j + 3
    BY <1>3 DEF InBlock
  <2>2. j + 3 <= Len(s)
    BY <1>2, <2>1, BlockLines
  <2>3. SameFrom(t, j, s, j, 3)
    BY <1>1, <2>1, <2>2, JoinedRun
  <2>4. BlockAt(t, j, c) /\ j \in DOMAIN t
    BY <1>1, <1>2, <2>1, <2>3, SameBlocks DEF BlockAt, Joined
  <2> QED BY <2>1, <2>4 DEF InBlock
<1>4. ASSUME NEW k \in DOMAIN b, InBlock(b, k) PROVE InBlock(t, Len(s) + k)
  <2>1. PICK j \in DOMAIN b, c \in Patterns : BlockAt(b, j, c) /\ k \in j..j + 3
    BY <1>4 DEF InBlock
  <2>2. j + 3 <= Len(b) /\ j \in Nat
    BY <1>2, <2>1, BlockLines
  <2>3. SameFrom(t, Len(s) + j, b, j, 3)
    BY <1>1, <2>1, <2>2, JoinedRun
  <2>4. BlockAt(t, Len(s) + j, c) /\ Len(s) + j \in DOMAIN t
    BY <1>1, <1>2, <2>1, <2>3, SameBlocks DEF BlockAt, Joined
  <2>5. Len(s) + k \in Len(s) + j..Len(s) + j + 3
    BY <1>2, <2>1, <2>2
  <2> QED BY <2>1, <2>4, <2>5 DEF InBlock
<1>5. ASSUME NEW i \in DOMAIN t
      PROVE  \/ i \in DOMAIN s /\ t[i] = s[i]
             \/ \E k \in DOMAIN b : i = Len(s) + k /\ t[i] = b[k]
  BY <1>1 DEF Joined
<1>6. ASSUME Intact(s) PROVE Intact(t)
  <2>1. ASSUME NEW i \in DOMAIN t, Ours(t[i]) PROVE InBlock(t, i)
    <3>1. CASE i \in DOMAIN s /\ t[i] = s[i]
      BY <1>3, <1>6, <2>1, <3>1 DEF Intact, Whole
    <3>2. ASSUME NEW k \in DOMAIN b, i = Len(s) + k, t[i] = b[k] PROVE InBlock(t, i)
      BY <1>4, <2>1, <3>2 DEF Whole
    <3> QED BY <1>5, <3>1, <3>2
  <2>2. ASSUME NEW c \in Aliases
        PROVE  \E i \in DOMAIN t : /\ t[i] = Mine("host", c)
                                   /\ \A j \in DOMAIN t : t[j] = Managed("sessionbegin", c) => i < j
    <3>1. PICK i \in DOMAIN s : /\ s[i] = Mine("host", c)
                                /\ \A j \in DOMAIN s : s[j] = Managed("sessionbegin", c) => i < j
      BY <1>6 DEF Intact, HostFirst
    <3>2. i \in DOMAIN t /\ t[i] = Mine("host", c)
      BY <1>1, <3>1 DEF Joined
    <3>3. ASSUME NEW j \in DOMAIN t, t[j] = Managed("sessionbegin", c) PROVE i < j
      <4>1. CASE j \in DOMAIN s /\ t[j] = s[j]
        BY <3>1, <3>3, <4>1
      <4>2. ASSUME NEW k \in DOMAIN b, j = Len(s) + k PROVE i < j
        BY <1>2, <4>2
      <4> QED BY <1>5, <4>1, <4>2
    <3> QED BY <3>2, <3>3
  <2> QED BY <2>1, <2>2 DEF Intact, Whole, HostFirst
<1>7. NoneOurs(s) /\ NoneOurs(b) => NoneOurs(t)
  BY <1>5 DEF NoneOurs
<1> QED BY <1>1, <1>6, <1>7

-----------------------------------------------------------------------------
\* InstallForward keeps blocks whole, ...
LEMMA InstallForwardIntact ==
  ASSUME NEW t \in Seq(Line), Marked(t), Intact(t), NEW a \in Aliases,
         InstallForward(t, a).out = "write"
  PROVE  Intact(InstallForward(t, a).text)
<1>0. a \in Patterns
  BY DEF Patterns
<1>1. PICK r, new : r = WithoutForward(t, a) /\ new = InsertBeforeHost(r.kept, a, ForwardBlock(a))
  OBVIOUS
<1>2. ~r.inBlock
  BY <1>1 DEF InstallForward, Failed
<1>3. /\ r.kept \in Seq(Line) /\ \E m : DropsForwards(r.kept, t, m, a)
      /\ \A i \in DOMAIN r.kept : r.kept[i] # Managed("begin", a)
  BY <1>0, <1>1, <1>2, WithoutForwardDrops
<1>4. Intact(r.kept)
  BY <1>0, <1>3, DropIntact
<1>5. PICK g \in DOMAIN r.kept : r.kept[g] = Mine("host", a)
  BY <1>4 DEF Intact, HostFirst
<1>6. r.kept[g].kind = "host" /\ r.kept[g].alias = a
  BY <1>5, ManagedFields
<1>7. new \in Seq(Line) /\ \E f : Inserted(r.kept, new, f, a)
  BY <1>0, <1>1, <1>3, <1>5, <1>6, InsertCases
<1>8. Intact(new)
  BY <1>3, <1>4, <1>7, InsertIntact
<1>9. InstallForward(t, a).text = new
  BY <1>1 DEF InstallForward, Failed, Same, Updated
<1> QED BY <1>8, <1>9

\* ... so does RemoveForward, ...
LEMMA RemoveForwardIntact ==
  ASSUME NEW t \in Seq(Line), Marked(t), Intact(t), NEW a \in Patterns,
         RemoveForward(t, a).out = "write"
  PROVE  Intact(RemoveForward(t, a).text)
<1>1. PICK r : r = WithoutForward(t, a)
  OBVIOUS
<1>2. RemoveForward(t, a) = IF r.inBlock THEN Failed ELSE IF r.removed THEN Updated(r.kept) ELSE Same
  BY <1>1 DEF RemoveForward, Removed
<1>3. ~r.inBlock /\ RemoveForward(t, a).text = r.kept
  BY <1>2 DEF Failed, Same, Updated
<1>4. r.kept \in Seq(Line) /\ \E m : DropsForwards(r.kept, t, m, a)
  BY <1>1, <1>3, WithoutForwardDrops
<1> QED BY <1>3, <1>4, DropIntact

\* ... and InstallSessionHook.
LEMMA InstallHookIntact ==
  ASSUME NEW t \in Seq(Line), Marked(t), Intact(t), NEW a \in Patterns,
         InstallSessionHook(t, a).out = "write"
  PROVE  Intact(InstallSessionHook(t, a).text)
<1>1. PICK r : r = UpdateSessionBlock(t, a, SessionBlock(a))
  OBVIOUS
<1>2. InstallSessionHook(t, a) = r /\ r.out = "write"
  BY <1>1 DEF InstallSessionHook, Failed, Same
<1>3. r = Updated(t) \/ r = Updated(Append(t, Blank) \o SessionBlock(a))
  BY <1>1, <1>2, UpdateCases DEF Failed
<1>4. CASE r = Updated(t)
  BY <1>2, <1>4 DEF Updated
<1>5. CASE r = Updated(Append(t, Blank) \o SessionBlock(a))
  <2>1. PICK b : b = SessionBlock(a) /\ b \in Seq(Line) /\ Len(b) = 4
    BY ForwardBlockFacts
  <2>2. BlockAt(b, 1, a)
    <3>1. /\ b[1] = Managed("sessionbegin", a) /\ b[2] = Managed("host", a)
          /\ b[3] = Managed("localcommand", a) /\ b[4] = Managed("sessionend", a)
      BY <2>1, ForwardBlockFacts
    <3> QED BY <2>1, <3>1 DEF BlockAt, SessionAt
  <2>3. Whole(b)
    <3>1. DOMAIN b = 1..4 /\ 1 \in DOMAIN b /\ \A i \in DOMAIN b : i \in 1..1 + 3
      BY <2>1
    <3> QED BY <2>2, <3>1 DEF Whole, InBlock
  <2>4. Blank \in Line /\ ~Ours(Blank)
    BY ManagedFields DEF Blank, Managed, Line, Kinds, UserKinds, Patterns, Ours
  <2>5. <<Blank>> \in Seq(Line) /\ Whole(<<Blank>>)
    BY <2>4 DEF Whole
  <2>6. t \o <<Blank>> \in Seq(Line) /\ Intact(t \o <<Blank>>)
    BY <2>5, Concatenated, JoinIntact
  <2>7. Intact((t \o <<Blank>>) \o b)
    BY <2>1, <2>3, <2>6, JoinIntact
  <2>8. Append(t, Blank) = t \o <<Blank>>
    BY <2>4, AppendIsConcat
  <2> QED BY <1>2, <1>5, <2>1, <2>7, <2>8 DEF Updated
<1> QED BY <1>3, <1>4, <1>5

\* A text of the user.
LEMMA UserIntact ==
  ASSUME NEW t \in Seq(UserLine)
  PROVE  /\ NoneOurs(t) /\ Whole(t)
         /\ (\A a \in Aliases : \E i \in DOMAIN t : t[i] = Mine("host", a)) => Intact(t)
<1>0. \A i \in DOMAIN t : t[i] \in UserLine
  OBVIOUS
<1>1. \A i \in DOMAIN t : t[i].by = "user"
  BY <1>0 DEF UserLine
<1>2. NoneOurs(t) /\ Whole(t)
  BY <1>1 DEF NoneOurs, Whole, Ours
<1>3. \A i \in DOMAIN t, a \in Aliases : t[i] # Managed("sessionbegin", a)
  BY <1>1, ManagedFields
<1> QED BY <1>2, <1>3 DEF Intact, HostFirst

\* After RemoveAllClipportBlocks of whole blocks no line of Clipport is left, and
\* the user still names every alias.
LEMMA RemoveAllCleans ==
  ASSUME NEW t \in Seq(Line), Intact(t)
  PROVE  /\ RemoveAllClipportBlocks(t).out = "write" =>
              NoneOurs(RemoveAllClipportBlocks(t).text) /\ Intact(RemoveAllClipportBlocks(t).text)
         /\ RemoveAllClipportBlocks(t).out = "same" => NoneOurs(t)
<1> DEFINE r == RemoveBlocks(t, ClipportBegins, ClipportEnds)
<1>0. ClipportBegins \cap ClipportEnds = {}
  BY DEF ClipportBegins, ClipportEnds, IsClipportBegin, IsClipportEnd
<1>n. PICK N : N = Len(t) /\ N \in Nat /\ DOMAIN t = 1..N
  OBVIOUS
<1>1. ScanInv(r, t, ClipportBegins, ClipportEnds, N)
  BY <1>0, <1>n, RemoveBlocksKeeps
<1> HIDE DEF r
<1>2. RemoveAllClipportBlocks(t) = IF r.inBlock THEN Failed ELSE IF r.removed THEN Updated(r.kept) ELSE Same
  BY DEF RemoveAllClipportBlocks, r, Removed
<1>3. PICK kept : kept = r.kept /\ kept \in Seq(Line)
  BY <1>1 DEF ScanInv, ScanState
<1>4. PICK m : Selects(kept, t, m, N) /\ KeepsRest(kept, t, m, ClipportBegins, ClipportEnds, N)
  BY <1>1, <1>3 DEF ScanInv
<1>5. \A k \in DOMAIN t : /\ IsClipportBegin(t[k]) <=> t[k] \in ClipportBegins
                          /\ IsClipportEnd(t[k]) <=> t[k] \in ClipportEnds
  BY DEF ClipportBegins, ClipportEnds
\* What is in a block is removed, ...
<1>6. ASSUME NEW k \in DOMAIN t, Ours(t[k]) PROVE Covered(t, ClipportBegins, ClipportEnds, k)
  <2>1. PICK j \in DOMAIN t, b \in Patterns : BlockAt(t, j, b) /\ k \in j..j + 3
    BY <1>6 DEF Intact, Whole, InBlock
  <2>2. j \in Nat \ {0} /\ t[j] \in ClipportBegins /\ j \in 1..k /\ k \in Nat
    BY <1>5, <1>n, <2>1, BlockLines
  <2>3. \A l \in j..k - 1 : t[l] \notin ClipportEnds
    <3> SUFFICES ASSUME NEW l \in j..k - 1, t[l] \in ClipportEnds PROVE FALSE
      OBVIOUS
    <3>1. l \in j..j + 3 /\ l # j + 3
      BY <2>1, <2>2
    <3>2. l \in DOMAIN t /\ (IsClipportEnd(t[l]) => l = j + 3)
      BY <2>1, <3>1, BlockLines
    <3> QED BY <1>5, <3>1, <3>2
  <2> QED BY <2>2, <2>3 DEF Covered
\* ... and what is not is not.
<1>7. ASSUME NEW k \in DOMAIN t, ~Ours(t[k]) PROVE ~Covered(t, ClipportBegins, ClipportEnds, k)
  <2> SUFFICES ASSUME NEW i \in 1..k, t[i] \in ClipportBegins, \A l \in i..k - 1 : t[l] \notin ClipportEnds
               PROVE  FALSE
    BY DEF Covered
  <2>1. i \in DOMAIN t /\ i \in Nat /\ k \in Nat /\ IsClipportBegin(t[i])
    BY <1>5, <1>n
  <2>2. Ours(t[i])
    <3>1. t[i] \in Line /\ t[i].kind \in {"begin", "sessionbegin"}
      BY <2>1 DEF IsClipportBegin
    <3> QED BY <3>1, LineForm DEF Ours, UserKinds
  <2>3. PICK j \in DOMAIN t, b \in Patterns : BlockAt(t, j, b) /\ i \in j..j + 3
    BY <2>1, <2>2 DEF Intact, Whole, InBlock
  <2>4. i = j /\ k \notin j..j + 3 /\ j + 3 \in DOMAIN t /\ t[j + 3] \in ClipportEnds
    BY <1>5, <1>7, <2>1, <2>3, BlockLines
  <2>5. j + 3 \in i..k - 1
    BY <2>1, <2>4
  <2> QED BY <2>4, <2>5
<1>8. \A i \in DOMAIN kept : m[i] \in DOMAIN t /\ kept[i] = t[m[i]] /\ i \in 1..Len(kept)
  BY <1>3, <1>4, <1>n, SelectsOrder
<1>9. NoneOurs(kept)
  <2> SUFFICES ASSUME NEW i \in DOMAIN kept, Ours(kept[i]) PROVE FALSE
    BY DEF NoneOurs
  <2>1. Covered(t, ClipportBegins, ClipportEnds, m[i])
    BY <1>6, <1>8
  <2> QED BY <1>4, <1>8, <2>1 DEF KeepsRest
<1>10. Intact(kept)
  <2>1. Whole(kept)
    BY <1>9 DEF Whole, NoneOurs
  <2>2. ASSUME NEW a \in Aliases
        PROVE  \E i \in DOMAIN kept : /\ kept[i] = Mine("host", a)
                                      /\ \A j \in DOMAIN kept : kept[j] = Managed("sessionbegin", a) => i < j
    <3>1. PICK k \in DOMAIN t : t[k] = Mine("host", a)
      BY DEF Intact, HostFirst
    <3>2. t[k].kind = "host" /\ ~Ours(t[k])
      BY <3>1, ManagedFields DEF Ours
    <3>3. PICK i \in 1..Len(kept) : m[i] = k
      BY <1>4, <1>7, <1>n, <3>2 DEF KeepsRest
    <3>4. i \in DOMAIN kept /\ kept[i] = Mine("host", a)
      BY <1>3, <1>8, <3>1, <3>3
    <3>5. \A j \in DOMAIN kept : kept[j] # Managed("sessionbegin", a)
      BY <1>9, ManagedFields DEF NoneOurs, Ours
    <3> QED BY <3>4, <3>5
  <2> QED BY <2>1, <2>2 DEF Intact, HostFirst
<1>11. ASSUME RemoveAllClipportBlocks(t).out = "write"
       PROVE  NoneOurs(RemoveAllClipportBlocks(t).text) /\ Intact(RemoveAllClipportBlocks(t).text)
  <2>1. RemoveAllClipportBlocks(t).text = kept
    BY <1>2, <1>3, <1>11 DEF Failed, Same, Updated
  <2> QED BY <1>9, <1>10, <2>1
<1>12. ASSUME RemoveAllClipportBlocks(t).out = "same" PROVE NoneOurs(t)
  <2>1. ~r.removed
    BY <1>2, <1>12 DEF Failed, Same, Updated
  <2>2. \A k \in DOMAIN t : t[k] \notin ClipportBegins
    BY <1>1, <1>n, <2>1 DEF ScanInv
  <2> SUFFICES ASSUME NEW k \in DOMAIN t, Ours(t[k]) PROVE FALSE
    BY DEF NoneOurs
  <2>3. PICK j \in DOMAIN t, b \in Patterns : BlockAt(t, j, b)
    BY DEF Intact, Whole, InBlock
  <2> QED BY <1>5, <2>2, <2>3, BlockLines
<1> QED BY <1>11, <1>12

-----------------------------------------------------------------------------
(* The steps of the file                                                   *)

\* The file is sound, an edit writes what keeps what it read, and as long as no
\* write was torn or raced, no block is cut off and the user's lines are there.
FileInv ==
  /\ file \in Seq(Line) /\ Sound(file)
  /\ DOMAIN edit = {"stage", "read", "new"} /\ edit.new \in Seq(Line)
  /\ edit.stage # "idle" => Keeps(edit.read, edit.new)
  /\ ~broken /\ ~raced => Clean(file) /\ UserLines(file) = mine

\* What the user has written before Clipport is sound.
LEMMA FileStart == FileInit => FileInv
<1> SUFFICES ASSUME FileInit PROVE FileInv
  OBVIOUS
<1>1. file \in Seq(Line) /\ Sound(file) /\ Clean(file)
  BY FilesAssumption, UserTexts, PlainSound DEF FileInit
<1>2. DOMAIN edit = {"stage", "read", "new"} /\ edit.new \in Seq(Line) /\ edit.stage = "idle"
  BY DEF FileInit, NoEdit
<1> QED BY <1>1, <1>2 DEF FileInit, FileInv

\* An edit that keeps what it reads keeps the invariant.
LEMMA ReadStep ==
  ASSUME FileInv, NEW result, result.out = "write" => Keeps(file, result.text), Read(result)
  PROVE  FileInv'
<1>1. UNCHANGED <<file, raced, broken, mine>>
  BY DEF Read
<1>2. CASE result.out = "write"
  <2>1. edit' = [stage |-> "backup", read |-> file, new |-> result.text]
    BY <1>2 DEF Read
  <2>2. Keeps(edit'.read, edit'.new) /\ edit'.new \in Seq(Line) /\ DOMAIN edit' = {"stage", "read", "new"}
    BY <1>2, <2>1 DEF Keeps
  <2> QED BY <1>1, <2>2 DEF FileInv
<1>3. CASE result.out # "write"
  <2>1. edit' = edit
    BY <1>3 DEF Read
  <2> QED BY <1>1, <2>1 DEF FileInv
<1> QED BY <1>2, <1>3

\* So does the user.
LEMMA SaveStep ==
  ASSUME FileInv, Save
  PROVE  FileInv'
<1>1. UNCHANGED <<edit, raced>> /\ mine' = UserLines(file')
  BY DEF Save
<1>2. file' \in Seq(Line) /\ Sound(file') /\ (~broken' /\ ~raced' => Clean(file'))
  <2>1. ASSUME NEW section \in Sections, file' = file \o section, UNCHANGED broken
        PROVE  file' \in Seq(Line) /\ Sound(file') /\ (~broken' /\ ~raced' => Clean(file'))
    <3>1. section \in Seq(UserLine) /\ Hosted(section)
      BY SectionsAssumption DEF Hosted
    <3>2. /\ section \in Seq(Line) /\ Plain(section)
          /\ \A i \in DOMAIN section : section[i].kind \in UserKinds
      BY <3>1, UserTexts
    <3>3. Joins(file, section)
      BY <3>1, <3>2, PlainJoins DEF FileInv
    <3>4. Sound(file') /\ (Clean(file) => Clean(file'))
      BY <2>1, <3>2, <3>3, JoinSound DEF FileInv
    <3>5. file' \in Seq(Line)
      BY <2>1, <3>2 DEF FileInv
    <3> QED BY <1>1, <2>1, <3>4, <3>5 DEF FileInv
  <2>2. ASSUME file' \in InitialFiles
        PROVE  file' \in Seq(Line) /\ Sound(file') /\ Clean(file')
    BY <2>2, FilesAssumption, UserTexts, PlainSound
  <2> QED BY <2>1, <2>2 DEF Save
<1> QED BY <1>1, <1>2 DEF FileInv

\* And every other step of the file.
LEMMA FileStep ==
  ASSUME FileInv, Backup \/ Write \/ EditFails \/ WriteTorn \/ Save \/ UNCHANGED fileVars
  PROVE  FileInv'
<1>1. CASE Backup
  BY <1>1 DEF Backup, FileInv
<1>2. CASE Write
  <2>1. Keeps(edit.read, edit.new) /\ file' = edit.new /\ edit' = NoEdit /\ mine' = mine /\ broken' = broken
        /\ (~raced' => ~raced /\ file = edit.read)
    BY <1>2 DEF Write, FileInv
  <2>2. file' \in Seq(Line) /\ Sound(file')
    BY <2>1 DEF Keeps
  <2>3. ~broken' /\ ~raced' => Clean(file') /\ UserLines(file') = mine'
    BY <2>1 DEF FileInv, Keeps
  <2>4. DOMAIN edit' = {"stage", "read", "new"} /\ edit'.new \in Seq(Line) /\ edit'.stage = "idle"
    BY <2>1 DEF NoEdit
  <2> QED BY <2>2, <2>3, <2>4 DEF FileInv
<1>3. CASE EditFails
  BY <1>3 DEF EditFails, NoEdit, FileInv
<1>4. CASE WriteTorn
  <2>1. PICK n \in 0..Len(edit.new) - 1 : file' = SubSeq(edit.new, 1, n)
    BY <1>4 DEF WriteTorn
  <2>2. edit' = NoEdit /\ broken' = TRUE /\ edit.new \in Seq(Line) /\ Sound(edit.new)
    BY <1>4 DEF WriteTorn, FileInv, Keeps
  <2>3. n \in 0..Len(edit.new)
    BY <2>2
  <2>4. file' \in Seq(Line) /\ Sound(file')
    BY <2>1, <2>2, <2>3, PrefixSound
  <2>5. DOMAIN edit' = {"stage", "read", "new"} /\ edit'.new \in Seq(Line) /\ edit'.stage = "idle"
    BY <2>2 DEF NoEdit
  <2> QED BY <2>2, <2>4, <2>5 DEF FileInv
<1>5. CASE Save
  BY <1>5, SaveStep
<1>6. CASE UNCHANGED fileVars
  BY <1>6 DEF fileVars, FileInv
<1> QED BY <1>1, <1>2, <1>3, <1>4, <1>5, <1>6

\* What the invariant is for.
LEMMA FileInvHolds == FileInv => UserLinesKept /\ ForwardFirst
  BY DEF FileInv, UserLinesKept, ForwardFirst, Sound, Ordered
=============================================================================
