-------------------------- MODULE ShardRecoveryProofs --------------------------
(***************************************************************************)
(* Proofs about ShardRecovery: what a fault costs the shard file, that the *)
(* file is current between saves, what a rebuild restores of the rows, and *)
(* that only a file that was written to is called damaged.                 *)
(***************************************************************************)
EXTENDS ShardRecovery, FiniteSetTheorems, TLAPS

-----------------------------------------------------------------------------
(* The inductive invariant *)

Good(lines) == {i \in 1 .. Len(lines) : lines[i] # Garbage}

Hands(h) == {w \in Writers : h[w] # None}

(* The last and the first line of a row's records are found by looking      *)
(* through its lines.                                                       *)
IsLast(i, r, lines) == i \in LinesOf(r, lines) /\ \A j \in LinesOf(r, lines) : j <= i

IsFirst(i, r, lines) == i \in LinesOf(r, lines) /\ \A j \in LinesOf(r, lines) : i <= j

HasEnds(lines) ==
  \A r \in Rows : LinesOf(r, lines) = {} \/
    /\ \E i \in LinesOf(r, lines) : IsLast(i, r, lines)
    /\ \E i \in LinesOf(r, lines) : IsFirst(i, r, lines)

EndsAreFound == HasEnds(file) /\ (read # None => HasEnds(read.lines))

(* A write is a save whose record left its writer's hand.                   *)
WritesAreSaves == Len(file) <= writes /\ writes + Cardinality(Hands(hand)) <= commits

(* What a fault may still cost counts in while the last line is unfinished. *)
LossIsPaid ==
  commits + (IF open THEN 1 ELSE 0)
    <= Cardinality(Good(file)) + Cardinality(Hands(hand)) + faults * (Cardinality(Writers) + 1)

(* A content that was read is that of the file until the next write.        *)
AsRead(x) == x.writes <= writes /\ (x.writes = writes => x.lines = file /\ x.open = open)

ReadOnce == (meta # None => AsRead(meta)) /\ (read # None => AsRead(read))

Held(w, r) == hand[w] # None /\ hand[w].row = r

(* A row that was never saved with a record is nowhere but in the database. *)
NothingFromNothing ==
  \A r \in Rows : newest[r] <= Unrecorded(r) =>
    /\ row[r] \in {0, newest[r]} /\ rest[r] = 1 .. row[r]
    /\ LinesOf(r, file) = {}
    /\ \A w \in Writers : ~Held(w, r)
    /\ read # None => LinesOf(r, read.lines) = {}

LastShows(r, n, lines) ==
  n > Unrecorded(r) => \E i \in LinesOf(r, lines) : IsLast(i, r, lines) /\ lines[i].version = n

FirstShows(r, lines) ==
  \A i \in LinesOf(r, lines) : IsFirst(i, r, lines) => lines[i].rest = FirstSaves(r)

(* While a row's records met neither a fault nor each other, the file lacks *)
(* at most the one in hand, and a rebuild has read all of them.             *)
Current(r) ==
  /\ \A v, w \in Writers : Held(v, r) /\ Held(w, r) => v = w
  /\ \A w \in Writers : Held(w, r) =>
       hand[w].version = newest[r] /\ (LinesOf(r, file) = {} => hand[w].rest = FirstSaves(r))
  /\ FirstShows(r, file)
  /\ (\A w \in Writers : ~Held(w, r)) => LastShows(r, newest[r], file)
  /\ read # None =>
       /\ \A w \in Writers : ~Held(w, r)
       /\ FirstShows(r, read.lines) /\ LastShows(r, newest[r], read.lines)

UndisturbedIsCurrent == \A r \in Rows \ disturbed : Current(r)

IInv ==
  /\ TypeOK /\ EndsAreFound /\ WritesAreSaves /\ LossIsPaid /\ ReadOnce
  /\ NothingFromNothing /\ UndisturbedIsCurrent

USE BoundsAssumption, NoneAssumption

-----------------------------------------------------------------------------
(* Lines *)

(* What a line of the file says. *)
LEMMA LineFields ==
  ASSUME NEW x \in Record \cup {Garbage}
  PROVE  /\ x.row \in Rows \cup {None} /\ x.version \in 0 .. MaxVersion
         /\ x.rest \in Saves
         /\ x \in Record => x # Garbage /\ x.row \in Rows /\ x.version \in 1 .. MaxVersion
  BY DEF Record, Garbage, Saves

(* One more line at the end. *)
Extended(s, x, t) ==
  /\ t \in Lines /\ Len(s) \in Nat /\ Len(t) = Len(s) + 1
  /\ \A i \in 1 .. Len(s) : t[i] = s[i]
  /\ t[Len(s) + 1] = x

(* Append is what is meant by it. *)
LEMMA Appended ==
  ASSUME NEW s \in Lines, NEW x \in Record \cup {Garbage}
  PROVE  Extended(s, x, Append(s, x))
<1>1. ASSUME NEW S, NEW q \in Seq(S), NEW y \in S
      PROVE  /\ Append(q, y) \in Seq(S) /\ Len(q) \in Nat /\ Len(Append(q, y)) = Len(q) + 1
             /\ \A i \in 1 .. Len(q) : Append(q, y)[i] = q[i]
             /\ Append(q, y)[Len(q) + 1] = y
  OBVIOUS
<1> DEFINE S == Record \cup {Garbage}
           t == Append(s, x)
<1>2. s \in Seq(S) /\ x \in S
  BY DEF Lines
<1> HIDE DEF S
<1>3. t \in Seq(S) /\ Len(s) \in Nat /\ Len(t) = Len(s) + 1
      /\ (\A i \in 1 .. Len(s) : t[i] = s[i]) /\ t[Len(s) + 1] = x
  BY <1>1, <1>2
<1> HIDE DEF t
<1>4. Extended(s, x, t)
  BY <1>3 DEF S, Lines, Extended
<1> QED BY <1>4 DEF t

(* The lines of a record, one line later. *)
LEMMA LinesExtended ==
  ASSUME NEW s, NEW x, NEW t, Extended(s, x, t), NEW r
  PROVE  /\ x.row = r => LinesOf(r, t) = LinesOf(r, s) \cup {Len(s) + 1}
         /\ x.row # r => LinesOf(r, t) = LinesOf(r, s)
<1> DEFINE n == Len(s)
<1>1. /\ n \in Nat /\ (\A i \in 1 .. n : t[i] = s[i]) /\ t[n + 1] = x
      /\ LinesOf(r, s) = {i \in 1 .. n : s[i].row = r}
      /\ LinesOf(r, t) = {i \in 1 .. n + 1 : t[i].row = r}
  BY DEF Extended, LinesOf
<1> HIDE DEF n
<1>2. \A i \in 1 .. n + 1 : i \in 1 .. n \/ i = n + 1
  BY <1>1
<1>3. \A i \in 1 .. n : i \in 1 .. n + 1 /\ t[i].row = s[i].row
  BY <1>1
<1>4. n + 1 \in 1 .. n + 1 /\ t[n + 1].row = x.row
  BY <1>1
<1>5. ASSUME x.row = r PROVE LinesOf(r, t) = LinesOf(r, s) \cup {n + 1}
  BY <1>1, <1>2, <1>3, <1>4, <1>5
<1>6. ASSUME x.row # r PROVE LinesOf(r, t) = LinesOf(r, s)
  BY <1>1, <1>2, <1>3, <1>4, <1>6
<1> QED BY <1>5, <1>6 DEF n

(* The lines of a record are lines of the file. *)
LEMMA LineIs ==
  ASSUME NEW s \in Lines, NEW r, NEW i \in LinesOf(r, s)
  PROVE  i \in 1 .. Len(s) /\ i \in Nat /\ s[i] \in Record \cup {Garbage} /\ s[i].row = r
<1>1. i \in 1 .. Len(s) /\ s[i].row = r
  BY DEF LinesOf
<1>2. ASSUME NEW S, NEW q \in Seq(S), NEW j \in 1 .. Len(q) PROVE q[j] \in S /\ j \in Nat
  OBVIOUS
<1> QED BY <1>1, <1>2 DEF Lines

(* The last line of a record is the new one, or the one before. *)
LEMMA LastExtended ==
  ASSUME NEW s \in Lines, NEW x, NEW t, Extended(s, x, t), NEW r
  PROVE  /\ x.row = r => IsLast(Len(s) + 1, r, t) /\ t[Len(s) + 1] = x
         /\ x.row # r => \A i : IsLast(i, r, s) => IsLast(i, r, t) /\ t[i] = s[i]
<1>1. Len(s) \in Nat /\ t[Len(s) + 1] = x /\ \A i \in 1 .. Len(s) : t[i] = s[i]
  BY DEF Extended
<1>2. \A j \in LinesOf(r, s) : j \in 1 .. Len(s)
  BY LineIs
<1>3. ASSUME x.row = r PROVE IsLast(Len(s) + 1, r, t)
  <2>1. LinesOf(r, t) = LinesOf(r, s) \cup {Len(s) + 1}
    BY <1>3, LinesExtended
  <2> QED BY <1>1, <1>2, <2>1 DEF IsLast
<1>4. ASSUME x.row # r, NEW i, IsLast(i, r, s) PROVE IsLast(i, r, t) /\ t[i] = s[i]
  <2>1. LinesOf(r, t) = LinesOf(r, s)
    BY <1>4, LinesExtended
  <2> QED BY <1>1, <1>2, <1>4, <2>1 DEF IsLast
<1> QED BY <1>1, <1>3, <1>4

(* Max picks the last line. *)
LEMMA LastIsMax ==
  ASSUME NEW s \in Lines, NEW r, NEW i, IsLast(i, r, s)
  PROVE  Max(LinesOf(r, s)) = i
<1>1. i \in LinesOf(r, s) /\ i \in Nat /\ \A j \in LinesOf(r, s) : j \in Nat /\ i >= j
  BY LineIs DEF IsLast
<1> DEFINE S == LinesOf(r, s)
<1>2. i \in S /\ i \in Nat /\ \A j \in S : j \in Nat /\ i >= j
  BY <1>1
<1> HIDE DEF S
<1>3. \A j \in S : (\A y \in S : j >= y) => j = i
  BY <1>2
<1>4. \E j \in S : \A y \in S : j >= y
  BY <1>2
<1>5. Max(S) = i
  BY <1>3, <1>4 DEF Max
<1> QED BY <1>5 DEF S

(* Min picks the first line. *)
LEMMA FirstIsMin ==
  ASSUME NEW s \in Lines, NEW r, NEW i, IsFirst(i, r, s)
  PROVE  Min(LinesOf(r, s)) = i
<1> DEFINE S == LinesOf(r, s)
<1>1. i \in S /\ i \in Nat /\ \A j \in S : j \in Nat /\ i <= j
  BY LineIs DEF IsFirst
<1> HIDE DEF S
<1>2. \A j \in S : (\A y \in S : j <= y) => j = i
  BY <1>1
<1>3. \E j \in S : \A y \in S : j <= y
  BY <1>1
<1>4. Min(S) = i
  BY <1>2, <1>3 DEF Min
<1> QED BY <1>4 DEF S

(* The first line of a record stays the first, unless it is the only one.   *)
LEMMA FirstExtended ==
  ASSUME NEW s \in Lines, NEW x, NEW t, Extended(s, x, t), NEW r
  PROVE  /\ \A i : IsFirst(i, r, s) => IsFirst(i, r, t)
         /\ x.row = r /\ LinesOf(r, s) = {} => IsFirst(Len(s) + 1, r, t)
         /\ \A i : IsFirst(i, r, t) => \/ IsFirst(i, r, s) /\ t[i] = s[i]
                                       \/ LinesOf(r, s) = {} /\ x.row = r /\ t[i] = x
<1> DEFINE n == Len(s)
           S == LinesOf(r, s)
           T == LinesOf(r, t)
<1>1. n \in Nat /\ t[n + 1] = x /\ \A i \in 1 .. n : t[i] = s[i]
  BY DEF Extended
<1>2. \A j \in S : j \in 1 .. n
  BY LineIs
<1>3. T = S \/ (x.row = r /\ T = S \cup {n + 1})
  BY LinesExtended
<1>4. x.row = r => T = S \cup {n + 1}
  BY LinesExtended
<1> HIDE DEF n, S, T
<1>5. ASSUME NEW i, i \in S, \A j \in S : i <= j PROVE i \in T /\ \A j \in T : i <= j
  BY <1>1, <1>2, <1>3, <1>5
<1>6. ASSUME NEW i, i \in T, \A j \in T : i <= j
      PROVE  \/ i \in S /\ (\A j \in S : i <= j) /\ t[i] = s[i]
             \/ S = {} /\ x.row = r /\ t[i] = x
  <2>1. CASE i \in S
    BY <1>1, <1>2, <1>3, <1>6, <2>1
  <2>2. CASE i \notin S
    <3>1. x.row = r /\ T = S \cup {n + 1} /\ i = n + 1
      BY <1>3, <1>6, <2>2
    <3>2. S = {}
      BY <1>1, <1>2, <1>6, <3>1
    <3> QED BY <1>1, <3>1, <3>2
  <2> QED BY <2>1, <2>2
<1>7. x.row = r /\ S = {} => n + 1 \in T /\ \A j \in T : n + 1 <= j
  BY <1>1, <1>4
<1> QED BY <1>5, <1>6, <1>7 DEF IsFirst, n, S, T

(* A file whose first and last lines can be found keeps them when a line is *)
(* added.                                                                   *)
LEMMA HasEndsExtended ==
  ASSUME NEW s \in Lines, NEW x, NEW t, Extended(s, x, t), HasEnds(s)
  PROVE  HasEnds(t)
<1> SUFFICES ASSUME NEW r \in Rows, LinesOf(r, t) # {}
             PROVE  /\ \E i \in LinesOf(r, t) : IsLast(i, r, t)
                    /\ \E i \in LinesOf(r, t) : IsFirst(i, r, t)
  BY DEF HasEnds
<1>1. CASE LinesOf(r, s) = {}
  <2>1. x.row = r
    BY <1>1, LinesExtended
  <2>2. IsLast(Len(s) + 1, r, t) /\ IsFirst(Len(s) + 1, r, t)
    BY <1>1, <2>1, LastExtended, FirstExtended
  <2> QED BY <2>2 DEF IsLast, IsFirst
<1>2. CASE LinesOf(r, s) # {}
  <2>1. PICK i \in LinesOf(r, s) : IsLast(i, r, s)
    BY <1>2 DEF HasEnds
  <2>2. PICK j \in LinesOf(r, s) : IsFirst(j, r, s)
    BY <1>2 DEF HasEnds
  <2>3. IsFirst(j, r, t)
    BY <2>2, FirstExtended
  <2>4. IsLast(Len(s) + 1, r, t) \/ IsLast(i, r, t)
    BY <2>1, LastExtended
  <2> QED BY <2>3, <2>4 DEF IsLast, IsFirst
<1> QED BY <1>1, <1>2

(* A row whose lines stay as they are shows what it showed. *)
LEMMA SameLinesShowTheSame ==
  ASSUME NEW s, NEW t, NEW r, LinesOf(r, t) = LinesOf(r, s), \A i \in LinesOf(r, s) : t[i] = s[i]
  PROVE  /\ FirstShows(r, s) => FirstShows(r, t)
         /\ \A n : LastShows(r, n, s) => LastShows(r, n, t)
<1>1. ASSUME NEW i PROVE (IsFirst(i, r, t) <=> IsFirst(i, r, s)) /\ (IsLast(i, r, t) <=> IsLast(i, r, s))
  BY DEF IsFirst, IsLast
<1>2. FirstShows(r, s) => FirstShows(r, t)
  BY <1>1 DEF FirstShows
<1>3. ASSUME NEW n, LastShows(r, n, s) PROVE LastShows(r, n, t)
  BY <1>1, <1>3 DEF LastShows
<1> QED BY <1>2, <1>3

(* A line of another row changes nothing for this one. *)
LEMMA OthersKeepTheirLines ==
  ASSUME NEW s \in Lines, NEW x, NEW t, Extended(s, x, t), NEW r, x.row # r
  PROVE  LinesOf(r, t) = LinesOf(r, s) /\ \A i \in LinesOf(r, s) : t[i] = s[i]
<1>1. \A i \in LinesOf(r, s) : i \in 1 .. Len(s)
  BY LineIs
<1> QED BY <1>1, LinesExtended DEF Extended

(* The lines that can be read are as many as the records appended. *)
LEMMA GoodExtended ==
  ASSUME NEW s, NEW x, NEW t, Extended(s, x, t)
  PROVE  /\ x # Garbage => Cardinality(Good(t)) = Cardinality(Good(s)) + 1
         /\ x = Garbage => Cardinality(Good(t)) = Cardinality(Good(s))
<1> DEFINE n == Len(s)
<1>1. /\ n \in Nat /\ (\A i \in 1 .. n : t[i] = s[i]) /\ t[n + 1] = x
      /\ Good(s) = {i \in 1 .. n : s[i] # Garbage} /\ Good(t) = {i \in 1 .. n + 1 : t[i] # Garbage}
  BY DEF Extended, Good
<1> HIDE DEF n
<1>2. \A i \in 1 .. n + 1 : i \in 1 .. n \/ i = n + 1
  BY <1>1
<1>3. \A i \in 1 .. n : i \in 1 .. n + 1 /\ i # n + 1
  BY <1>1
<1>4. n + 1 \in 1 .. n + 1
  BY <1>1
<1>5. IsFiniteSet(Good(s)) /\ Cardinality(Good(s)) \in Nat
  <2>1. IsFiniteSet(1 .. n)
    BY <1>1, FS_Interval
  <2> QED BY <1>1, <2>1, FS_Subset, FS_CardinalityType
<1>6. ASSUME x # Garbage PROVE Cardinality(Good(t)) = Cardinality(Good(s)) + 1
  <2>1. Good(t) = Good(s) \cup {n + 1} /\ n + 1 \notin Good(s)
    BY <1>1, <1>2, <1>3, <1>4, <1>6
  <2> QED BY <1>5, <2>1, FS_AddElement
<1>7. ASSUME x = Garbage PROVE Good(t) = Good(s)
  BY <1>1, <1>2, <1>3, <1>4, <1>7
<1> QED BY <1>6, <1>7

-----------------------------------------------------------------------------
(* Hands *)

(* The records in hand are at most as many as the writers. *)
LEMMA HandsCount ==
  ASSUME NEW h
  PROVE  /\ IsFiniteSet(Hands(h)) /\ Cardinality(Hands(h)) \in Nat /\ Cardinality(Writers) \in Nat
         /\ Cardinality(Hands(h)) <= Cardinality(Writers)
<1>1. Hands(h) \in SUBSET Writers
  BY DEF Hands
<1> QED BY <1>1, FS_Subset, FS_CardinalityType

(* A writer that has a record in hand counts, and there is a writer then.   *)
LEMMA HandCounts ==
  ASSUME NEW w \in Writers, NEW h, NEW g, h[w] = None, g[w] # None,
         \A v \in Writers : v # w => g[v] = h[v]
  PROVE  /\ Cardinality(Hands(g)) = Cardinality(Hands(h)) + 1
         /\ Cardinality(Writers) >= 1
<1>1. Hands(g) = Hands(h) \cup {w} /\ w \notin Hands(h)
  BY DEF Hands
<1>2. Cardinality(Hands(g)) = Cardinality(Hands(h)) + 1
  BY <1>1, HandsCount, FS_AddElement
<1>3. /\ Cardinality(Hands(g)) <= Cardinality(Writers) /\ Cardinality(Hands(h)) \in Nat
      /\ Cardinality(Writers) \in Nat
  BY HandsCount
<1> QED BY <1>2, <1>3

(* Nothing is left in hand after a crash, and something was. *)
LEMMA HandsEmptied ==
  ASSUME NEW h, NEW g, \A v \in Writers : g[v] = None, \E v \in Writers : h[v] # None
  PROVE  Cardinality(Hands(g)) = 0 /\ Cardinality(Hands(h)) >= 1
<1>1. Hands(g) = {} /\ Hands(h) # {}
  BY DEF Hands
<1>2. Cardinality(Hands(g)) = 0
  BY <1>1, FS_EmptySet
<1>3. IsFiniteSet(Hands(h)) /\ Cardinality(Hands(h)) \in Nat
  BY HandsCount
<1>4. Cardinality(Hands(h)) # 0
  BY <1>1, <1>3, FS_EmptySet
<1> QED BY <1>2, <1>3, <1>4

-----------------------------------------------------------------------------
(* The file *)

(* An append that fails leaves the file, or an unfinished line at its end.  *)
LEMMA TornIs ==
  ASSUME TypeOK, HasEnds(file), Torn
  PROVE  /\ file' \in Lines /\ open' \in BOOLEAN /\ HasEnds(file')
         /\ \A r \in Rows : /\ LinesOf(r, file') = LinesOf(r, file)
                           /\ \A i \in LinesOf(r, file) : file'[i] = file[i]
         /\ Cardinality(Good(file')) = Cardinality(Good(file))
         /\ \/ UNCHANGED <<file, open, writes>>
            \/ Len(file') = Len(file) + 1 /\ writes' = writes + 1 /\ ~open /\ open' = TRUE
<1>1. file \in Lines /\ open \in BOOLEAN
  BY DEF TypeOK
<1>2. CASE UNCHANGED <<file, open, writes>>
  BY <1>1, <1>2
<1>3. CASE ~open /\ open' = TRUE /\ file' = Append(file, Garbage) /\ writes' = writes + 1
  <2>1. Extended(file, Garbage, file')
    BY <1>1, <1>3, Appended
  <2>2. Garbage.row = None
    BY DEF Garbage
  <2>3. \A r \in Rows : /\ LinesOf(r, file') = LinesOf(r, file)
                       /\ \A i \in LinesOf(r, file) : file'[i] = file[i]
    BY <1>1, <2>1, <2>2, OthersKeepTheirLines
  <2>4. HasEnds(file')
    BY <1>1, <2>1, HasEndsExtended
  <2>5. Cardinality(Good(file')) = Cardinality(Good(file))
    BY <2>1, GoodExtended
  <2>6. file' \in Lines /\ Len(file') = Len(file) + 1
    BY <2>1 DEF Extended
  <2> QED BY <1>3, <2>3, <2>4, <2>5, <2>6
<1> QED BY <1>2, <1>3 DEF Torn

(* A record that is appended is in the file, unless it completes a torn line. *)
LEMMA AppendIs ==
  ASSUME TypeOK, HasEnds(file), NEW w \in Writers, AppendLine(w)
  PROVE  /\ file' \in Lines /\ open' = FALSE /\ HasEnds(file') /\ writes' = writes + 1
         /\ hand[w] \in Record /\ hand[w] # None /\ hand' = [hand EXCEPT ![w] = None]
         /\ open => file' = file
         /\ ~open => Extended(file, hand[w], file')
<1>1. file \in Lines /\ hand[w] \in Record /\ hand[w] # None
  BY DEF TypeOK, AppendLine
<1>2. open' = FALSE /\ writes' = writes + 1 /\ hand' = [hand EXCEPT ![w] = None]
  BY DEF AppendLine, Ended
<1>3. CASE open
  BY <1>1, <1>2, <1>3 DEF AppendLine
<1>4. CASE ~open
  <2>1. file' = Append(file, hand[w])
    BY <1>4 DEF AppendLine
  <2>2. Extended(file, hand[w], file')
    BY <1>1, <2>1, Appended
  <2>3. HasEnds(file')
    BY <1>1, <2>2, HasEndsExtended
  <2>4. file' \in Lines
    BY <2>2 DEF Extended
  <2> QED BY <1>1, <1>2, <1>4, <2>2, <2>3, <2>4
<1> QED BY <1>3, <1>4

(* What was read stays as good as it was, since every change of the file is *)
(* a write.                                                                 *)
LEMMA WrittenOrKept ==
  ASSUME TypeOK, ReadOnce, UNCHANGED meta, read' = read \/ read' = None,
         UNCHANGED <<file, open, writes>> \/ writes' = writes + 1
  PROVE  ReadOnce'
<1>1. ASSUME NEW x \in Content, AsRead(x) PROVE AsRead(x)'
  BY <1>1 DEF AsRead, Content, TypeOK
<1>2. (meta = None \/ meta \in Content) /\ (read = None \/ read \in Content)
  BY DEF TypeOK
<1>3. meta' # None => AsRead(meta)'
  BY <1>1, <1>2 DEF ReadOnce
<1>4. read' # None => AsRead(read)'
  BY <1>1, <1>2 DEF ReadOnce
<1> QED BY <1>3, <1>4 DEF ReadOnce

-----------------------------------------------------------------------------
(* The steps *)

(* The numbers of the account are numbers. *)
LEMMA Numbers ==
  ASSUME TypeOK
  PROVE  /\ commits \in Nat /\ faults \in Nat /\ writes \in Nat /\ Len(file) \in Nat
         /\ Cardinality(Good(file)) \in Nat /\ Cardinality(Hands(hand)) \in Nat
         /\ faults * (Cardinality(Writers) + 1) \in Nat
<1>1. commits \in Nat /\ faults \in Nat /\ file \in Seq(Record \cup {Garbage}) /\ writes \in Len(file) .. commits
  BY DEF TypeOK, Lines
<1>2. Len(file) \in Nat
  <2>1. ASSUME NEW S, NEW q \in Seq(S) PROVE Len(q) \in Nat
    OBVIOUS
  <2> QED BY <1>1, <2>1
<1>3. writes \in Nat
  BY <1>1, <1>2
<1>4. Cardinality(Good(file)) \in Nat
  <2>1. IsFiniteSet(1 .. Len(file))
    BY <1>2, FS_Interval
  <2> QED BY <2>1, FS_Subset, FS_CardinalityType DEF Good
<1>5. Cardinality(Hands(hand)) \in Nat /\ Cardinality(Writers) \in Nat
  BY HandsCount
<1>6. \A a, b \in Nat : a * (b + 1) \in Nat
  OBVIOUS
<1> QED BY <1>1, <1>2, <1>3, <1>4, <1>5, <1>6

(* What the parts of the invariant say, written out where it is short.      *)
LEMMA Parts ==
  ASSUME IInv
  PROVE  /\ TypeOK /\ HasEnds(file) /\ (read # None => HasEnds(read.lines))
         /\ Len(file) <= writes /\ writes + Cardinality(Hands(hand)) <= commits
         /\ LossIsPaid /\ ReadOnce /\ NothingFromNothing /\ UndisturbedIsCurrent
  BY DEF IInv, EndsAreFound, WritesAreSaves

(* A row stays current when its lines, its version and whoever has its      *)
(* record in hand stay, and nothing is read of it.                          *)
LEMMA OthersStayCurrent ==
  ASSUME NEW r, Current(r), newest'[r] = newest[r], read' = read \/ read' = None,
         LinesOf(r, file') = LinesOf(r, file),
         FirstShows(r, file) => FirstShows(r, file'),
         LastShows(r, newest[r], file) => LastShows(r, newest[r], file'),
         \A v \in Writers : /\ Held(v, r)' <=> Held(v, r)
                            /\ Held(v, r) => hand'[v] = hand[v]
  PROVE  Current(r)'
<1>1. \A v, w \in Writers : Held(v, r)' /\ Held(w, r)' => v = w
  BY DEF Current
<1>2. \A w \in Writers : Held(w, r)' =>
        hand'[w].version = newest'[r] /\ (LinesOf(r, file') = {} => hand'[w].rest = FirstSaves(r))
  BY DEF Current
<1>3. FirstShows(r, file')
  BY DEF Current
<1>4. (\A w \in Writers : ~Held(w, r)') => LastShows(r, newest'[r], file')
  BY DEF Current
<1>5. read' # None => /\ \A w \in Writers : ~Held(w, r)'
                      /\ FirstShows(r, read'.lines) /\ LastShows(r, newest'[r], read'.lines)
  BY DEF Current
<1> QED BY <1>1, <1>2, <1>3, <1>4, <1>5 DEF Current

(* An append takes the record out of hand and into the file. *)
LEMMA AppendKeeps ==
  ASSUME IInv, NEW w \in Writers, AppendLine(w)
  PROVE  IInv'
<1> DEFINE x == hand[w]
           C == Cardinality(Hands(hand))
           D == Cardinality(Hands(hand'))
           G == Cardinality(Good(file))
           F == faults * (Cardinality(Writers) + 1)
<1>1. /\ file' \in Lines /\ open' = FALSE /\ HasEnds(file') /\ writes' = writes + 1
      /\ x \in Record /\ x # None /\ hand' = [hand EXCEPT ![w] = None]
      /\ open => file' = file
      /\ ~open => Extended(file, x, file')
  BY Parts, AppendIs
<1>2. /\ UNCHANGED <<row, rest, newest, meta, read, commits, faults>>
      /\ disturbed' = IF open THEN disturbed \cup {x.row} ELSE disturbed
  BY DEF AppendLine
<1>3. /\ hand \in [Writers -> Record \cup {None}] /\ hand'[w] = None
      /\ \A v \in Writers : v # w => hand'[v] = hand[v]
  BY <1>1, Parts DEF TypeOK
<1>4. C = D + 1
  BY <1>1, <1>3, HandCounts
<1>5. /\ commits \in Nat /\ faults \in Nat /\ writes \in Nat /\ Len(file) \in Nat
      /\ G \in Nat /\ C \in Nat /\ F \in Nat /\ D \in Nat
      /\ Len(file) <= writes /\ writes + C <= commits
  BY Parts, Numbers, HandsCount
<1>6. Len(file') \in Nat /\ Len(file') <= Len(file) + 1
  BY <1>1, <1>5 DEF Extended
<1> HIDE DEF x, C, D, G, F
<1>7. writes' + D <= commits /\ Len(file') <= writes' /\ writes' <= commits
  BY <1>1, <1>4, <1>5, <1>6
<1>8. TypeOK'
  <2>1. writes' \in Len(file') .. commits /\ Len(file') <= commits
    BY <1>1, <1>5, <1>6, <1>7
  <2>2. hand' \in [Writers -> Record \cup {None}]
    BY <1>1, <1>3
  <2>3. disturbed' \subseteq Rows
    <3>1. x.row \in Rows
      BY <1>1 DEF Record
    <3> QED BY <1>2, <3>1, Parts DEF TypeOK
  <2> QED BY <1>1, <1>2, <2>1, <2>2, <2>3, Parts DEF TypeOK
<1>9. EndsAreFound' /\ WritesAreSaves'
  BY <1>1, <1>2, <1>7, Parts DEF EndsAreFound, WritesAreSaves, D
<1>10. LossIsPaid'
  <2>1. commits + (IF open THEN 1 ELSE 0) <= G + C + F
    BY Parts DEF LossIsPaid, G, C, F
  <2>2. CASE open
    <3>0. file' = file
      BY <1>1, <2>2
    <3>1. Cardinality(Good(file')) = G
      BY <3>0 DEF G
    <3>2. commits + 1 <= G + C + F
      BY <2>1, <2>2
    <3>3. commits <= G + D + F
      BY <1>4, <1>5, <3>2
    <3>4. commits <= Cardinality(Good(file')) + Cardinality(Hands(hand')) + F
      BY <3>1, <3>3 DEF D
    <3> QED BY <1>1, <1>2, <1>5, <3>4 DEF LossIsPaid, F
  <2>3. CASE ~open
    <3>1. x # Garbage
      BY <1>1, LineFields
    <3>2. Cardinality(Good(file')) = G + 1
      BY <1>1, <2>3, <3>1, GoodExtended DEF G
    <3>3. commits <= G + C + F
      BY <1>5, <2>1, <2>3
    <3>4. commits <= (G + 1) + D + F
      BY <1>4, <1>5, <3>3
    <3>5. commits <= Cardinality(Good(file')) + Cardinality(Hands(hand')) + F
      BY <3>2, <3>4 DEF D
    <3> QED BY <1>1, <1>2, <1>5, <3>5 DEF LossIsPaid, F
  <2> QED BY <2>2, <2>3
<1>11. ReadOnce'
  BY <1>1, <1>2, Parts, WrittenOrKept
<1>12. NothingFromNothing'
  <2> SUFFICES ASSUME NEW r \in Rows, newest[r] <= Unrecorded(r)
               PROVE  /\ row[r] \in {0, newest[r]} /\ rest[r] = 1 .. row[r]
                      /\ LinesOf(r, file') = {}
                      /\ \A v \in Writers : ~(hand'[v] # None /\ hand'[v].row = r)
                      /\ read # None => LinesOf(r, read.lines) = {}
    BY <1>2 DEF NothingFromNothing, Held, Unrecorded
  <2>1. /\ row[r] \in {0, newest[r]} /\ rest[r] = 1 .. row[r]
        /\ LinesOf(r, file) = {} /\ x.row # r
        /\ \A v \in Writers : ~(hand[v] # None /\ hand[v].row = r)
        /\ read # None => LinesOf(r, read.lines) = {}
    BY <1>1, Parts DEF NothingFromNothing, Held, x
  <2>2. LinesOf(r, file') = {}
    BY <1>1, <2>1, LinesExtended
  <2> QED BY <1>3, <2>1, <2>2
<1>13. UndisturbedIsCurrent'
  <2> SUFFICES ASSUME NEW r \in Rows, r \notin disturbed'
               PROVE  Current(r)'
    BY DEF UndisturbedIsCurrent
  <2>1. Current(r) /\ file \in Lines
    BY <1>2, Parts DEF UndisturbedIsCurrent, TypeOK
  <2>2. CASE x.row = r
    <3>1. Extended(file, x, file')
      BY <1>1, <1>2, <2>2
    <3>2. Held(w, r)
      BY <1>1, <2>2 DEF Held, x
    <3>3. /\ read' = None /\ x.version = newest[r]
          /\ LinesOf(r, file) = {} => x.rest = FirstSaves(r)
          /\ \A v \in Writers : ~Held(v, r)'
      <4>1. \A v \in Writers : v # w => ~Held(v, r)
        BY <2>1, <3>2 DEF Current
      <4>2. \A v \in Writers : ~Held(v, r)'
        BY <1>3, <4>1 DEF Held
      <4> QED BY <1>2, <2>1, <3>2, <4>2 DEF Current, x
    <3>4. FirstShows(r, file')
      <4>1. FirstShows(r, file)
        BY <2>1 DEF Current
      <4>2. ASSUME NEW i \in LinesOf(r, file'), IsFirst(i, r, file') PROVE file'[i].rest = FirstSaves(r)
        <5>1. \/ IsFirst(i, r, file) /\ file'[i] = file[i]
              \/ LinesOf(r, file) = {} /\ file'[i] = x
          BY <2>1, <3>1, <4>2, FirstExtended
        <5> QED BY <3>3, <4>1, <5>1 DEF FirstShows, IsFirst
      <4> QED BY <4>2 DEF FirstShows
    <3>5. LastShows(r, newest[r], file')
      BY <2>1, <2>2, <3>1, <3>3, LastExtended DEF LastShows, IsLast
    <3> QED BY <1>2, <3>3, <3>4, <3>5 DEF Current
  <2>3. CASE x.row # r
    <3>1. LinesOf(r, file') = LinesOf(r, file) /\ \A i \in LinesOf(r, file) : file'[i] = file[i]
      BY <1>1, <2>1, <2>3, OthersKeepTheirLines
    <3>2. \A v \in Writers : /\ Held(v, r)' <=> Held(v, r)
                             /\ Held(v, r) => hand'[v] = hand[v]
      BY <1>3, <2>3 DEF Held, x
    <3>3. /\ FirstShows(r, file) => FirstShows(r, file')
          /\ LastShows(r, newest[r], file) => LastShows(r, newest[r], file')
      BY <3>1, SameLinesShowTheSame
    <3> QED BY <1>2, <2>1, <3>1, <3>2, <3>3, OthersStayCurrent
  <2> QED BY <2>2, <2>3
<1> QED BY <1>8, <1>9, <1>10, <1>11, <1>12, <1>13 DEF IInv

(* A fault costs what was in hand, and one more when it tears a line. *)
LEMMA FaultKeeps ==
  ASSUME IInv, Fault, Torn,
         hand' \in [Writers -> Record \cup {None}],
         \A v \in Writers : \/ hand'[v] = hand[v]
                            \/ hand'[v] = None /\ hand[v] # None /\ hand[v].row \in disturbed',
         disturbed \subseteq disturbed', disturbed' \subseteq Rows,
         Cardinality(Hands(hand')) + 1 <= Cardinality(Hands(hand)),
         Cardinality(Hands(hand)) <= Cardinality(Hands(hand')) + Cardinality(Writers),
         read' = read \/ read' = None,
         UNCHANGED <<row, rest, newest, meta, commits>>
  PROVE  IInv'
<1> DEFINE W == Cardinality(Writers)
           C == Cardinality(Hands(hand))
           D == Cardinality(Hands(hand'))
           G == Cardinality(Good(file))
           F == faults * (Cardinality(Writers) + 1)
<1>1. /\ file' \in Lines /\ open' \in BOOLEAN /\ HasEnds(file')
      /\ \A r \in Rows : /\ LinesOf(r, file') = LinesOf(r, file)
                        /\ \A i \in LinesOf(r, file) : file'[i] = file[i]
      /\ Cardinality(Good(file')) = G
      /\ \/ UNCHANGED <<file, open, writes>>
         \/ Len(file') = Len(file) + 1 /\ writes' = writes + 1
  BY Parts, TornIs
<1>2. faults < MaxFaults /\ faults' = faults + 1
  BY DEF Fault
<1>3. /\ commits \in Nat /\ faults \in Nat /\ writes \in Nat /\ Len(file) \in Nat
      /\ G \in Nat /\ C \in Nat /\ F \in Nat /\ D \in Nat /\ W \in Nat
      /\ Len(file) <= writes /\ writes + C <= commits
      /\ D + 1 <= C /\ C <= D + W
  BY Parts, Numbers, HandsCount
<1>4. faults' * (Cardinality(Writers) + 1) = F + W + 1
  <2>1. \A a, c \in Nat : (a + 1) * c = a * c + c
    OBVIOUS
  <2>2. W + 1 \in Nat /\ (faults + 1) * (W + 1) = faults * (W + 1) + (W + 1)
    BY <1>3, <2>1
  <2> QED BY <1>2, <1>3, <2>2
<1>5. commits + (IF open THEN 1 ELSE 0) <= G + C + F
  BY Parts DEF LossIsPaid
<1> HIDE DEF W, C, D, G, F
<1>6. /\ Len(file') <= writes' /\ writes' + D <= commits /\ writes' <= commits
      /\ writes' \in Nat /\ Len(file') \in Nat
  BY <1>1, <1>3
<1>7. TypeOK'
  <2>1. writes' \in Len(file') .. commits /\ Len(file') <= commits
    BY <1>3, <1>6
  <2>2. faults' \in 0 .. MaxFaults
    BY <1>2, <1>3
  <2> QED BY <1>1, <1>2, <2>1, <2>2, Parts DEF TypeOK
<1>8. EndsAreFound' /\ WritesAreSaves'
  BY <1>1, <1>6, Parts DEF EndsAreFound, WritesAreSaves, D
<1>9. LossIsPaid'
  <2>1. commits <= G + C + F
    BY <1>3, <1>5
  <2>2. commits + (IF open' THEN 1 ELSE 0) <= G + D + (F + W + 1)
    BY <1>1, <1>3, <2>1
  <2>3. commits' + (IF open' THEN 1 ELSE 0)
          <= Cardinality(Good(file')) + Cardinality(Hands(hand')) + faults' * (Cardinality(Writers) + 1)
    BY <1>1, <1>4, <2>2 DEF D
  <2> QED BY <2>3 DEF LossIsPaid
<1>10. ReadOnce'
  BY <1>1, Parts, WrittenOrKept
<1>11. NothingFromNothing'
  <2>1. \A v \in Writers, r \in Rows : Held(v, r)' => Held(v, r)
    BY DEF Held
  <2> QED BY <1>1, <2>1, Parts DEF NothingFromNothing, Unrecorded
<1>12. UndisturbedIsCurrent'
  <2> SUFFICES ASSUME NEW r \in Rows, r \notin disturbed'
               PROVE  Current(r)'
    BY DEF UndisturbedIsCurrent
  <2>1. Current(r)
    BY Parts DEF UndisturbedIsCurrent
  <2>2. \A v \in Writers : (Held(v, r)' <=> Held(v, r)) /\ (Held(v, r) => hand'[v] = hand[v])
    BY DEF Held
  <2>3. /\ LinesOf(r, file') = LinesOf(r, file)
        /\ FirstShows(r, file) => FirstShows(r, file')
        /\ LastShows(r, newest[r], file) => LastShows(r, newest[r], file')
    BY <1>1, SameLinesShowTheSame
  <2> QED BY <2>1, <2>2, <2>3, OthersStayCurrent
<1> QED BY <1>7, <1>8, <1>9, <1>10, <1>11, <1>12 DEF IInv

(* The append fails: the record is out of hand. *)
LEMMA AppendFailsKeeps ==
  ASSUME IInv, NEW w \in Writers, AppendFails(w)
  PROVE  IInv'
<1>1. /\ Fault /\ Torn /\ hand[w] # None /\ hand' = [hand EXCEPT ![w] = None]
      /\ UNCHANGED <<row, rest, newest, meta, read, commits>>
      /\ disturbed' = disturbed \cup {hand[w].row}
  BY DEF AppendFails
<1>2. /\ hand' \in [Writers -> Record \cup {None}] /\ hand'[w] = None
      /\ \A v \in Writers : v # w => hand'[v] = hand[v]
  BY <1>1, Parts DEF TypeOK
<1>3. /\ Cardinality(Hands(hand)) = Cardinality(Hands(hand')) + 1 /\ Cardinality(Writers) >= 1
  BY <1>1, <1>2, HandCounts
<1>4. Cardinality(Hands(hand')) \in Nat /\ Cardinality(Writers) \in Nat
  BY HandsCount
<1>5. /\ Cardinality(Hands(hand')) + 1 <= Cardinality(Hands(hand))
      /\ Cardinality(Hands(hand)) <= Cardinality(Hands(hand')) + Cardinality(Writers)
  BY <1>3, <1>4
<1>6. hand[w].row \in Rows /\ disturbed' \subseteq Rows
  <2>1. hand[w] \in Record
    BY <1>1, Parts DEF TypeOK
  <2>2. hand[w].row \in Rows
    BY <2>1 DEF Record
  <2> QED BY <1>1, <2>2, Parts DEF TypeOK
<1>7. \A v \in Writers : \/ hand'[v] = hand[v]
                         \/ hand'[v] = None /\ hand[v] # None /\ hand[v].row \in disturbed'
  BY <1>1, <1>2
<1> QED BY <1>1, <1>2, <1>5, <1>6, <1>7, FaultKeeps

(* A crash costs every record in hand. *)
LEMMA CrashKeeps ==
  ASSUME IInv, Crash
  PROVE  IInv'
<1>1. /\ Fault /\ Torn /\ hand' = [w \in Writers |-> None] /\ read' = None
      /\ UNCHANGED <<row, rest, newest, meta, commits>>
      /\ disturbed' = disturbed \cup InHand
      /\ \E v \in Writers : hand[v] # None
  BY DEF Crash, Quiet
<1>2. hand' \in [Writers -> Record \cup {None}] /\ \A v \in Writers : hand'[v] = None
  BY <1>1
<1>3. Cardinality(Hands(hand')) = 0 /\ Cardinality(Hands(hand)) >= 1
  BY <1>1, <1>2, HandsEmptied
<1>4. /\ Cardinality(Hands(hand)) \in Nat /\ Cardinality(Writers) \in Nat
      /\ Cardinality(Hands(hand)) <= Cardinality(Writers)
  BY HandsCount
<1>5. /\ Cardinality(Hands(hand')) + 1 <= Cardinality(Hands(hand))
      /\ Cardinality(Hands(hand)) <= Cardinality(Hands(hand')) + Cardinality(Writers)
  BY <1>3, <1>4
<1>6. \A v \in Writers : \/ hand'[v] = hand[v]
                         \/ hand'[v] = None /\ hand[v] # None /\ hand[v].row \in disturbed'
  <2>1. \A v \in Writers : hand[v] # None => hand[v].row \in InHand
    <3>1. \A v \in Writers : hand[v] # None => hand[v].row \in Rows
      BY Parts DEF TypeOK, Record
    <3> QED BY <3>1 DEF InHand
  <2> QED BY <1>1, <1>2, <2>1
<1>7. disturbed' \subseteq Rows
  BY <1>1, Parts DEF TypeOK, InHand
<1> QED BY <1>1, <1>2, <1>5, <1>6, <1>7, FaultKeeps

(* The file is read whole. *)
LEMMA ReadFileKeeps ==
  ASSUME IInv, ReadFile
  PROVE  IInv'
<1> DEFINE x == [lines |-> file, open |-> open, writes |-> writes]
<1>1. /\ read = None /\ read' = x /\ disturbed' = disturbed \cup InHand
      /\ UNCHANGED <<row, rest, newest, file, open, writes, meta, hand, commits, faults>>
  BY DEF ReadFile
<1>2. x \in Content /\ x.lines = file /\ x.open = open /\ x.writes = writes
  BY Parts, Numbers DEF TypeOK, Content
<1> HIDE DEF x
<1>3. writes \in Nat /\ disturbed' \subseteq Rows
  BY <1>1, Parts, Numbers DEF TypeOK, InHand
<1>4. TypeOK'
  BY <1>1, <1>2, <1>3, Parts DEF TypeOK
<1>5. EndsAreFound' /\ WritesAreSaves'
  BY <1>1, <1>2, Parts DEF EndsAreFound, WritesAreSaves
<1>6. LossIsPaid'
  BY <1>1, Parts DEF LossIsPaid
<1>7. ReadOnce'
  BY <1>1, <1>2, <1>3, Parts DEF ReadOnce, AsRead
<1>8. NothingFromNothing'
  BY <1>1, <1>2, Parts DEF NothingFromNothing, Held, Unrecorded
<1>9. UndisturbedIsCurrent'
  <2> SUFFICES ASSUME NEW r \in Rows, r \notin disturbed, r \notin InHand
               PROVE  Current(r)'
    BY <1>1 DEF UndisturbedIsCurrent
  <2>1. Current(r) /\ \A w \in Writers : ~Held(w, r)
    BY Parts DEF UndisturbedIsCurrent, InHand, Held
  <2>2. FirstShows(r, file) /\ LastShows(r, newest[r], file)
    BY <2>1 DEF Current
  <2>3. \A w \in Writers : ~Held(w, r)'
    BY <1>1, <2>1 DEF Held
  <2> QED BY <1>1, <1>2, <2>2, <2>3 DEF Current
<1> QED BY <1>4, <1>5, <1>6, <1>7, <1>8, <1>9 DEF IInv

(* What a line says of its row when the file is replayed. *)
LEMMA ReplayedIs ==
  ASSUME IInv, NEW s \in Lines, HasEnds(s), NEW r \in Rows
  PROVE  /\ Replayed(r, s) \in 0 .. MaxVersion
         /\ r \in Handovers \/ LinesOf(r, s) = {} => Replayed(r, s) = row[r]
         /\ r \notin Handovers => \A i : IsLast(i, r, s) => Replayed(r, s) = s[i].version
<1>1. row[r] \in 0 .. MaxVersion
  BY Parts DEF TypeOK
<1>2. ASSUME r \in Handovers \/ LinesOf(r, s) = {} PROVE Replayed(r, s) = row[r]
  BY <1>2 DEF Replayed
<1>3. ASSUME r \notin Handovers, NEW i, IsLast(i, r, s) PROVE Replayed(r, s) = s[i].version
  <2>1. LinesOf(r, s) # {} /\ Max(LinesOf(r, s)) = i
    BY <1>3, LastIsMax DEF IsLast
  <2> QED BY <1>3, <2>1 DEF Replayed
<1>4. CASE r \in Handovers \/ LinesOf(r, s) = {}
  <2>1. Replayed(r, s) \in 0 .. MaxVersion
    BY <1>1, <1>2, <1>4
  <2> QED BY <1>2, <1>3, <2>1
<1>5. CASE r \notin Handovers /\ LinesOf(r, s) # {}
  <2>1. PICK i \in LinesOf(r, s) : IsLast(i, r, s)
    BY <1>5 DEF HasEnds
  <2>2. s[i] \in Record \cup {Garbage}
    BY LineIs
  <2>3. s[i].version \in 0 .. MaxVersion
    BY <2>2, LineFields
  <2>4. Replayed(r, s) \in 0 .. MaxVersion
    BY <1>3, <1>5, <2>1, <2>3
  <2> QED BY <1>2, <1>3, <2>4
<1> QED BY <1>4, <1>5

(* What a replay makes of the columns that only an insert writes. *)
LEMMA ReplayedRestIs ==
  ASSUME IInv, NEW s \in Lines, HasEnds(s), NEW r \in Rows
  PROVE  /\ ReplayedRest(r, s) \in Saves
         /\ r \in Handovers \/ LinesOf(r, s) = {} \/ row[r] # 0 => ReplayedRest(r, s) = rest[r]
         /\ r \notin Handovers /\ row[r] = 0 =>
              \A i : IsFirst(i, r, s) => ReplayedRest(r, s) = s[i].rest
<1>1. rest[r] \in Saves
  BY Parts DEF TypeOK
<1>2. ASSUME r \in Handovers \/ LinesOf(r, s) = {} \/ row[r] # 0 PROVE ReplayedRest(r, s) = rest[r]
  BY <1>2 DEF ReplayedRest
<1>3. ASSUME r \notin Handovers, row[r] = 0, NEW i, IsFirst(i, r, s)
      PROVE  ReplayedRest(r, s) = s[i].rest
  <2>1. LinesOf(r, s) # {} /\ Min(LinesOf(r, s)) = i
    BY <1>3, FirstIsMin DEF IsFirst
  <2> QED BY <1>3, <2>1 DEF ReplayedRest
<1>4. ReplayedRest(r, s) \in Saves
  <2>1. CASE r \in Handovers \/ LinesOf(r, s) = {} \/ row[r] # 0
    BY <1>1, <1>2, <2>1
  <2>2. CASE r \notin Handovers /\ LinesOf(r, s) # {} /\ row[r] = 0
    <3>1. PICK i \in LinesOf(r, s) : IsFirst(i, r, s)
      BY <2>2 DEF HasEnds
    <3>2. s[i] \in Record \cup {Garbage}
      BY LineIs
    <3>3. s[i].rest \in Saves
      BY <3>2, LineFields
    <3> QED BY <1>3, <2>2, <3>1, <3>3
  <2> QED BY <2>1, <2>2
<1> QED BY <1>2, <1>3, <1>4

(* The rows are written, and the checksum is that of what was read. *)
LEMMA ApplyKeeps ==
  ASSUME IInv, Apply
  PROVE  IInv'
<1>1. /\ read # None /\ row' = [r \in Rows |-> Replayed(r, read.lines)]
      /\ rest' = [r \in Rows |-> ReplayedRest(r, read.lines)]
      /\ meta' = read /\ read' = None
      /\ UNCHANGED <<newest, file, open, writes, hand, commits, faults, disturbed>>
  BY DEF Apply, Summed
<1>2. read \in Content /\ read.lines \in Lines /\ HasEnds(read.lines)
  BY <1>1, Parts DEF TypeOK, Content
<1>3. \A r \in Rows : row'[r] = Replayed(r, read.lines) /\ Replayed(r, read.lines) \in 0 .. MaxVersion
  BY <1>1, <1>2, ReplayedIs
<1>4. \A r \in Rows : rest'[r] = ReplayedRest(r, read.lines) /\ ReplayedRest(r, read.lines) \in Saves
  BY <1>1, <1>2, ReplayedRestIs
<1>5. TypeOK'
  <2>1. row' \in [Rows -> 0 .. MaxVersion]
    BY <1>1, <1>3
  <2>2. rest' \in [Rows -> Saves]
    BY <1>1, <1>4
  <2> QED BY <1>1, <1>2, <2>1, <2>2, Parts DEF TypeOK
<1>6. EndsAreFound' /\ WritesAreSaves'
  BY <1>1, Parts DEF EndsAreFound, WritesAreSaves
<1>7. LossIsPaid'
  BY <1>1, Parts DEF LossIsPaid
<1>8. ReadOnce'
  BY <1>1, Parts DEF ReadOnce, AsRead
<1>9. NothingFromNothing'
  <2> SUFFICES ASSUME NEW r \in Rows, newest[r] <= Unrecorded(r)
               PROVE  /\ row'[r] \in {0, newest[r]} /\ rest'[r] = 1 .. row'[r]
                      /\ LinesOf(r, file) = {}
                      /\ \A w \in Writers : ~Held(w, r)
    BY <1>1 DEF NothingFromNothing, Held, Unrecorded
  <2>1. /\ row[r] \in {0, newest[r]} /\ rest[r] = 1 .. row[r]
        /\ LinesOf(r, file) = {} /\ LinesOf(r, read.lines) = {}
        /\ \A w \in Writers : ~Held(w, r)
    BY <1>1, Parts DEF NothingFromNothing
  <2>2. Replayed(r, read.lines) = row[r] /\ ReplayedRest(r, read.lines) = rest[r]
    BY <1>2, <2>1, ReplayedIs, ReplayedRestIs
  <2> QED BY <1>3, <1>4, <2>1, <2>2
<1>10. UndisturbedIsCurrent'
  <2> SUFFICES ASSUME NEW r \in Rows, r \notin disturbed
               PROVE  Current(r)'
    BY <1>1 DEF UndisturbedIsCurrent
  <2>1. Current(r) /\ \A v \in Writers : Held(v, r)' <=> Held(v, r)
    BY <1>1, Parts DEF UndisturbedIsCurrent, Held
  <2> QED BY <1>1, <2>1, OthersStayCurrent
<1> QED BY <1>5, <1>6, <1>7, <1>8, <1>9, <1>10 DEF IInv

(* Without its rows the database has no checksum either. *)
LEMMA LoseDatabaseKeeps ==
  ASSUME IInv, LoseDatabase
  PROVE  IInv'
<1>1. /\ read = None /\ row' = [r \in Rows |-> 0] /\ rest' = [r \in Rows |-> {}] /\ meta' = None
      /\ UNCHANGED <<newest, file, open, writes, hand, read, commits, faults, disturbed>>
  BY DEF LoseDatabase
<1>2. /\ row' \in [Rows -> 0 .. MaxVersion] /\ rest' \in [Rows -> Saves]
      /\ \A r \in Rows : row'[r] = 0 /\ rest'[r] = 1 .. row'[r]
  BY <1>1 DEF Saves
<1>3. TypeOK'
  BY <1>1, <1>2, Parts DEF TypeOK
<1>4. EndsAreFound' /\ WritesAreSaves'
  BY <1>1, Parts DEF EndsAreFound, WritesAreSaves
<1>5. LossIsPaid' /\ ReadOnce'
  BY <1>1, Parts DEF LossIsPaid, ReadOnce
<1>6. NothingFromNothing'
  BY <1>1, <1>2, Parts DEF NothingFromNothing, Held, Unrecorded
<1>7. UndisturbedIsCurrent'
  <2> SUFFICES ASSUME NEW r \in Rows, r \notin disturbed
               PROVE  Current(r)'
    BY <1>1 DEF UndisturbedIsCurrent
  <2>1. Current(r) /\ \A v \in Writers : Held(v, r)' <=> Held(v, r)
    BY <1>1, Parts DEF UndisturbedIsCurrent, Held
  <2> QED BY <1>1, <2>1, OthersStayCurrent
<1> QED BY <1>3, <1>4, <1>5, <1>6, <1>7 DEF IInv

(* What every commit does to its row and to the others. *)
LEMMA CommitIs ==
  ASSUME IInv, NEW w \in Writers, NEW r \in Rows, Commit(w, r)
  PROVE  /\ row' \in [Rows -> 0 .. MaxVersion] /\ newest' \in [Rows -> 0 .. MaxVersion]
         /\ rest' \in [Rows -> Saves] /\ disturbed' \subseteq Rows
         /\ row[r] \in Nat /\ row[r] + 1 \in 1 .. MaxVersion
         /\ row[r] = 0 => newest[r] = 0
         /\ row'[r] = row[r] + 1 /\ newest'[r] = row[r] + 1 /\ rest'[r] = rest[r] \cup {row[r] + 1}
         /\ \A q \in Rows : q # r => newest'[q] = newest[q] /\ row'[q] = row[q] /\ rest'[q] = rest[q]
         /\ UNCHANGED <<file, open, writes, meta, read, faults>>
         /\ disturbed \subseteq disturbed'
         /\ r \notin disturbed' => read = None /\ \A v \in Writers : ~Held(v, r)
<1>1. /\ row[r] < MaxVersion /\ (row[r] = 0 => newest[r] = 0)
      /\ row' = [row EXCEPT ![r] = row[r] + 1] /\ newest' = [newest EXCEPT ![r] = row[r] + 1]
      /\ rest' = [rest EXCEPT ![r] = rest[r] \cup {row[r] + 1}]
      /\ UNCHANGED <<file, open, writes, meta, read, faults>>
      /\ disturbed' = IF r \in InHand \/ read # None THEN disturbed \cup {r} ELSE disturbed
  BY DEF Commit
<1>2. /\ row \in [Rows -> 0 .. MaxVersion] /\ newest \in [Rows -> 0 .. MaxVersion]
      /\ rest \in [Rows -> Saves] /\ disturbed \subseteq Rows
  BY Parts DEF TypeOK
<1>3. row[r] \in Nat /\ row[r] + 1 \in 1 .. MaxVersion
  BY <1>1, <1>2
<1>4. rest[r] \cup {row[r] + 1} \in Saves
  BY <1>2, <1>3 DEF Saves
<1>5. /\ row' \in [Rows -> 0 .. MaxVersion] /\ newest' \in [Rows -> 0 .. MaxVersion]
      /\ rest' \in [Rows -> Saves]
  BY <1>1, <1>2, <1>3, <1>4
<1>6. /\ row'[r] = row[r] + 1 /\ newest'[r] = row[r] + 1 /\ rest'[r] = rest[r] \cup {row[r] + 1}
      /\ \A q \in Rows : q # r => newest'[q] = newest[q] /\ row'[q] = row[q] /\ rest'[q] = rest[q]
  BY <1>1, <1>2
<1>7. disturbed' \subseteq Rows /\ disturbed \subseteq disturbed'
  BY <1>1, <1>2
<1>8. r \notin disturbed' => read = None /\ \A v \in Writers : ~Held(v, r)
  BY <1>1 DEF InHand, Held
<1> QED BY <1>1, <1>3, <1>5, <1>6, <1>7, <1>8

(* A disposition that is submitted owes the file nothing. *)
LEMMA SubmitKeeps ==
  ASSUME IInv, NEW w \in Writers, NEW r \in Rows, Commit(w, r), ~Recorded(r)
  PROVE  IInv'
<1>1. r \in Dispositions /\ row[r] = 0 /\ UNCHANGED <<hand, commits>> /\ Unrecorded(r) = 1
  BY DEF Commit, Recorded, Unrecorded
<1>2. /\ row' \in [Rows -> 0 .. MaxVersion] /\ newest' \in [Rows -> 0 .. MaxVersion]
      /\ rest' \in [Rows -> Saves] /\ disturbed' \subseteq Rows
      /\ newest[r] = 0
      /\ row'[r] = 1 /\ newest'[r] = 1 /\ rest'[r] = rest[r] \cup {1}
      /\ \A q \in Rows : q # r => newest'[q] = newest[q] /\ row'[q] = row[q] /\ rest'[q] = rest[q]
      /\ UNCHANGED <<file, open, writes, meta, read, faults>>
      /\ disturbed \subseteq disturbed'
      /\ r \notin disturbed' => read = None /\ \A v \in Writers : ~Held(v, r)
  BY <1>1, CommitIs
<1>3. TypeOK'
  BY <1>1, <1>2, Parts DEF TypeOK
<1>4. EndsAreFound' /\ WritesAreSaves'
  BY <1>1, <1>2, Parts DEF EndsAreFound, WritesAreSaves
<1>5. LossIsPaid' /\ ReadOnce'
  BY <1>1, <1>2, Parts DEF LossIsPaid, ReadOnce, AsRead
<1>6. NothingFromNothing'
  <2> SUFFICES ASSUME NEW q \in Rows, newest'[q] <= Unrecorded(q)
               PROVE  /\ row'[q] \in {0, newest'[q]} /\ rest'[q] = 1 .. row'[q]
                      /\ LinesOf(q, file) = {}
                      /\ \A v \in Writers : ~Held(v, q)
                      /\ read # None => LinesOf(q, read.lines) = {}
    BY <1>1, <1>2 DEF NothingFromNothing, Held, Unrecorded
  <2>1. newest[q] <= Unrecorded(q)
    BY <1>1, <1>2
  <2>2. /\ rest[q] = 1 .. row[q] /\ row[q] \in {0, newest[q]} /\ LinesOf(q, file) = {}
        /\ \A v \in Writers : ~Held(v, q)
        /\ read # None => LinesOf(q, read.lines) = {}
    BY <2>1, Parts DEF NothingFromNothing
  <2>3. q = r => rest'[q] = 1 .. 1
    <3>1. 1 .. 0 = {} /\ 1 .. 1 = {1}
      OBVIOUS
    <3> QED BY <1>1, <1>2, <2>2, <3>1
  <2> QED BY <1>2, <2>2, <2>3
<1>7. UndisturbedIsCurrent'
  <2> SUFFICES ASSUME NEW q \in Rows, q \notin disturbed'
               PROVE  Current(q)'
    BY DEF UndisturbedIsCurrent
  <2>1. Current(q) /\ \A v \in Writers : Held(v, q)' <=> Held(v, q)
    BY <1>1, <1>2, Parts DEF UndisturbedIsCurrent, Held
  <2>2. CASE q # r
    BY <1>1, <1>2, <2>1, <2>2, OthersStayCurrent
  <2>3. CASE q = r
    <3>1. read' = None /\ \A v \in Writers : ~Held(v, r)'
      BY <1>2, <2>1, <2>3
    <3>2. FirstShows(r, file')
      BY <1>2, <2>1, <2>3 DEF Current
    <3>3. LastShows(r, newest'[r], file')
      BY <1>1, <1>2 DEF LastShows
    <3> QED BY <2>3, <3>1, <3>2, <3>3 DEF Current
  <2> QED BY <2>2, <2>3
<1> QED BY <1>3, <1>4, <1>5, <1>6, <1>7 DEF IInv

(* A save owes the file its record, which is in hand until it is appended. *)
LEMMA CommitKeeps ==
  ASSUME IInv, NEW w \in Writers, NEW r \in Rows, Commit(w, r), Recorded(r)
  PROVE  IInv'
<1> DEFINE x == RecordOf(r)
           C == Cardinality(Hands(hand))
           G == Cardinality(Good(file))
           F == faults * (Cardinality(Writers) + 1)
<1>1. /\ hand[w] = None /\ commits < MaxCommits
      /\ hand' = [hand EXCEPT ![w] = x] /\ commits' = commits + 1
  BY DEF Commit
<1>2. /\ row' \in [Rows -> 0 .. MaxVersion] /\ newest' \in [Rows -> 0 .. MaxVersion]
      /\ rest' \in [Rows -> Saves] /\ disturbed' \subseteq Rows
      /\ row[r] \in Nat /\ row[r] + 1 \in 1 .. MaxVersion
      /\ row[r] = 0 => newest[r] = 0
      /\ newest'[r] = row[r] + 1 /\ rest'[r] = rest[r] \cup {row[r] + 1}
      /\ \A q \in Rows : q # r => newest'[q] = newest[q] /\ row'[q] = row[q] /\ rest'[q] = rest[q]
      /\ UNCHANGED <<file, open, writes, meta, read, faults>>
      /\ disturbed \subseteq disturbed'
      /\ r \notin disturbed' => read = None /\ \A v \in Writers : ~Held(v, r)
  BY CommitIs
<1>3. x \in Record /\ x.row = r /\ x.version = row[r] + 1 /\ x.rest = rest'[r]
  <2>1. rest'[r] \in Saves
    BY <1>2
  <2> QED BY <1>2, <2>1 DEF RecordOf, RecordWith, Record
<1> HIDE DEF x
<1>4. /\ x # None /\ hand' \in [Writers -> Record \cup {None}] /\ hand'[w] = x
      /\ \A v \in Writers : v # w => hand'[v] = hand[v]
  BY <1>1, <1>3, Parts DEF TypeOK
<1>5. row[r] + 1 > Unrecorded(r) /\ Unrecorded(r) \in Nat
  BY <1>2 DEF Recorded, Unrecorded
<1>6. Cardinality(Hands(hand')) = C + 1
  <2>1. hand[w] = None /\ hand'[w] # None /\ \A v \in Writers : v # w => hand'[v] = hand[v]
    BY <1>1, <1>4
  <2>2. Cardinality(Hands(hand')) = Cardinality(Hands(hand)) + 1
    BY <2>1, HandCounts
  <2> QED BY <2>2
<1>7. /\ commits \in Nat /\ faults \in Nat /\ writes \in Nat /\ Len(file) \in Nat
      /\ G \in Nat /\ C \in Nat /\ F \in Nat
      /\ Len(file) <= writes /\ writes + C <= commits
  BY Parts, Numbers
<1>8. commits + (IF open THEN 1 ELSE 0) <= G + C + F
  BY Parts DEF LossIsPaid
<1> HIDE DEF C, G, F
<1>9. /\ writes + Cardinality(Hands(hand')) <= commits' /\ writes <= commits' /\ Len(file) <= commits'
      /\ commits' \in 0 .. MaxCommits
  BY <1>1, <1>6, <1>7
<1>10. TypeOK'
  <2>1. writes \in Len(file) .. commits'
    BY <1>7, <1>9
  <2> QED BY <1>2, <1>4, <1>9, <2>1, Parts DEF TypeOK
<1>11. EndsAreFound' /\ WritesAreSaves'
  BY <1>2, <1>9, Parts DEF EndsAreFound, WritesAreSaves
<1>12. LossIsPaid'
  <2>1. commits' + (IF open THEN 1 ELSE 0) <= G + Cardinality(Hands(hand')) + F
    BY <1>1, <1>6, <1>7, <1>8
  <2> QED BY <1>2, <2>1 DEF LossIsPaid, G, F
<1>13. ReadOnce'
  BY <1>2, Parts DEF ReadOnce, AsRead
<1>14. NothingFromNothing'
  <2> SUFFICES ASSUME NEW q \in Rows, newest'[q] <= Unrecorded(q)
               PROVE  /\ row'[q] \in {0, newest'[q]} /\ rest'[q] = 1 .. row'[q]
                      /\ LinesOf(q, file) = {}
                      /\ \A v \in Writers : ~Held(v, q)'
                      /\ read # None => LinesOf(q, read.lines) = {}
    BY <1>2 DEF NothingFromNothing, Held, Unrecorded
  <2>1. q # r
    BY <1>2, <1>5
  <2>2. newest[q] <= Unrecorded(q) /\ newest'[q] = newest[q] /\ row'[q] = row[q] /\ rest'[q] = rest[q]
    BY <1>2, <2>1
  <2>3. \A v \in Writers : ~Held(v, q)
    BY <2>2, Parts DEF NothingFromNothing
  <2>4. \A v \in Writers : ~Held(v, q)'
    BY <1>3, <1>4, <2>1, <2>3 DEF Held
  <2> QED BY <2>2, <2>4, Parts DEF NothingFromNothing
<1>15. UndisturbedIsCurrent'
  <2> SUFFICES ASSUME NEW q \in Rows, q \notin disturbed'
               PROVE  Current(q)'
    BY DEF UndisturbedIsCurrent
  <2>1. Current(q)
    BY <1>2, Parts DEF UndisturbedIsCurrent
  <2>2. CASE q # r
    <3>1. \A v \in Writers : (Held(v, q)' <=> Held(v, q)) /\ (Held(v, q) => hand'[v] = hand[v])
      BY <1>1, <1>3, <1>4, <2>2 DEF Held
    <3> QED BY <1>2, <2>1, <2>2, <3>1, OthersStayCurrent
  <2>3. CASE q = r
    <3>1. read' = None /\ \A v \in Writers : ~Held(v, r)
      BY <1>2, <2>3
    <3>2. \A v \in Writers : Held(v, r)' <=> v = w
      BY <1>3, <1>4, <3>1 DEF Held
    <3>3. FirstShows(r, file') /\ LastShows(r, newest[r], file)
      BY <1>2, <2>1, <2>3, <3>1 DEF Current
    <3>4. ASSUME LinesOf(r, file) = {} PROVE x.rest = FirstSaves(r)
      <4>1. newest[r] \in Nat /\ Unrecorded(r) \in {0, 1}
        BY Parts DEF TypeOK, Unrecorded
      <4>2. newest[r] <= Unrecorded(r)
        BY <3>3, <3>4, <4>1 DEF LastShows
      <4>3. row[r] \in {0, newest[r]} /\ rest[r] = 1 .. row[r]
        BY <4>2, Parts DEF NothingFromNothing
      <4>4. row[r] = Unrecorded(r)
        BY <1>2, <1>5, <4>1, <4>2, <4>3
      <4>5. x.rest = 1 .. row[r] \cup {row[r] + 1}
        BY <1>2, <1>3, <4>3
      <4>6. \A k \in Nat : 1 .. k \cup {k + 1} = 1 .. k + 1
        OBVIOUS
      <4> QED BY <1>2, <4>4, <4>5, <4>6 DEF FirstSaves
    <3>5. hand'[w].version = newest'[r] /\ (LinesOf(r, file') = {} => hand'[w].rest = FirstSaves(r))
      BY <1>2, <1>3, <1>4, <3>4
    <3> QED BY <2>3, <3>1, <3>2, <3>3, <3>5 DEF Current
  <2> QED BY <2>2, <2>3
<1> QED BY <1>10, <1>11, <1>12, <1>13, <1>14, <1>15 DEF IInv

(* An empty file holds what was saved: nothing. *)
LEMMA InitIInv == Init => IInv
<1> SUFFICES ASSUME Init PROVE IInv
  OBVIOUS
<1>1. /\ row = [r \in Rows |-> 0] /\ newest = [r \in Rows |-> 0] /\ rest = [r \in Rows |-> {}]
      /\ file = <<>> /\ open = FALSE /\ writes = 0 /\ meta = None
      /\ hand = [w \in Writers |-> None] /\ read = None
      /\ commits = 0 /\ faults = 0 /\ disturbed = {}
  BY DEF Init
<1>2. file \in Lines /\ Len(file) = 0 /\ \A r : LinesOf(r, file) = {}
  <2>1. \A S : <<>> \in Seq(S)
    OBVIOUS
  <2>2. Len(file) = 0 /\ 1 .. Len(file) = {}
    BY <1>1
  <2> QED BY <1>1, <2>1, <2>2 DEF Lines, LinesOf
<1>3. /\ \A r \in Rows : newest[r] = 0 /\ row[r] = 0 /\ rest[r] = 1 .. row[r]
      /\ \A w \in Writers : hand[w] = None
  BY <1>1
<1>4. Cardinality(Hands(hand)) = 0
  <2>1. Hands(hand) = {}
    BY <1>3 DEF Hands
  <2> QED BY <2>1, FS_EmptySet
<1>5. TypeOK
  <2>1. /\ row \in [Rows -> 0 .. MaxVersion] /\ newest \in [Rows -> 0 .. MaxVersion]
        /\ hand \in [Writers -> Record \cup {None}] /\ rest \in [Rows -> Saves]
    BY <1>1 DEF Saves
  <2>2. Len(file) <= commits /\ writes \in Len(file) .. commits
    BY <1>1, <1>2
  <2>3. commits \in 0 .. MaxCommits /\ faults \in 0 .. MaxFaults
    BY <1>1
  <2>4. open \in BOOLEAN /\ disturbed \subseteq Rows
    BY <1>1
  <2>5. read = None /\ meta = None
    BY <1>1
  <2> QED BY <1>2, <2>1, <2>2, <2>3, <2>4, <2>5 DEF TypeOK
<1>6. EndsAreFound /\ WritesAreSaves
  BY <1>1, <1>2, <1>4 DEF EndsAreFound, WritesAreSaves, HasEnds
<1>7. LossIsPaid
  <2>1. Cardinality(Good(file)) \in Nat /\ faults * (Cardinality(Writers) + 1) \in Nat
    BY <1>5, Numbers
  <2> QED BY <1>1, <1>4, <2>1 DEF LossIsPaid
<1>8. ReadOnce /\ NothingFromNothing
  BY <1>1, <1>2, <1>3 DEF ReadOnce, NothingFromNothing, Held
<1>9. UndisturbedIsCurrent
  <2> SUFFICES ASSUME NEW r \in Rows PROVE Current(r)
    BY DEF UndisturbedIsCurrent
  <2>1. \A w \in Writers : ~Held(w, r)
    BY <1>3 DEF Held
  <2>2. FirstShows(r, file)
    BY <1>2 DEF FirstShows
  <2>3. LastShows(r, newest[r], file)
    BY <1>3 DEF LastShows, Unrecorded
  <2> QED BY <1>1, <2>1, <2>2, <2>3 DEF Current
<1> QED BY <1>5, <1>6, <1>7, <1>8, <1>9 DEF IInv

(* Every step keeps the invariant. *)
LEMMA NextIInv == IInv /\ [Next]_vars => IInv'
<1> SUFFICES ASSUME IInv, [Next]_vars PROVE IInv'
  OBVIOUS
<1>1. ASSUME NEW w \in Writers, AppendLine(w) PROVE IInv'
  BY <1>1, AppendKeeps
<1>2. ASSUME NEW w \in Writers, AppendFails(w) PROVE IInv'
  BY <1>2, AppendFailsKeeps
<1>3. ASSUME NEW w \in Writers, NEW r \in Rows, Commit(w, r) PROVE IInv'
  <2>1. CASE Recorded(r)
    BY <1>3, <2>1, CommitKeeps
  <2>2. CASE ~Recorded(r)
    BY <1>3, <2>2, SubmitKeeps
  <2> QED BY <2>1, <2>2
<1>4. CASE ReadFile
  BY <1>4, ReadFileKeeps
<1>5. CASE Apply
  BY <1>5, ApplyKeeps
<1>6. CASE Crash
  BY <1>6, CrashKeeps
<1>7. CASE LoseDatabase
  BY <1>7, LoseDatabaseKeeps
<1>8. CASE UNCHANGED vars
  <2>1. UNCHANGED <<row, rest, newest, file, open, writes, meta, hand, read, commits, faults, disturbed>>
    BY <1>8 DEF vars
  <2>2. TypeOK' /\ EndsAreFound' /\ WritesAreSaves'
    BY <2>1, Parts DEF TypeOK, EndsAreFound, WritesAreSaves
  <2>3. LossIsPaid' /\ ReadOnce'
    BY <2>1, Parts DEF LossIsPaid, ReadOnce, AsRead
  <2>4. NothingFromNothing'
    BY <2>1, Parts DEF NothingFromNothing, Held, Unrecorded
  <2>5. UndisturbedIsCurrent'
    BY <2>1, Parts DEF UndisturbedIsCurrent, Current, Held
  <2> QED BY <2>2, <2>3, <2>4, <2>5 DEF IInv
<1> QED BY <1>1, <1>2, <1>3, <1>4, <1>5, <1>6, <1>7, <1>8 DEF Next

-----------------------------------------------------------------------------
(* Theorems *)

(* The inductive invariant: the account of saves, writes and losses, what a  *)
(* content that was read still says of the file, and what the file says of   *)
(* a row whose records met neither a fault nor each other.                   *)
THEOREM ShardInvariance == Spec => []IInv
<1>1. Init => IInv
  BY InitIInv
<1>2. IInv /\ [Next]_vars => IInv'
  BY NextIInv
<1> QED BY <1>1, <1>2, PTL DEF Spec

(* Rows, file, meta row, hands and counters have their types; in particular  *)
(* no more is written to the file than was saved.                            *)
THEOREM ShardTypeCorrect == Spec => []TypeOK
<1>1. IInv => TypeOK
  BY Parts
<1> QED BY <1>1, ShardInvariance, PTL

(* A failed append or a crash costs the records in hand and at most one      *)
(* more, however many writers append and however often it happens.           *)
THEOREM FaultsCostNoMore == Spec => []LossIsBounded
<1>1. IInv => LossIsBounded
  <2> SUFFICES ASSUME IInv PROVE LossIsBounded
    OBVIOUS
  <2>1. /\ commits \in Nat /\ Cardinality(Good(file)) \in Nat /\ Cardinality(Hands(hand)) \in Nat
        /\ faults * (Cardinality(Writers) + 1) \in Nat
    BY Parts, Numbers
  <2>2. commits + (IF open THEN 1 ELSE 0)
          <= Cardinality(Good(file)) + Cardinality(Hands(hand)) + faults * (Cardinality(Writers) + 1)
    BY Parts DEF LossIsPaid
  <2>3. commits <= Cardinality(Good(file)) + Cardinality(Hands(hand)) + faults * (Cardinality(Writers) + 1)
    BY <2>1, <2>2
  <2> QED BY <2>3 DEF LossIsBounded, Good, Hands
<1> QED BY <1>1, ShardInvariance, PTL

(* Whatever became of other rows' records, the last line of a row whose own  *)
(* records met neither a fault nor each other nor a rebuild is the newest    *)
(* version that was committed, as soon as no writer has one in hand.         *)
THEOREM FileKeepsUp == Spec => []FileIsCurrent
<1>1. IInv => FileIsCurrent
  <2> SUFFICES ASSUME IInv, NEW r \in Rows, r \notin disturbed, r \notin InHand,
                      newest[r] > Unrecorded(r)
               PROVE  LinesOf(r, file) # {} /\ file[Max(LinesOf(r, file))].version = newest[r]
    BY DEF FileIsCurrent
  <2>1. LastShows(r, newest[r], file)
    BY Parts DEF UndisturbedIsCurrent, Current, InHand, Held
  <2>2. PICK i \in LinesOf(r, file) : IsLast(i, r, file) /\ file[i].version = newest[r]
    BY <2>1 DEF LastShows
  <2>3. Max(LinesOf(r, file)) = i
    BY <2>2, Parts, LastIsMax DEF TypeOK
  <2> QED BY <2>2, <2>3
<1> QED BY <1>1, ShardInvariance, PTL

(* Whatever was appended, torn, lost or rebuilt, a file that was not written *)
(* to since the rebuild read it is not reported as damaged.                  *)
THEOREM VerifyTrustsTheUnwritten == Spec => []OnlyDamagedIsReported
<1>1. IInv => OnlyDamagedIsReported
  BY Parts DEF ReadOnce, AsRead, OnlyDamagedIsReported, ReportedDamaged
<1> QED BY <1>1, ShardInvariance, PTL

(* A rebuild brings every mail and every recorded disposition back in its    *)
(* newest state and version, also into a database that was lost and whatever *)
(* became of other rows' records; its other columns it leaves alone, or      *)
(* fills from the row's first line when the row was lost.                    *)
THEOREM RebuildRestores == Spec => RebuildRestoresRecords
<1>1. IInv /\ [Next]_vars =>
        [Apply => \A r \in Rows \ (Handovers \cup disturbed) : newest[r] > Unrecorded(r) =>
           /\ row'[r] = newest[r]
           /\ rest'[r] = IF row[r] = 0 THEN FirstSaves(r) ELSE rest[r]]_vars
  <2> SUFFICES ASSUME IInv, Apply, NEW r \in Rows, r \notin Handovers, r \notin disturbed,
                      newest[r] > Unrecorded(r)
               PROVE  /\ row'[r] = newest[r]
                      /\ rest'[r] = IF row[r] = 0 THEN FirstSaves(r) ELSE rest[r]
    OBVIOUS
  <2>1. /\ read # None /\ row'[r] = Replayed(r, read.lines) /\ rest'[r] = ReplayedRest(r, read.lines)
    BY DEF Apply
  <2>2. read.lines \in Lines /\ HasEnds(read.lines)
    BY <2>1, Parts DEF TypeOK, Content
  <2>3. FirstShows(r, read.lines) /\ LastShows(r, newest[r], read.lines)
    BY <2>1, Parts DEF UndisturbedIsCurrent, Current
  <2>4. PICK i \in LinesOf(r, read.lines) : IsLast(i, r, read.lines) /\ read.lines[i].version = newest[r]
    BY <2>3 DEF LastShows
  <2>5. row'[r] = newest[r]
    BY <2>1, <2>2, <2>4, ReplayedIs
  <2>6. PICK j \in LinesOf(r, read.lines) : IsFirst(j, r, read.lines)
    BY <2>2, <2>4 DEF HasEnds
  <2>7. read.lines[j].rest = FirstSaves(r)
    BY <2>3, <2>6 DEF FirstShows
  <2>8. row[r] = 0 => rest'[r] = FirstSaves(r)
    BY <2>1, <2>2, <2>6, <2>7, ReplayedRestIs
  <2>9. row[r] # 0 => rest'[r] = rest[r]
    BY <2>1, <2>2, ReplayedRestIs
  <2> QED BY <2>5, <2>8, <2>9
<1> QED BY <1>1, ShardInvariance, PTL DEF Spec, RebuildRestoresRecords
================================================================================
