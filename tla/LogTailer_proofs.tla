---------------------------- MODULE LogTailer_proofs ----------------------------
(***************************************************************************)
(* For logs of any size and number: what the tailer has consumed of an     *)
(* open log is exactly what it read through its handle, and every line it  *)
(* processes is whole.                                                     *)
(***************************************************************************)
EXTENDS LogTailer, TLAPS, SequenceTheorems, WellFoundedInduction

-----------------------------------------------------------------------------
(* Lines and sequences of cells.                                           *)

(* The last newline of a buffer exists, or is counted as 0.                *)
LEMMA LastNewlineProperties ==
  ASSUME NEW b \in Seq(Cell)
  PROVE  /\ LastNewline(b) \in 0..Len(b)
         /\ LastNewline(b) = 0 \/ EndsLine(b[LastNewline(b)])
         /\ \A m \in (LastNewline(b) + 1)..Len(b) : ~EndsLine(b[m])
<1> DEFINE From(k) == Len(b) - k
           T == {k \in 0..Len(b) : From(k) = 0 \/ EndsLine(b[From(k)])}
           Wanted(n) == /\ n = 0 \/ EndsLine(b[n])
                        /\ \A m \in (n + 1)..Len(b) : ~EndsLine(b[m])
<1>1. Len(b) \in Nat
  OBVIOUS
<1>2. Len(b) \in T /\ T \subseteq Nat
  BY <1>1
<1>3. PICK k \in T : \A j \in T : ~(<<j, k>> \in OpToRel(<, Nat))
  <2> HIDE DEF T
  <2> QED
    BY <1>2, WFMin, NatLessThanWellFounded
<1>4. \A j \in T : ~(j < k)
  BY <1>2, <1>3 DEF OpToRel
<1>5. Wanted(From(k))
  <2>1. From(k) = 0 \/ EndsLine(b[From(k)])
    OBVIOUS
  <2>2. ASSUME NEW m \in (From(k) + 1)..Len(b), EndsLine(b[m])
        PROVE  FALSE
    <3>1. Len(b) - m \in 0..Len(b) /\ From(Len(b) - m) = m /\ Len(b) - m < k
      BY <1>1
    <3>2. Len(b) - m \in T
      BY <2>2, <3>1
    <3> QED
      BY <1>4, <3>1, <3>2
  <2> QED
    BY <2>1, <2>2
<1>6. From(k) \in 0..Len(b)
  BY <1>1
<1>7. LastNewline(b) \in 0..Len(b) /\ Wanted(LastNewline(b))
  <2>1. LastNewline(b) = CHOOSE n \in 0..Len(b) : Wanted(n)
    BY DEF LastNewline
  <2> HIDE DEF Wanted, From
  <2> QED
    BY <1>5, <1>6, <2>1
<1> QED
  BY <1>7

(* A sequence is what SubSeq splits it into.                               *)
LEMMA Split ==
  ASSUME NEW s \in Seq(Cell), NEW n \in 0..Len(s)
  PROVE  /\ SubSeq(s, 1, n) \in Seq(Cell)
         /\ Len(SubSeq(s, 1, n)) = n
         /\ \A k \in 1..n : SubSeq(s, 1, n)[k] = s[k]
         /\ SubSeq(s, n + 1, Len(s)) \in Seq(Cell)
         /\ Len(SubSeq(s, n + 1, Len(s))) = Len(s) - n
         /\ \A k \in 1..(Len(s) - n) : SubSeq(s, n + 1, Len(s))[k] = s[n + k]
<1>1. Len(s) \in Nat /\ \A k \in 1..Len(s) : s[k] \in Cell
  BY ElementOfSeq
<1>2. \A k \in 1..n : s[k] \in Cell
  BY <1>1
<1>3. \A k \in (n + 1)..Len(s) : s[k] \in Cell
  BY <1>1
<1>4. /\ SubSeq(s, 1, n) \in Seq(Cell)
      /\ Len(SubSeq(s, 1, n)) = IF 1 <= n THEN n - 1 + 1 ELSE 0
      /\ \A k \in 1..(n - 1 + 1) : SubSeq(s, 1, n)[k] = s[1 + k - 1]
  BY <1>2, SubSeqProperties, SMT
<1>5. /\ SubSeq(s, n + 1, Len(s)) \in Seq(Cell)
      /\ Len(SubSeq(s, n + 1, Len(s))) =
           IF n + 1 <= Len(s) THEN Len(s) - (n + 1) + 1 ELSE 0
      /\ \A k \in 1..(Len(s) - (n + 1) + 1) :
           SubSeq(s, n + 1, Len(s))[k] = s[(n + 1) + k - 1]
  BY <1>1, <1>3, SubSeqProperties, SMT
<1> QED
  BY <1>1, <1>4, <1>5

LEMMA SplitConcat ==
  ASSUME NEW s \in Seq(Cell), NEW n \in 0..Len(s)
  PROVE  SubSeq(s, 1, n) \o SubSeq(s, n + 1, Len(s)) = s
<1> DEFINE a == SubSeq(s, 1, n)
           z == SubSeq(s, n + 1, Len(s))
<1>1. /\ a \in Seq(Cell) /\ Len(a) = n /\ \A k \in 1..n : a[k] = s[k]
      /\ z \in Seq(Cell) /\ Len(z) = Len(s) - n /\ \A k \in 1..(Len(s) - n) : z[k] = s[n + k]
  BY Split
<1> HIDE DEF a, z
<1>2. /\ a \o z \in Seq(Cell)
      /\ Len(a \o z) = Len(a) + Len(z)
      /\ \A k \in 1..(Len(a) + Len(z)) : (a \o z)[k] = IF k <= Len(a) THEN a[k] ELSE z[k - Len(a)]
  BY <1>1, ConcatProperties
<1>3. Len(a \o z) = Len(s) /\ Len(s) \in Nat
  BY <1>1, <1>2
<1>4. ASSUME NEW k \in 1..Len(s)
      PROVE  (a \o z)[k] = s[k]
  <2>1. CASE k <= n
    BY <1>1, <1>2, <1>3, <2>1
  <2>2. CASE ~(k <= n)
    <3>1. k - n \in 1..(Len(s) - n) /\ n + (k - n) = k
      BY <1>3, <2>2
    <3>2. z[k - n] = s[n + (k - n)]
      BY <1>1, <3>1
    <3> QED
      BY <1>1, <1>2, <1>3, <2>2, <3>1, <3>2
  <2> QED
    BY <2>1, <2>2
<1>5. a \o z = s
  BY <1>2, <1>3, <1>4, SeqEqual
<1> QED
  BY <1>5 DEF a, z

LEMMA WholePrefix ==
  ASSUME NEW s \in Seq(Cell), NEW t \in Seq(Cell), Whole(s \o t)
  PROVE  Whole(s)
<1>1. /\ Len(s \o t) = Len(s) + Len(t) /\ Len(s) \in Nat /\ Len(t) \in Nat
      /\ \A k \in 1..Len(s) : (s \o t)[k] = s[k]
  BY ConcatProperties
<1>2. ASSUME NEW k \in 2..Len(s)
      PROVE  Follows(s[k - 1], s[k])
  <2>1. k \in 2..Len(s \o t) /\ k - 1 \in 1..Len(s) /\ k \in 1..Len(s)
    BY <1>1
  <2>2. Follows((s \o t)[k - 1], (s \o t)[k])
    BY <2>1 DEF Whole
  <2> QED
    BY <1>1, <2>1, <2>2
<1> QED
  BY <1>2 DEF Whole

LEMMA WholeConcat ==
  ASSUME NEW s \in Seq(Cell), NEW t \in Seq(Cell), Whole(s), Whole(t),
         s # <<>> /\ t # <<>> => Follows(s[Len(s)], t[1])
  PROVE  Whole(s \o t)
<1> DEFINE n == Len(s)
<1>1. /\ Len(s \o t) = n + Len(t) /\ n \in Nat /\ Len(t) \in Nat
      /\ \A k \in 1..(n + Len(t)) : (s \o t)[k] = IF k <= n THEN s[k] ELSE t[k - n]
  BY ConcatProperties
<1> SUFFICES ASSUME NEW k \in 2..(n + Len(t))
             PROVE  Follows((s \o t)[k - 1], (s \o t)[k])
  BY <1>1 DEF Whole
<1> HIDE DEF n
<1>2. CASE k <= n
  <2>1. (s \o t)[k - 1] = s[k - 1] /\ (s \o t)[k] = s[k] /\ k \in 2..n
    BY <1>1, <1>2
  <2> QED
    BY <2>1 DEF Whole, n
<1>3. CASE k = n + 1
  <2>1. (s \o t)[k - 1] = s[n] /\ (s \o t)[k] = t[1]
    BY <1>1, <1>3
  <2>2. s # <<>> /\ t # <<>>
    BY <1>1, <1>3 DEF n
  <2> QED
    BY <2>1, <2>2 DEF n
<1>4. CASE k > n + 1
  <2>1. (s \o t)[k - 1] = t[(k - n) - 1] /\ (s \o t)[k] = t[k - n] /\ k - n \in 2..Len(t)
    BY <1>1, <1>4
  <2> QED
    BY <2>1 DEF Whole
<1> QED
  BY <1>1, <1>2, <1>3, <1>4

-----------------------------------------------------------------------------
(* A read.                                                                 *)

LEMMA ChunkProperties ==
  ASSUME TypeOK, fh # None
  PROVE  /\ Chunk(fh) \in Seq(Cell)
         /\ Chunk(fh) # <<>> => /\ files[fh.ino].size > fh.pos
                                /\ Len(Chunk(fh)) = files[fh.ino].size - fh.pos
         /\ \A k \in 1..Len(Chunk(fh)) :
               Chunk(fh)[k] = [gen |-> files[fh.ino].gen, at |-> fh.pos + k]
         /\ Whole(Chunk(fh))
<1> DEFINE g == files[fh.ino].gen
           z == files[fh.ino].size
           p == fh.pos
           n == IF z > p THEN z - p ELSE 0
           c == [k \in 1..n |-> [gen |-> g, at |-> p + k]]
<1>1. g \in Inode /\ z \in 0..MaxSize /\ p \in 0..MaxSize
  BY DEF TypeOK
<1>2. Chunk(fh) = c
  BY DEF Chunk
<1> HIDE DEF g, z, p
<1>3. n \in Nat /\ c \in [1..n -> Cell]
  <2>1. ASSUME NEW k \in 1..n
        PROVE  p + k \in 1..MaxSize
    BY <1>1, MaxSizeAssumption
  <2> QED
    BY <1>1, <2>1, MaxSizeAssumption DEF Cell
<1>4. c \in Seq(Cell) /\ Len(c) = n
  BY <1>3
<1>5. c # <<>> => n # 0
  BY <1>3
<1>6. Whole(c)
  <2> SUFFICES ASSUME NEW k \in 2..n
               PROVE  Follows(c[k - 1], c[k])
    BY <1>4 DEF Whole
  <2>1. k \in 1..n /\ k - 1 \in 1..n
    BY <1>3
  <2>2. c[k] = [gen |-> g, at |-> p + k] /\ c[k - 1] = [gen |-> g, at |-> p + (k - 1)]
    BY <2>1
  <2> HIDE DEF c
  <2>3. c[k].gen = g /\ c[k].at = p + k /\ c[k - 1].at = p + (k - 1)
    BY <2>2
  <2>4. (p + k) - 1 = p + (k - 1) /\ p + k \in Nat
    BY <1>1, <2>1
  <2>5. (p + k) % 2 = 0 \/ (p + (k - 1)) % 2 = 0
    BY <2>4
  <2> QED
    BY <2>2, <2>3, <2>4, <2>5 DEF Follows, EndsLine
<1> QED
  BY <1>1, <1>2, <1>3, <1>4, <1>5, <1>6 DEF g, z, p

(* What a read does to what was consumed: the chunk is added at its end,   *)
(* and what is processed of it ends with a line.                           *)
LEMMA ReadAppends ==
  ASSUME TypeOK, fh # None, ReadSome
  PROVE  /\ applied' \in Seq(Cell) /\ buffer' \in Seq(Cell)
         /\ Consumed' = Consumed \o Chunk(fh)
         /\ applied' # <<>> => applied' = applied \/ EndsLine(applied'[Len(applied')])
<1> DEFINE all == buffer \o Chunk(fh)
           n == LastNewline(all)
           a == SubSeq(all, 1, n)
           z == SubSeq(all, n + 1, Len(all))
<1>1. applied \in Seq(Cell) /\ buffer \in Seq(Cell) /\ Chunk(fh) \in Seq(Cell)
  BY ChunkProperties DEF TypeOK
<1>2. all \in Seq(Cell)
  BY <1>1, ConcatProperties
<1>3. applied' = applied \o a /\ buffer' = z
  BY DEF ReadSome
<1> HIDE DEF all
<1>4. n \in 0..Len(all) /\ (n = 0 \/ EndsLine(all[n]))
  BY <1>2, LastNewlineProperties
<1> HIDE DEF n
<1>5. /\ a \in Seq(Cell) /\ z \in Seq(Cell) /\ Len(a) = n
      /\ \A k \in 1..n : a[k] = all[k]
  BY <1>2, <1>4, Split
<1>6. a \o z = all
  BY <1>2, <1>4, SplitConcat
<1> HIDE DEF a, z
<1>7. /\ applied \o a \in Seq(Cell) /\ Len(applied \o a) = Len(applied) + Len(a)
      /\ \A k \in 1..(Len(applied) + Len(a)) :
           (applied \o a)[k] = IF k <= Len(applied) THEN applied[k] ELSE a[k - Len(applied)]
      /\ Len(applied) \in Nat
  <2>1. applied \in Seq(Cell) /\ a \in Seq(Cell)
    BY <1>1, <1>5
  <2> QED
    BY <2>1, ConcatProperties
<1>8. Consumed' = Consumed \o Chunk(fh)
  <2>1. Consumed' = (applied \o a) \o z
    BY <1>3 DEF Consumed
  <2>2. (applied \o a) \o z = applied \o (a \o z)
    BY <1>1, <1>5, ConcatAssociative
  <2>3. applied \o (buffer \o Chunk(fh)) = (applied \o buffer) \o Chunk(fh)
    BY <1>1, ConcatAssociative
  <2> QED
    BY <1>6, <2>1, <2>2, <2>3 DEF all, Consumed
<1>9. CASE n = 0
  <2>1. a = <<>>
    BY <1>5, <1>9
  <2> QED
    BY <1>1, <1>3, <1>5, <1>8, <2>1, ConcatEmptySeq
<1>10. CASE n # 0
  <2>1. n \in Nat /\ n > 0
    BY <1>2, <1>4, <1>10
  <2>2. (applied \o a)[Len(applied) + n] = a[n]
    BY <1>5, <1>7, <2>1
  <2>3. a[n] = all[n]
    BY <1>5, <2>1
  <2> QED
    BY <1>3, <1>4, <1>5, <1>7, <1>8, <1>10, <2>2, <2>3
<1> QED
  BY <1>9, <1>10

-----------------------------------------------------------------------------
(* The invariant.                                                          *)

(* A handle is there while reading and nowhere else; without one, and      *)
(* without a gap, the state is empty; only the first open is not at the    *)
(* start of a file.                                                        *)
Handles ==
  /\ pc = "read" => fh # None
  /\ pc \in {"open", "done"} => fh = None
  /\ first_open => fh = None /\ applied = <<>> /\ ~gap
  /\ fh # None /\ gap => from = 0
  /\ fh = None /\ ~gap /\ pc # "done" => applied = <<>>

PathIsUsed == path # None => path <= gens

AppliedEndsLine == applied # <<>> => EndsLine(applied[Len(applied)])

(* What was read through the handle, cell by cell, is what was consumed    *)
(* last, and what was consumed first was read before a gap.                *)
ReadIsConsumed ==
  LET n == Len(Consumed) - (fh.pos - from)
  IN  /\ from <= fh.pos /\ fh.pos <= files[fh.ino].size
      /\ n >= 0 /\ (n = 0 \/ gap)
      /\ \A k \in 1..(fh.pos - from) :
           Consumed[n + k] = [gen |-> files[fh.ino].gen, at |-> from + k]
      /\ fh.pos = from => buffer = <<>>
      /\ Whole(Consumed)

TailerInv ==
  /\ TypeOK
  /\ Handles
  /\ PathIsUsed
  /\ AppliedEndsLine
  /\ NeverTruncated => Whole(applied)
  /\ NeverTruncated /\ fh # None => ReadIsConsumed

LEMMA InitHolds == Init => TailerInv
<1> SUFFICES ASSUME Init
             PROVE  TailerInv
  OBVIOUS
<1>1. TypeOK
  <2>1. PICK n \in 0..MaxSize :
          files = [i \in Inode |-> [gen |-> i, size |-> IF i = 1 /\ path = 1 THEN n ELSE 0]]
    BY DEF Init
  <2>2. files \in [Inode -> [gen : Inode, size : 0..MaxSize]]
    BY <2>1, MaxSizeAssumption
  <2>3. applied \in Seq(Cell) /\ buffer \in Seq(Cell)
    BY DEF Init
  <2>4. /\ first_open \in BOOLEAN /\ gap \in BOOLEAN /\ stopping \in BOOLEAN
        /\ outrun \in BOOLEAN
    BY DEF Init
  <2>5. 1 \in Inode /\ 0 \in 0..MaxSize /\ gens \in 0..MaxGen
    BY MaxGenAssumption, MaxSizeAssumption DEF Init, Inode
  <2> QED
    BY <2>2, <2>3, <2>4, <2>5 DEF Init, TypeOK
<1>2. Whole(applied)
  BY DEF Init, Whole
<1> QED
  BY <1>1, <1>2, MaxGenAssumption, NoneIsNoInode
     DEF Init, TailerInv, Handles, PathIsUsed, AppliedEndsLine

-----------------------------------------------------------------------------
LEMMA GameTypes ==
  ASSUME TypeOK, PathIsUsed, Game
  PROVE  /\ path' \in Inode \cup {None} /\ gens' \in 0..MaxGen
         /\ files' \in [Inode -> [gen : Inode, size : 0..MaxSize]]
         /\ PathIsUsed'
<1> DEFINE Files == [Inode -> [gen : Inode, size : 0..MaxSize]]
<1>1. /\ path \in Inode \cup {None} /\ gens \in 0..MaxGen /\ files \in Files
      /\ path # None => path \in Inode /\ path <= gens
      /\ MaxGen \in Nat /\ MaxSize \in Nat
  BY MaxGenAssumption, MaxSizeAssumption DEF TypeOK, PathIsUsed
<1> SUFFICES path' \in Inode \cup {None} /\ gens' \in 0..MaxGen /\ files' \in Files
             /\ PathIsUsed'
  OBVIOUS
<1>2. CASE GameAppends
  <2>1. path \in Inode /\ files[path].size < MaxSize /\ UNCHANGED <<path, gens>>
    BY <1>1, <1>2 DEF GameAppends
  <2>2. files[path].size \in 0..MaxSize
    BY <1>1, <2>1
  <2>3. files[path].size + 1 \in 0..MaxSize
    BY <1>1, <2>1, <2>2
  <2>4. files' = [files EXCEPT ![path].size = files[path].size + 1]
    BY <1>2 DEF GameAppends
  <2>5. files' \in Files
    BY <1>1, <2>1, <2>3, <2>4
  <2> QED
    BY <1>1, <2>1, <2>5 DEF PathIsUsed
<1>3. CASE GameCreates
  BY <1>1, <1>3 DEF GameCreates, PathIsUsed, Inode
<1>4. CASE GameRemoves
  BY <1>1, <1>4 DEF GameRemoves, PathIsUsed
<1>5. CASE GameTruncates
  <2>1. path \in Inode /\ gens + 1 \in Inode /\ 0 \in 0..MaxSize
    BY <1>1, <1>5 DEF GameTruncates, Inode
  <2>2. files' = [files EXCEPT ![path] = [gen |-> gens + 1, size |-> 0]]
    BY <1>5 DEF GameTruncates
  <2>3. files' \in Files
    BY <1>1, <2>1, <2>2
  <2>4. path' = path /\ gens' = gens + 1 /\ path <= gens /\ gens < MaxGen
    BY <1>1, <1>5 DEF GameTruncates
  <2> QED
    BY <1>1, <2>1, <2>3, <2>4 DEF PathIsUsed, Inode
<1> QED
  BY <1>2, <1>3, <1>4, <1>5 DEF Game

(* Unless it truncates, the game only adds to a file.                      *)
LEMMA FilesGrow ==
  ASSUME TypeOK, PathIsUsed, Game, NeverTruncated'
  PROVE  /\ NeverTruncated
         /\ \A i \in Inode : files'[i].gen = files[i].gen /\ files[i].size <= files'[i].size
<1>1. /\ files \in [Inode -> [gen : Inode, size : 0..MaxSize]] /\ gens \in Nat
      /\ \A i \in Inode : i \in Nat /\ files[i].size \in Nat
      /\ path # None => path \in Inode /\ path <= gens
  <2>1. /\ files \in [Inode -> [gen : Inode, size : 0..MaxSize]] /\ gens \in Nat
        /\ path # None => path \in Inode /\ path <= gens
    BY MaxGenAssumption DEF TypeOK, PathIsUsed
  <2>2. \A i \in Inode : i \in Nat
    BY MaxGenAssumption DEF Inode
  <2>3. \A i \in Inode : files[i].size \in 0..MaxSize
    BY <2>1
  <2>4. \A i \in Inode : files[i].size \in Nat
    BY <2>3, MaxSizeAssumption
  <2> QED
    BY <2>1, <2>2, <2>4
<1>2. CASE GameAppends
  <2>1. files' = [files EXCEPT ![path].size = files[path].size + 1] /\ path \in Inode
    BY <1>1, <1>2 DEF GameAppends
  <2>2. \A i \in Inode : files'[i].gen = files[i].gen /\ files[i].size <= files'[i].size
    BY <1>1, <2>1
  <2> QED
    BY <2>2 DEF NeverTruncated
<1>3. CASE GameCreates \/ GameRemoves
  <2>1. files' = files
    BY <1>3 DEF GameCreates, GameRemoves
  <2> QED
    BY <1>1, <2>1 DEF NeverTruncated
<1>4. CASE GameTruncates
  <2>1. files'[path].gen = gens + 1 /\ path \in Inode /\ path <= gens
    BY <1>1, <1>4 DEF GameTruncates
  <2>2. files'[path].gen = path
    BY <2>1 DEF NeverTruncated
  <2>3. path = gens + 1
    BY <2>1, <2>2
  <2>4. path \in Nat
    BY <1>1, <2>1
  <2> QED
    BY <1>1, <2>1, <2>3, <2>4
<1> QED
  BY <1>2, <1>3, <1>4 DEF Game

(* What the tailer has is not disturbed by a file that grows.              *)
LEMMA ReadKept ==
  ASSUME TypeOK, fh # None, ReadIsConsumed,
         fh' = fh, from' = from, applied' = applied, buffer' = buffer, gap' = gap,
         files'[fh.ino].gen = files[fh.ino].gen, files[fh.ino].size <= files'[fh.ino].size,
         files'[fh.ino].size \in 0..MaxSize
  PROVE  ReadIsConsumed'
<1>1. Consumed' = Consumed
  BY DEF Consumed
<1>2. fh.pos \in 0..MaxSize /\ files[fh.ino].size \in 0..MaxSize /\ from \in 0..MaxSize
  BY DEF TypeOK
<1>3. fh.pos <= files'[fh.ino].size
  BY <1>2, MaxSizeAssumption DEF ReadIsConsumed
<1> QED
  BY <1>1, <1>3 DEF ReadIsConsumed

LEMMA GameSteps ==
  ASSUME TailerInv, Game \/ Stop
  PROVE  TailerInv'
<1> USE DEF TailerInv
<1>1. UNCHANGED tailVars
  BY DEF Game, GameAppends, GameCreates, GameRemoves, GameTruncates, Stop
<1>2. CASE Game
  <2>1. stopping' = stopping
    BY <1>2 DEF Game, GameAppends, GameCreates, GameRemoves, GameTruncates
  <2>2. TypeOK' /\ PathIsUsed'
    <3>1. /\ stopping' \in BOOLEAN /\ first_open' \in BOOLEAN /\ gap' \in BOOLEAN
          /\ outrun' \in BOOLEAN
      BY <1>1, <2>1 DEF TypeOK, tailVars
    <3> QED
      BY <1>1, <1>2, <3>1, GameTypes DEF TypeOK, tailVars
  <2>3. Handles' /\ AppliedEndsLine'
    BY <1>1 DEF Handles, AppliedEndsLine, tailVars
  <2>4. ASSUME NeverTruncated'
        PROVE  Whole(applied')
    BY <1>1, <1>2, <2>4, FilesGrow DEF tailVars
  <2>5. ASSUME NeverTruncated', fh' # None
        PROVE  ReadIsConsumed'
    <3>1. fh.ino \in Inode /\ files'[fh.ino].size \in 0..MaxSize
      BY <1>1, <2>2, <2>5 DEF tailVars, TypeOK
    <3> QED
      BY <1>1, <1>2, <2>5, <3>1, FilesGrow, ReadKept DEF tailVars
  <2> QED
    BY <2>2, <2>3, <2>4, <2>5
<1>3. CASE Stop
  <2>1. stopping' \in BOOLEAN
    BY <1>3 DEF Stop
  <2>2. TypeOK'
    <3>1. first_open' \in BOOLEAN /\ gap' \in BOOLEAN /\ outrun' \in BOOLEAN
      BY <1>1 DEF TypeOK, tailVars
    <3> QED
      BY <1>1, <1>3, <2>1, <3>1 DEF Stop, TypeOK, tailVars, gameVars
  <2>3. UNCHANGED gameVars
    BY <1>3 DEF Stop
  <2>4. Handles' /\ PathIsUsed' /\ AppliedEndsLine'
    BY <1>1, <2>3 DEF Handles, PathIsUsed, AppliedEndsLine, tailVars, gameVars
  <2>5. (NeverTruncated' => Whole(applied')) /\ (NeverTruncated' <=> NeverTruncated)
    BY <1>1, <2>3 DEF NeverTruncated, tailVars, gameVars
  <2>6. ReadIsConsumed' <=> ReadIsConsumed
    BY <1>1, <2>3 DEF ReadIsConsumed, Consumed, tailVars, gameVars
  <2>7. fh' = fh
    BY <1>1 DEF tailVars
  <2> QED
    BY <2>2, <2>4, <2>5, <2>6, <2>7
<1> QED
  BY <1>2, <1>3

-----------------------------------------------------------------------------
(* The booleans on their own, then the rest of the types.                  *)
LEMMA TailerTypes ==
  ASSUME TailerInv, Tailer
  PROVE  TypeOK'
<1> USE DEF TailerInv
<1>1. /\ first_open \in BOOLEAN /\ gap \in BOOLEAN /\ outrun \in BOOLEAN
      /\ stopping \in BOOLEAN
      /\ path \in Inode \cup {None} /\ gens \in 0..MaxGen
      /\ files \in [Inode -> [gen : Inode, size : 0..MaxSize]]
      /\ st \in [ino : Inode, size : 0..MaxSize]
      /\ fh \in [ino : Inode, pos : 0..MaxSize] \cup {None}
      /\ last_inode \in Inode \cup {None} /\ last_size \in 0..MaxSize
      /\ buffer \in Seq(Cell) /\ applied \in Seq(Cell) /\ <<>> \in Seq(Cell)
      /\ from \in 0..MaxSize /\ 0 \in 0..MaxSize
      /\ \A i \in Inode : files[i].size \in 0..MaxSize
  BY MaxSizeAssumption DEF TypeOK
<1>2. UNCHANGED <<gameVars, stopping>>
  BY DEF Tailer, StatMissing, StatAnswers, OpenSucceeds, OpenFails, ReadSome, ReadNothing, Exit
<1>3. /\ first_open' \in BOOLEAN /\ gap' \in BOOLEAN /\ outrun' \in BOOLEAN
      /\ stopping' \in BOOLEAN
  <2>1. first_open' \in {first_open, FALSE} /\ gap' \in {gap, TRUE, FALSE}
    BY DEF Tailer, StatMissing, StatAnswers, OpenSucceeds, OpenFails, ReadSome, ReadNothing,
       Exit
  <2>2. CASE ReadSome
    <3>1. outrun' = (outrun \/ st.size # files[fh.ino].size)
      BY <2>2 DEF ReadSome
    <3>2. outrun' \in BOOLEAN
      BY <3>1
    <3> QED
      BY <1>1, <1>2, <2>1, <3>2
  <2>3. CASE StatMissing \/ StatAnswers \/ OpenSucceeds \/ OpenFails \/ ReadNothing \/ Exit
    <3>1. outrun' = outrun \/ outrun' = FALSE
      BY <2>3, Zenon DEF StatMissing, StatAnswers, OpenSucceeds, OpenFails, ReadNothing, Exit
    <3> QED
      BY <1>1, <1>2, <2>1, <3>1
  <2> QED
    BY <2>2, <2>3 DEF Tailer
<1>4. /\ pc' \in {"loop", "open", "read", "done"}
      /\ st' \in [ino : Inode, size : 0..MaxSize]
      /\ fh' \in [ino : Inode, pos : 0..MaxSize] \cup {None}
      /\ last_inode' \in Inode \cup {None} /\ last_size' \in 0..MaxSize
      /\ buffer' \in Seq(Cell) /\ applied' \in Seq(Cell)
      /\ from' \in 0..MaxSize
  <2>1. CASE StatMissing
    BY <1>1, <2>1 DEF StatMissing
  <2>2. CASE StatAnswers
    BY <1>1, <2>2 DEF StatAnswers
  <2>3. CASE OpenSucceeds
    BY <1>1, <2>3 DEF OpenSucceeds
  <2>4. CASE OpenFails \/ ReadNothing \/ Exit
    BY <1>1, <2>4 DEF OpenFails, ReadNothing, Exit
  <2>5. CASE ReadSome
    <3>1. fh # None
      BY <2>5 DEF ReadSome, Handles
    <3>2. applied' \in Seq(Cell) /\ buffer' \in Seq(Cell)
      BY <2>5, <3>1, ReadAppends
    <3>3. files[fh.ino].size \in 0..MaxSize /\ st.size \in 0..MaxSize
      BY <1>1, <3>1
    <3> QED
      BY <1>1, <2>5, <3>1, <3>2, <3>3 DEF ReadSome
  <2> QED
    BY <2>1, <2>2, <2>3, <2>4, <2>5 DEF Tailer
<1> QED
  BY <1>1, <1>2, <1>3, <1>4 DEF TypeOK, gameVars

(* The steps that leave what was consumed alone, or forget it.             *)
LEMMA OtherSteps ==
  ASSUME TailerInv, StatMissing \/ StatAnswers \/ OpenFails \/ ReadNothing \/ Exit
  PROVE  TailerInv'
<1> USE DEF TailerInv
<1>1. TypeOK'
  BY TailerTypes DEF Tailer
<1>2. files' = files /\ path' = path /\ gens' = gens /\ first_open' = first_open /\ from' = from
  BY DEF StatMissing, StatAnswers, OpenFails, ReadNothing, Exit, gameVars
<1>3. applied' = applied \/ applied' = <<>>
  BY DEF StatMissing, StatAnswers, OpenFails, ReadNothing, Exit
<1>4. fh' # None => fh' = fh /\ buffer' = buffer /\ applied' = applied /\ gap' = gap
  BY DEF StatMissing, StatAnswers, OpenFails, ReadNothing, Exit
<1>5. Handles'
  <2>1. CASE StatMissing
    BY <2>1 DEF StatMissing, Handles
  <2>2. CASE StatAnswers
    BY <2>2 DEF StatAnswers, Rotated, Handles
  <2>3. CASE OpenFails
    BY <2>3 DEF OpenFails, Handles
  <2>4. CASE ReadNothing
    BY <2>4 DEF ReadNothing, Handles
  <2>5. CASE Exit
    BY <2>5 DEF Exit, Handles
  <2> QED
    BY <2>1, <2>2, <2>3, <2>4, <2>5
<1>6. PathIsUsed' /\ AppliedEndsLine'
  BY <1>2, <1>3 DEF PathIsUsed, AppliedEndsLine
<1>7. NeverTruncated' <=> NeverTruncated
  BY <1>2 DEF NeverTruncated
<1>8. Whole(<<>>)
  BY DEF Whole
<1>9. NeverTruncated' => Whole(applied')
  BY <1>3, <1>7, <1>8
<1>10. ASSUME NeverTruncated', fh' # None
       PROVE  ReadIsConsumed'
  BY <1>2, <1>4, <1>7, <1>10 DEF ReadIsConsumed, Consumed
<1> QED
  BY <1>1, <1>5, <1>6, <1>9, <1>10

LEMMA OpenStep ==
  ASSUME TailerInv, OpenSucceeds
  PROVE  TailerInv'
<1> USE DEF TailerInv
<1> DEFINE start == IF first_open THEN files[path].size ELSE 0
<1>1. TypeOK'
  BY TailerTypes DEF Tailer
<1>2. /\ fh' = [ino |-> path, pos |-> start] /\ from' = start
      /\ UNCHANGED <<files, path, gens, applied, gap>>
      /\ buffer' = <<>> /\ first_open' = FALSE /\ pc' = "read" /\ pc = "open" /\ path # None
  BY DEF OpenSucceeds, gameVars
<1>3. path \in Inode /\ start \in 0..MaxSize /\ start <= files[path].size
  <2>1. path \in Inode /\ files[path].size \in 0..MaxSize
    BY <1>2 DEF TypeOK
  <2> QED
    BY <2>1, MaxSizeAssumption
<1> HIDE DEF start
<1>4. fh' # None /\ fh'.pos = start /\ fh'.ino = path
  <2>1. fh' \in [ino : 1..MaxGen, pos : 0..MaxSize]
    BY <1>2, <1>3 DEF Inode
  <2> QED
    BY <1>2, <2>1, NoneIsNoInode
<1>5. first_open \/ start = 0
  BY DEF start
<1>6. Handles'
  BY <1>2, <1>4, <1>5 DEF Handles
<1>7. PathIsUsed' /\ AppliedEndsLine'
  BY <1>2 DEF PathIsUsed, AppliedEndsLine
<1>8. NeverTruncated' <=> NeverTruncated
  BY <1>2 DEF NeverTruncated
<1>9. ASSUME NeverTruncated'
      PROVE  ReadIsConsumed'
  <2>1. applied \in Seq(Cell) /\ Len(applied) \in Nat
    BY DEF TypeOK
  <2>2. Consumed' = applied
    BY <1>2, <2>1, ConcatEmptySeq DEF Consumed
  <2>3. ~gap => Len(applied) = 0
    BY <1>2 DEF Handles
  <2>4. files'[fh'.ino].size = files[path].size
    BY <1>2, <1>4
  <2>5. fh'.pos - from' = 0 /\ from' <= fh'.pos /\ fh'.pos <= files'[fh'.ino].size
    BY <1>2, <1>3, <1>4, <2>4, MaxSizeAssumption
  <2>6. Whole(Consumed')
    BY <1>8, <1>9, <2>2
  <2>7. Len(Consumed') - (fh'.pos - from') = Len(applied)
    BY <2>1, <2>2, <2>5
  <2> QED
    BY <1>2, <2>1, <2>3, <2>5, <2>6, <2>7 DEF ReadIsConsumed
<1> QED
  BY <1>1, <1>2, <1>6, <1>7, <1>8, <1>9

(* A chunk follows what was consumed before it: it goes on where the       *)
(* handle stood, or it is the start of a file and the lines before are     *)
(* whole.                                                                  *)
LEMMA ChunkFollows ==
  ASSUME TailerInv, NeverTruncated, fh # None, Consumed # <<>>, Chunk(fh) # <<>>
  PROVE  Follows(Consumed[Len(Consumed)], Chunk(fh)[1])
<1> USE DEF TailerInv
<1> DEFINE g == files[fh.ino].gen
           p == fh.pos
           c == Chunk(fh)[1]
           last == Consumed[Len(Consumed)]
<1> SUFFICES Follows(last, c)
  OBVIOUS
<1>1. /\ p \in Nat /\ from \in Nat /\ files[fh.ino].size \in Nat
      /\ applied \in Seq(Cell) /\ buffer \in Seq(Cell)
  BY MaxSizeAssumption DEF TypeOK
<1>2. Consumed \in Seq(Cell) /\ Len(Consumed) \in Nat /\ Len(Consumed) # 0
  BY <1>1, ConcatProperties DEF Consumed
<1>3. ReadIsConsumed
  OBVIOUS
<1>4. c = [gen |-> g, at |-> p + 1]
  <2>1. Chunk(fh) \in Seq(Cell) /\ Len(Chunk(fh)) \in Nat /\ Len(Chunk(fh)) # 0
    BY ChunkProperties
  <2>2. 1 \in 1..Len(Chunk(fh))
    BY <2>1
  <2> QED
    BY <2>2, ChunkProperties
<1> HIDE DEF c, g, p
<1>5. c.gen = g /\ c.at = p + 1 /\ c.at - 1 = p
  BY <1>1, <1>4
<1>6. EndsLine(c) \/ p % 2 = 0
  BY <1>1, <1>5 DEF EndsLine
<1>7. CASE p > from
  <2>1. last = [gen |-> g, at |-> p]
    <3>1. p - from \in 1..(p - from)
      BY <1>1, <1>7
    <3>2. Consumed[(Len(Consumed) - (p - from)) + (p - from)] = [gen |-> g, at |-> from + (p - from)]
      BY <1>3, <3>1 DEF ReadIsConsumed, p, g
    <3> QED
      BY <1>1, <1>2, <3>2
  <2>2. last.at = p
    BY <2>1
  <2> HIDE DEF last
  <2> QED
    BY <1>5, <1>6, <2>1, <2>2 DEF Follows, EndsLine
<1>8. CASE p = from
  <2>1. buffer = <<>>
    BY <1>3, <1>8 DEF ReadIsConsumed, p
  <2>2. Consumed = applied
    BY <1>1, <2>1, ConcatEmptySeq DEF Consumed
  <2>3. EndsLine(last)
    BY <2>2 DEF AppliedEndsLine
  <2>4. from = 0
    <3>1. Len(Consumed) - (p - from) # 0
      BY <1>1, <1>2, <1>8
    <3>2. gap
      BY <1>3, <3>1 DEF ReadIsConsumed, p
    <3> QED
      BY <3>2 DEF Handles
  <2>5. c.at = 1
    BY <1>5, <1>8, <2>4
  <2>6. ~EndsLine(c)
    BY <2>5 DEF EndsLine
  <2> QED
    BY <2>3, <2>6 DEF Follows
<1>9. from <= p
  BY <1>3 DEF ReadIsConsumed, p
<1> QED
  BY <1>1, <1>7, <1>8, <1>9

LEMMA ReadStep ==
  ASSUME TailerInv, ReadSome
  PROVE  TailerInv'
<1> USE DEF TailerInv
<1> DEFINE z == files[fh.ino].size
           g == files[fh.ino].gen
           d == Chunk(fh)
<1>1. TypeOK'
  BY TailerTypes DEF Tailer
<1>2. /\ fh # None /\ fh' = [fh EXCEPT !.pos = z] /\ d # <<>>
      /\ UNCHANGED <<files, path, gens, from, gap, first_open>>
      /\ pc' = "loop" /\ pc = "read"
  BY DEF ReadSome, Handles, gameVars
<1>3. /\ applied' \in Seq(Cell) /\ buffer' \in Seq(Cell) /\ Consumed' = Consumed \o d
      /\ applied' # <<>> => applied' = applied \/ EndsLine(applied'[Len(applied')])
  BY <1>2, ReadAppends
<1>4. /\ d \in Seq(Cell) /\ z > fh.pos /\ Len(d) = z - fh.pos /\ Whole(d)
      /\ \A k \in 1..Len(d) : d[k] = [gen |-> g, at |-> fh.pos + k]
  BY <1>2, ChunkProperties
<1> HIDE DEF d
<1>5. fh' # None /\ fh'.ino = fh.ino /\ fh'.pos = z /\ fh.ino \in Inode
  <2>1. fh \in [ino : Inode, pos : 0..MaxSize]
    BY <1>2 DEF TypeOK
  <2>2. fh' \in [ino : 1..MaxGen, pos : 0..MaxSize]
    BY <1>2, <2>1 DEF TypeOK, Inode
  <2> QED
    BY <1>2, <2>1, <2>2, NoneIsNoInode
<1>6. /\ z \in Nat /\ fh.pos \in Nat /\ from \in Nat
      /\ applied \in Seq(Cell) /\ buffer \in Seq(Cell)
  <2>1. z \in 0..MaxSize /\ fh.pos \in 0..MaxSize /\ from \in 0..MaxSize
    BY <1>2, <1>5 DEF TypeOK
  <2>2. applied \in Seq(Cell) /\ buffer \in Seq(Cell)
    BY DEF TypeOK
  <2> QED
    BY <2>1, <2>2, MaxSizeAssumption
<1>7. Consumed \in Seq(Cell) /\ Len(Consumed) \in Nat
  BY <1>6, ConcatProperties DEF Consumed
<1>8. Handles' /\ PathIsUsed'
  BY <1>2, <1>5 DEF Handles, PathIsUsed
<1>9. AppliedEndsLine'
  BY <1>3 DEF AppliedEndsLine
<1>10. NeverTruncated' <=> NeverTruncated
  BY <1>2 DEF NeverTruncated
<1>11. ASSUME NeverTruncated'
       PROVE  ReadIsConsumed' /\ Whole(applied')
  <2> DEFINE p == fh.pos
             l == Len(Consumed)
             m == Len(d)
             n == l - (p - from)
  <2>1. ReadIsConsumed
    BY <1>2, <1>10, <1>11
  <2>2. Consumed # <<>> => Follows(Consumed[Len(Consumed)], d[1])
    BY <1>2, <1>10, <1>11, ChunkFollows DEF d
  <2>3. Whole(Consumed')
    BY <1>3, <1>4, <1>7, <2>1, <2>2, WholeConcat DEF ReadIsConsumed
  <2>4. Whole(applied')
    BY <1>3, <2>3, WholePrefix DEF Consumed
  <2>5. /\ Len(Consumed') = l + m
        /\ \A k \in 1..(l + m) : Consumed'[k] = IF k <= l THEN Consumed[k] ELSE d[k - l]
    BY <1>3, <1>4, <1>7, ConcatProperties
  <2>6. /\ from <= p /\ n >= 0 /\ (n = 0 \/ gap)
        /\ \A k \in 1..(p - from) : Consumed[n + k] = [gen |-> g, at |-> from + k]
    BY <2>1 DEF ReadIsConsumed
  <2>7. l \in Nat /\ p \in Nat /\ z \in Nat /\ from \in Nat /\ z > p /\ m = z - p
    BY <1>4, <1>6, <1>7
  <2>8. \A k \in 1..m : d[k] = [gen |-> g, at |-> p + k]
    BY <1>4
  <2> HIDE DEF p, l, m, z, g
  <2>9. n \in Nat /\ (l + m) - (z - from) = n /\ from <= z /\ z # from
    BY <2>6, <2>7
  <2>10. ASSUME NEW k \in 1..(z - from)
         PROVE  Consumed'[n + k] = [gen |-> g, at |-> from + k]
    <3>1. n + k \in 1..(l + m)
      BY <2>6, <2>7
    <3>2. CASE k <= p - from
      <4>1. k \in 1..(p - from) /\ n + k <= l
        BY <2>6, <2>7, <3>2
      <4>2. Consumed'[n + k] = Consumed[n + k]
        BY <2>5, <3>1, <4>1
      <4> HIDE DEF n
      <4> QED
        BY <2>6, <4>1, <4>2
    <3>3. CASE k > p - from
      <4> DEFINE j == k - (p - from)
      <4>1. j \in 1..m /\ (n + k) - l = j /\ ~(n + k <= l) /\ p + j = from + k
        BY <2>6, <2>7, <3>3
      <4>2. Consumed'[n + k] = d[(n + k) - l]
        BY <2>5, <3>1, <4>1
      <4> HIDE DEF j, n
      <4>3. d[j] = [gen |-> g, at |-> p + j]
        BY <2>8, <4>1
      <4> QED
        BY <4>1, <4>2, <4>3
    <3> QED
      BY <2>7, <3>2, <3>3
  <2> HIDE DEF n
  <2>11. files'[fh'.ino].gen = g /\ files'[fh'.ino].size = z /\ fh'.pos = z /\ from' = from
    BY <1>2, <1>5 DEF g, z
  <2>12. Len(Consumed') - (fh'.pos - from') = n
    BY <2>5, <2>9, <2>11
  <2>13. z <= z
    BY <2>7
  <2>14. (n >= 0 /\ (n = 0 \/ gap')) /\ (fh'.pos = from' => buffer' = <<>>)
    BY <1>2, <2>6, <2>9, <2>11
  <2>15. ReadIsConsumed'
    BY <2>3, <2>9, <2>10, <2>11, <2>12, <2>13, <2>14 DEF ReadIsConsumed
  <2> QED
    BY <2>4, <2>15
<1> QED
  BY <1>1, <1>8, <1>9, <1>11

-----------------------------------------------------------------------------
LEMMA StepKeepsInv == TailerInv /\ [Next]_vars => TailerInv'
<1> SUFFICES ASSUME TailerInv, [Next]_vars
             PROVE  TailerInv'
  OBVIOUS
<1>1. CASE Next
  BY <1>1, GameSteps, OtherSteps, OpenStep, ReadStep DEF Next, Tailer
<1>2. CASE UNCHANGED vars
  <2>1. /\ UNCHANGED <<path, files, gens, pc, st, fh, last_inode, last_size, buffer>>
        /\ UNCHANGED <<first_open, applied, from, gap, outrun, stopping>>
    BY <1>2 DEF vars
  <2>2. TypeOK'
    BY <2>1, Zenon DEF TailerInv, TypeOK
  <2>3. Handles' /\ PathIsUsed' /\ AppliedEndsLine'
    BY <2>1 DEF TailerInv, Handles, PathIsUsed, AppliedEndsLine
  <2>4. /\ NeverTruncated' <=> NeverTruncated
        /\ ReadIsConsumed' <=> ReadIsConsumed
    BY <2>1, Zenon DEF NeverTruncated, ReadIsConsumed, Consumed
  <2> QED
    BY <2>1, <2>2, <2>3, <2>4 DEF TailerInv
<1> QED
  BY <1>1, <1>2

LEMMA TailerInvHolds == Spec => []TailerInv
BY InitHolds, StepKeepsInv, PTL DEF Spec

(* The types are right.                                                    *)
THEOREM TailerTypeCorrect == Spec => []TypeOK
<1>1. TailerInv => TypeOK
  BY DEF TailerInv
<1> QED
  BY <1>1, TailerInvHolds, PTL

(* Read cell by cell or as the end of the sequence of what was consumed.   *)
LEMMA ReadIsSuffix ==
  ASSUME TypeOK, fh # None, ReadIsConsumed
  PROVE  \E n \in 0..Len(Consumed) :
            /\ n = 0 \/ gap
            /\ SubSeq(Consumed, n + 1, Len(Consumed)) =
                 [k \in 1..(fh.pos - from) |-> [gen |-> files[fh.ino].gen, at |-> from + k]]
<1> DEFINE p == fh.pos
           n == Len(Consumed) - (p - from)
           g == files[fh.ino].gen
           read == [k \in 1..(p - from) |-> [gen |-> g, at |-> from + k]]
           end == SubSeq(Consumed, n + 1, Len(Consumed))
<1>1. applied \in Seq(Cell) /\ buffer \in Seq(Cell) /\ p \in 0..MaxSize /\ from \in 0..MaxSize
  BY DEF TypeOK
<1>2. Consumed \in Seq(Cell) /\ Len(Consumed) \in Nat
  BY <1>1, ConcatProperties DEF Consumed
<1>3. /\ from <= p /\ n >= 0 /\ (n = 0 \/ gap)
      /\ \A k \in 1..(p - from) : Consumed[n + k] = [gen |-> g, at |-> from + k]
  BY DEF ReadIsConsumed
<1> HIDE DEF p, g
<1>4. n \in 0..Len(Consumed) /\ Len(Consumed) - n = p - from /\ p - from \in Nat
  BY <1>1, <1>2, <1>3, MaxSizeAssumption
<1> HIDE DEF n
<1>5. /\ end \in Seq(Cell) /\ Len(end) = p - from
      /\ \A k \in 1..(p - from) : end[k] = Consumed[n + k]
  BY <1>2, <1>4, Split
<1> HIDE DEF end
<1>6. end = [k \in 1..Len(end) |-> end[k]]
  BY <1>5
<1>7. end = read
  BY <1>3, <1>5, <1>6
<1> QED
  BY <1>3, <1>4, <1>7 DEF end, p, g

(* For logs of any size and number, while none was truncated, what the     *)
(* tailer consumed of the open log is what it read of it, nothing missed   *)
(* or repeated (watcher.py:77-146).                                        *)
THEOREM ConsumedExactlyCorrect == Spec => []ConsumedExactly
<1>1. TailerInv => ConsumedExactly
  BY ReadIsSuffix DEF TailerInv, ConsumedExactly
<1> QED
  BY <1>1, TailerInvHolds, PTL

(* While no log was truncated, no line is processed with a piece missing   *)
(* or a foreign one in its place; the one line in the middle of which the  *)
(* watcher attached is excepted (watcher.py:84-86, 119, 133-139).          *)
THEOREM LinesAreWholeCorrect == Spec => []LinesAreWhole
<1>1. TailerInv => LinesAreWhole
  BY DEF TailerInv, LinesAreWhole
<1> QED
  BY <1>1, TailerInvHolds, PTL
=============================================================================
