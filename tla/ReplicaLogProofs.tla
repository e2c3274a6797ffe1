-------------------------- MODULE ReplicaLogProofs --------------------------
(***************************************************************************)
(* Proofs about the replica's log (ReplicaLog): its types, that a record   *)
(* whose append returned is durable, and that iterators follow the log.    *)
(* The cells of a record are told apart by position, so the invariants     *)
(* speak of pieces of the file instead of its subsequences.                *)
(***************************************************************************)
EXTENDS ReplicaLog, TLAPS

Cell == [rec : Nat, cell : Nat]

\* The cells of a record whose data has the size the sequence z gives it.
Total(z, k) == LenCells + z[k]

\* The first m cells of record k lie in f after position p.
Piece(f, p, k, m) == \A i \in 1..m : f[p + i] = [rec |-> k, cell |-> i]

-----------------------------------------------------------------------------
(***************************************************************************)
(* Lemmas about the operators of the model.                                *)
(***************************************************************************)

\* What write_all adds: cells i to j of record k, in order.
LEMMA CellsAre ==
  ASSUME NEW k \in Nat, NEW i \in Nat \ {0}, NEW j \in Nat, i - 1 <= j
  PROVE  /\ Cells(k, i, j) \in Seq(Cell)
         /\ Len(Cells(k, i, j)) = j - i + 1
         /\ \A n \in 1..(j - i + 1) : Cells(k, i, j)[n] = [rec |-> k, cell |-> i + n - 1]
<1>1. j - i + 1 \in Nat
  OBVIOUS
<1>2. \A n \in 1..(j - i + 1) : [rec |-> k, cell |-> i + n - 1] \in Cell
  BY DEF Cell
<1> QED
  BY <1>1, <1>2 DEF Cells

\* The file g is f with cells i to j of record k written after it.
Extended(f, g, k, i, j) ==
  /\ i - 1 <= j
  /\ g \in Seq(Cell)
  /\ Len(g) = Len(f) + (j - i + 1)
  /\ \A n \in 1..Len(f) : g[n] = f[n]
  /\ \A n \in (Len(f) + 1)..Len(g) : g[n] = [rec |-> k, cell |-> i + (n - Len(f)) - 1]

\* The file after a write: what was there, then the new cells.
LEMMA Grown ==
  ASSUME NEW f \in Seq(Cell), NEW k \in Nat, NEW i \in Nat \ {0}, NEW j \in Nat, i - 1 <= j
  PROVE  Extended(f, f \o Cells(k, i, j), k, i, j)
<1> DEFINE g == f \o Cells(k, i, j)
<1>1. /\ Cells(k, i, j) \in Seq(Cell)
      /\ Len(Cells(k, i, j)) = j - i + 1
      /\ \A n \in 1..(j - i + 1) : Cells(k, i, j)[n] = [rec |-> k, cell |-> i + n - 1]
  BY CellsAre
<1>2. ASSUME NEW c \in Seq(Cell)
      PROVE  /\ f \o c \in Seq(Cell)
             /\ Len(f \o c) = Len(f) + Len(c)
             /\ \A n \in 1..Len(f) : (f \o c)[n] = f[n]
             /\ \A n \in (Len(f) + 1)..Len(f \o c) : (f \o c)[n] = c[n - Len(f)]
  OBVIOUS
<1>3. /\ g \in Seq(Cell)
      /\ Len(g) = Len(f) + (j - i + 1)
      /\ \A n \in 1..Len(f) : g[n] = f[n]
      /\ \A n \in (Len(f) + 1)..Len(g) : g[n] = Cells(k, i, j)[n - Len(f)]
  BY <1>1, <1>2
<1>4. ASSUME NEW n \in (Len(f) + 1)..Len(g)
      PROVE  g[n] = [rec |-> k, cell |-> i + (n - Len(f)) - 1]
  <2>1. n - Len(f) \in 1..(j - i + 1)
    BY <1>3
  <2> QED
    BY <1>1, <1>3, <2>1
<1>5. Extended(f, g, k, i, j)
  <2> HIDE DEF g
  <2> QED
    BY <1>3, <1>4 DEF Extended
<1> QED
  BY <1>5

\* The file after a crash: its first n cells.
LEMMA Cut ==
  ASSUME NEW f \in Seq(Cell), NEW n \in 0..Len(f), NEW g, g = SubSeq(f, 1, n)
  PROVE  /\ g \in Seq(Cell)
         /\ Len(g) = n
         /\ \A i \in 1..n : g[i] = f[i]
<1> HIDE DEF Cell
<1> QED
  OBVIOUS

\* A call of append adds a size and changes no earlier one.
LEMMA SizesKept ==
  ASSUME NEW z \in Seq(1..MaxData), NEW s \in 1..MaxData, NEW y, y = Append(z, s)
  PROVE  /\ y \in Seq(1..MaxData)
         /\ Len(y) = Len(z) + 1
         /\ \A k \in 1..Len(z) : y[k] = z[k]
BY LogAssumption

\* The size of a record is that of its prefix and of at least one data cell.
LEMMA TotalType ==
  ASSUME NEW z \in Seq(1..MaxData), NEW k \in 1..Len(z)
  PROVE  Total(z, k) \in Nat /\ Total(z, k) > LenCells
BY LogAssumption DEF Total

\* A subsequence of the file holds the first cells of a record if and only if
\* they lie there as a piece.
LEMMA PieceIs ==
  ASSUME NEW f \in Seq(Cell), NEW p \in Nat, NEW k \in Nat, NEW m \in Nat, p + m <= Len(f)
  PROVE  SubSeq(f, p + 1, p + m) = Cells(k, 1, m) <=> Piece(f, p, k, m)
<1>1. /\ SubSeq(f, p + 1, p + m) = [i \in 1..m |-> f[p + i]]
  <2> HIDE DEF Cell
  <2>1. /\ SubSeq(f, p + 1, p + m) = [i \in 1..(p + m - (p + 1) + 1) |-> f[(p + 1) + i - 1]]
    OBVIOUS
  <2>2. p + m - (p + 1) + 1 = m /\ \A i \in 1..m : (p + 1) + i - 1 = p + i
    OBVIOUS
  <2> QED
    BY <2>1, <2>2
<1>2. Cells(k, 1, m) = [i \in 1..m |-> [rec |-> k, cell |-> i]]
  <2>1. m - 1 + 1 = m /\ \A n \in 1..m : 1 + n - 1 = n
    OBVIOUS
  <2> QED
    BY <2>1 DEF Cells
<1> QED
  BY <1>1, <1>2 DEF Piece

-----------------------------------------------------------------------------
(***************************************************************************)
(* Types.                                                                  *)
(***************************************************************************)

\* The appender's types; every cell is of a record that append was called with,
\* and append is only at work on such a record.
FileType ==
  /\ file \in Seq(Cell)
  /\ synced \in 0..Len(file)
  /\ sizes \in Seq(1..MaxData)
  /\ writer \in {"idle", "len", "data", "sync"}
  /\ acked \subseteq 1..Last
  /\ torn \in BOOLEAN
  /\ \A i \in 1..Len(file) : file[i].rec \in 1..Last
  /\ writer # "idle" => Last > 0

\* The iterators' types, with a file of length n.
IterType(n) ==
  /\ mapped \in [Readers -> Nat]
  /\ pos \in [Readers -> Nat]
  /\ got \in [Readers -> Seq(Nat \cup {Bogus})]
  /\ \A r \in Readers : mapped[r] <= n /\ pos[r] <= mapped[r]

LogInv == FileType /\ IterType(Len(file))

\* The log starts with its types.
LEMMA LogInit == Init => LogInv
<1> SUFFICES ASSUME Init PROVE LogInv
  OBVIOUS
<1>1. FileType
  <2>1. file \in Seq(Cell) /\ Len(file) = 0 /\ sizes \in Seq(1..MaxData) /\ Last = 0
    BY DEF Init, Last
  <2>2. synced = 0 /\ writer = "idle" /\ acked = {} /\ torn = FALSE
    BY DEF Init
  <2>3. 1..Len(file) = {} /\ 0 \in 0..Len(file)
    BY <2>1
  <2> QED
    BY <2>1, <2>2, <2>3 DEF FileType
<1>2. IterType(Len(file))
  BY DEF Init, IterType
<1> QED
  BY <1>1, <1>2 DEF LogInv

\* What the length write does to the file.
LEMMA LenWritten ==
  ASSUME FileType, WriteLen
  PROVE  Extended(file, file', Last, 1, LenCells)
<1>1. file \in Seq(Cell) /\ Last \in Nat /\ LenCells \in Nat /\ 1 - 1 <= LenCells
  BY LogAssumption DEF FileType, Last
<1>2. file' = file \o Cells(Last, 1, LenCells)
  BY DEF WriteLen
<1>3. 1 \in Nat \ {0}
  OBVIOUS
<1>4. Extended(file, file \o Cells(Last, 1, LenCells), Last, 1, LenCells)
  BY <1>1, <1>3, Grown
<1> QED
  BY <1>2, <1>4, Zenon

\* What the data write does to the file.
LEMMA DataWritten ==
  ASSUME FileType, WriteData
  PROVE  Extended(file, file', Last, LenCells + 1, Total(sizes, Last))
<1>1. Last \in 1..Len(sizes)
  BY DEF FileType, Last, WriteData
<1>2. Total(sizes, Last) \in Nat /\ Total(sizes, Last) > LenCells
  BY <1>1, TotalType DEF FileType
<1>3. /\ file \in Seq(Cell) /\ Last \in Nat /\ LenCells + 1 \in Nat \ {0}
      /\ LenCells + 1 - 1 <= Total(sizes, Last)
  BY <1>2, LogAssumption DEF FileType, Last
<1>4. file' = file \o Cells(Last, LenCells + 1, Total(sizes, Last))
  BY DEF WriteData, Total
<1>5. PICK i \in Nat \ {0} : i = LenCells + 1
  BY <1>3
<1>6. PICK m \in Nat : m = Total(sizes, Last)
  BY <1>2
<1>7. i - 1 <= m
  BY <1>2, <1>5, <1>6, LogAssumption
<1>8. Extended(file, file \o Cells(Last, i, m), Last, i, m)
  <2>1. file \in Seq(Cell) /\ Last \in Nat
    BY <1>3
  <2> QED
    BY <1>7, <2>1, Grown
<1> QED
  BY <1>4, <1>5, <1>6, <1>8, Zenon

\* What a failed write does to the file: it leaves some of its cells there, and
\* the log is torn unless there are none and none were written before.
LEMMA PartWritten ==
  ASSUME FileType, WriteFails
  PROVE  \E i \in Nat \ {0}, j \in Nat :
           /\ Extended(file, file', Last, i, j)
           /\ torn' = (torn \/ j > 0)
           /\ j = 0 => writer = "len" /\ i = 1
<1>1. Last \in 1..Len(sizes) /\ file \in Seq(Cell) /\ Last \in Nat /\ LenCells \in Nat \ {0}
  BY LogAssumption DEF FileType, Last, WriteFails
<1>2. Total(sizes, Last) \in Nat /\ Total(sizes, Last) > LenCells
  BY <1>1, TotalType DEF FileType
<1>3. CASE writer = "len"
  <2>1. PICK n \in 0..(LenCells - 1) : file' = file \o Cells(Last, 1, n) /\ torn' = (torn \/ n > 0)
    <3>1. 1 - 1 = 0
      OBVIOUS
    <3> QED
      BY <1>3, <3>1 DEF WriteFails
  <2>2. n \in Nat /\ 1 - 1 <= n
    BY <1>1
  <2>3. Extended(file, file', Last, 1, n)
    <3>1. Extended(file, file \o Cells(Last, 1, n), Last, 1, n)
      BY <1>1, <2>2, Grown
    <3> QED
      BY <2>1, <3>1, Zenon
  <2> QED
    BY <1>3, <2>1, <2>2, <2>3
<1>4. CASE writer # "len"
  <2>1. PICK n \in LenCells..(Total(sizes, Last) - 1) :
              file' = file \o Cells(Last, LenCells + 1, n) /\ torn' = (torn \/ n > 0)
    <3> DEFINE from == IF writer = "len" THEN 1 ELSE LenCells + 1
               to == IF writer = "len" THEN LenCells ELSE LenCells + sizes[Last]
    <3>1. \E n \in (from - 1)..(to - 1) :
              file' = file \o Cells(Last, from, n) /\ torn' = (torn \/ n > 0)
      BY DEF WriteFails
    <3>2. from = LenCells + 1 /\ to = Total(sizes, Last)
      BY <1>4 DEF Total
    <3>3. from - 1 = LenCells
      BY <1>1, <3>2
    <3> HIDE DEF from, to
    <3> QED
      BY <3>1, <3>2, <3>3
  <2>2. n \in Nat /\ n > 0 /\ LenCells + 1 \in Nat \ {0} /\ LenCells + 1 - 1 <= n
    BY <1>1, <1>2
  <2>3. Extended(file, file', Last, LenCells + 1, n)
    <3>1. Extended(file, file \o Cells(Last, LenCells + 1, n), Last, LenCells + 1, n)
      BY <1>1, <2>2, Grown
    <3> QED
      BY <2>1, <3>1, Zenon
  <2> QED
    BY <2>1, <2>2, <2>3
<1> QED
  BY <1>3, <1>4

\* What a step that writes does to the file: it appends cells i to j of the
\* last record.
LEMMA WriteGrows ==
  ASSUME FileType, WriteLen \/ WriteData \/ WriteFails
  PROVE  \E i \in Nat \ {0}, j \in Nat : Extended(file, file', Last, i, j)
<1>1. LenCells \in Nat \ {0} /\ LenCells + 1 \in Nat \ {0} /\ 1 \in Nat \ {0}
  BY LogAssumption
<1>2. CASE WriteLen
  BY <1>1, <1>2, LenWritten
<1>3. CASE WriteData
  <2>1. Last \in 1..Len(sizes)
    BY <1>3 DEF FileType, Last, WriteData
  <2>2. Total(sizes, Last) \in Nat
    BY <2>1, TotalType DEF FileType
  <2> QED
    BY <1>1, <1>3, <2>2, DataWritten
<1>4. CASE WriteFails
  BY <1>4, PartWritten
<1> QED
  BY <1>2, <1>3, <1>4

\* A write leaves the rest alone.
LEMMA WriteKeeps ==
  ASSUME WriteLen \/ WriteData \/ WriteFails
  PROVE  UNCHANGED <<synced, sizes, acked, readvars>>
BY DEF WriteLen, WriteData, WriteFails

\* The iterators' types survive the growth of the file.
LEMMA IterGrow ==
  ASSUME NEW m \in Nat, NEW n \in Nat, m <= n, IterType(m), UNCHANGED readvars
  PROVE  IterType(n)'
<1>1. UNCHANGED <<mapped, pos, got>>
  BY DEF readvars
<1>2. \A r \in Readers : mapped[r] \in Nat /\ pos[r] \in Nat
  BY DEF IterType
<1> QED
  BY <1>1, <1>2 DEF IterType

\* A step of append, or a crash, keeps the appender's types.
LEMMA FileStep ==
  ASSUME FileType,
         \/ \E size \in 1..MaxData : AppendStart(size)
         \/ WriteLen \/ WriteData \/ WriteFails \/ Sync \/ SyncFails \/ Crash
  PROVE  FileType'
<1>1. ASSUME NEW size \in 1..MaxData, AppendStart(size) PROVE FileType'
  <2>1. /\ sizes' \in Seq(1..MaxData)
        /\ Len(sizes') = Len(sizes) + 1
    BY <1>1, SizesKept DEF FileType, AppendStart
  <2> QED
    BY <1>1, <2>1 DEF FileType, AppendStart, Last
<1>2. CASE WriteLen \/ WriteData \/ WriteFails
  <2>0. PICK i \in Nat \ {0}, j \in Nat : Extended(file, file', Last, i, j)
    BY <1>2, WriteGrows
  <2>1. /\ i - 1 <= j
        /\ file' \in Seq(Cell)
        /\ Len(file') = Len(file) + (j - i + 1)
        /\ \A n \in 1..Len(file) : file'[n] = file[n]
        /\ \A n \in (Len(file) + 1)..Len(file') : file'[n].rec = Last
    <3>1. \A n \in (Len(file) + 1)..Len(file') :
            file'[n] = [rec |-> Last, cell |-> i + (n - Len(file)) - 1]
      BY <2>0 DEF Extended
    <3>2. ASSUME NEW n \in (Len(file) + 1)..Len(file') PROVE file'[n].rec = Last
      <4>1. file'[n] = [rec |-> Last, cell |-> i + (n - Len(file)) - 1]
        BY <3>1
      <4> QED
        BY <4>1
    <3> QED
      BY <2>0, <3>2 DEF Extended
  <2>2. Last \in Nat /\ Last > 0
    BY <1>2 DEF FileType, WriteLen, WriteData, WriteFails, Last
  <2>3. UNCHANGED <<synced, sizes, acked>>
    BY <1>2, WriteKeeps
  <2>4. writer' \in {"idle", "len", "data", "sync"} /\ torn' \in BOOLEAN
    BY <1>2 DEF FileType, WriteLen, WriteData, WriteFails
  <2>5. Len(file) \in Nat /\ Len(file') \in Nat /\ Len(file') >= Len(file)
    BY <2>1 DEF FileType
  <2>6. ASSUME NEW n \in 1..Len(file') PROVE file'[n].rec \in 1..Last
    <3>1. CASE n <= Len(file)
      <4>1. n \in 1..Len(file)
        BY <2>5, <3>1
      <4> QED
        BY <2>1, <4>1 DEF FileType
    <3>2. CASE n > Len(file)
      <4>1. n \in (Len(file) + 1)..Len(file')
        BY <2>5, <3>2
      <4> QED
        BY <2>1, <2>2, <4>1
    <3> QED
      BY <2>5, <3>1, <3>2
  <2>7. /\ synced' \in 0..Len(file') /\ acked' \subseteq 1..Last
        /\ Last' = Last /\ sizes' \in Seq(1..MaxData)
    BY <2>3, <2>5 DEF FileType, Last
  <2> QED
    BY <2>1, <2>2, <2>4, <2>6, <2>7 DEF FileType
<1>3. CASE Sync \/ SyncFails
  <2>1. UNCHANGED <<file, sizes, torn>> /\ writer' = "idle" /\ Last' = Last
    BY <1>3 DEF Sync, SyncFails, Last
  <2>2. Len(file) \in Nat /\ Last \in Nat /\ Last > 0
    BY <1>3 DEF Sync, SyncFails, FileType, Last
  <2>3. synced' \in 0..Len(file)
    BY <1>3, <2>2 DEF Sync, SyncFails, Synced, FileType
  <2>4. acked' \subseteq 1..Last
    <3>1. acked' \in {acked, acked \cup {Last}} /\ Last \in 1..Last
      BY <1>3, <2>2 DEF Sync, SyncFails
    <3> QED
      BY <3>1 DEF FileType
  <2> QED
    BY <2>1, <2>2, <2>3, <2>4 DEF FileType
<1>4. CASE Crash
  <2>1. PICK n \in synced..Len(file) :
           /\ file' = SubSeq(file, 1, n)
           /\ synced' = n
           /\ torn' = (torn \/ ~Ends(n))
    BY <1>4 DEF Crash
  <2>2. file' \in Seq(Cell) /\ Len(file') = n /\ \A i \in 1..n : file'[i] = file[i]
    BY <2>1, Cut DEF FileType
  <2>3. UNCHANGED <<sizes, acked>> /\ writer' = "idle"
    BY <1>4 DEF Crash
  <2> QED
    BY <2>1, <2>2, <2>3 DEF FileType, Last
<1> QED
  BY <1>1, <1>2, <1>3, <1>4

\* A step keeps the types.
LEMMA LogStep == LogInv /\ [Next]_vars => LogInv'
<1> SUFFICES ASSUME LogInv, [Next]_vars PROVE LogInv'
  OBVIOUS
<1>0. FileType /\ IterType(Len(file)) /\ Len(file) \in Nat
  BY DEF LogInv, FileType
<1>1. CASE (\E size \in 1..MaxData : AppendStart(size)) \/ Sync \/ SyncFails
  <2>1. UNCHANGED <<file, readvars>>
    BY <1>1 DEF AppendStart, Sync, SyncFails
  <2>2. FileType'
    BY <1>0, <1>1, FileStep
  <2> QED
    BY <1>0, <2>1, <2>2 DEF LogInv, IterType, readvars
<1>2. CASE WriteLen \/ WriteData \/ WriteFails
  <2>1. FileType'
    BY <1>0, <1>2, FileStep
  <2>2. UNCHANGED readvars
    BY <1>2, WriteKeeps
  <2>3. PICK i \in Nat \ {0}, j \in Nat : Extended(file, file', Last, i, j)
    BY <1>0, <1>2, WriteGrows
  <2>4. PICK n \in Nat : n = Len(file') /\ Len(file) <= n
    <3>1. Len(file') = Len(file) + (j - i + 1) /\ i - 1 <= j
      BY <2>3 DEF Extended
    <3>2. Len(file') \in Nat /\ Len(file) <= Len(file')
      BY <1>0, <3>1
    <3> QED
      BY <3>2
  <2>5. IterType(n)'
    BY <1>0, <2>2, <2>4, IterGrow
  <2> QED
    BY <2>1, <2>4, <2>5 DEF LogInv, IterType
<1>3. CASE Crash
  <2>1. FileType'
    BY <1>0, <1>3, FileStep
  <2>2. /\ mapped' \in [Readers -> Nat] /\ pos' \in [Readers -> Nat]
        /\ got' \in [Readers -> Seq(Nat \cup {Bogus})]
        /\ \A r \in Readers : mapped'[r] = 0 /\ pos'[r] = 0
    BY <1>3 DEF Crash
  <2>3. Len(file') \in Nat
    BY <2>1 DEF FileType
  <2> QED
    BY <2>1, <2>2, <2>3 DEF LogInv, IterType
<1>4. ASSUME NEW r \in Readers, Open(r) \/ Refresh(r) \/ NextShort(r) PROVE LogInv'
  <2>1. UNCHANGED writevars
    BY <1>4 DEF Open, Refresh, NextShort
  <2>2. FileType'
    BY <1>0, <2>1 DEF writevars, FileType, Last
  <2>3. UNCHANGED file
    BY <2>1 DEF writevars
  <2>4. CASE Open(r)
    BY <1>0, <2>2, <2>3, <2>4 DEF Open, LogInv, IterType
  <2>5. CASE Refresh(r)
    BY <1>0, <2>2, <2>3, <2>5 DEF Refresh, LogInv, IterType
  <2>6. CASE NextShort(r)
    BY <1>0, <2>2, <2>3, <2>6 DEF NextShort, Rewound, LogInv, IterType
  <2> QED
    BY <1>4, <2>4, <2>5, <2>6
<1>5. ASSUME NEW r \in Readers, NextEntry(r) PROVE LogInv'
  <2>1. PICK n \in LenAt(pos[r]) :
          /\ Fits(r, n)
          /\ pos' = [pos EXCEPT ![r] = @ + LenCells + n]
          /\ IF Whole(pos[r], n)
               THEN got' = [got EXCEPT ![r] = Append(@, file[pos[r] + 1].rec)]
               ELSE got' \in {got, [got EXCEPT ![r] = Append(@, Bogus)]}
    BY <1>5 DEF NextEntry
  <2>2. pos[r] \in Nat /\ pos[r] + LenCells <= Len(file) /\ LenCells \in Nat \ {0}
    BY <1>0, <1>5, LogAssumption DEF NextEntry, Fits, IterType
  <2>3. file[pos[r] + 1].rec \in 1..Last /\ Last \in Nat
    BY <1>0, <2>2 DEF FileType, Last
  <2>4. n \in Nat
    <3>1. sizes[file[pos[r] + 1].rec] \in Nat
      BY <1>0, <2>3, LogAssumption DEF FileType, Last
    <3> QED
      BY <1>0, <2>1, <3>1 DEF LenAt
  <2>5. pos' \in [Readers -> Nat] /\ \A s \in Readers : pos'[s] <= mapped[s]
    BY <1>0, <2>1, <2>2, <2>4 DEF IterType, Fits
  <2>6. got' \in [Readers -> Seq(Nat \cup {Bogus})]
    <3>1. got \in [Readers -> Seq(Nat \cup {Bogus})]
      BY <1>0 DEF IterType
    <3>2. \A x \in Nat \cup {Bogus} :
            [got EXCEPT ![r] = Append(@, x)] \in [Readers -> Seq(Nat \cup {Bogus})]
      BY <3>1
    <3>3. file[pos[r] + 1].rec \in Nat \cup {Bogus} /\ Bogus \in Nat \cup {Bogus}
      BY <2>3
    <3> QED
      BY <2>1, <3>1, <3>2, <3>3
  <2>7. UNCHANGED <<writevars, mapped>>
    BY <1>5 DEF NextEntry
  <2>8. FileType' /\ UNCHANGED file
    BY <1>0, <2>7 DEF writevars, FileType, Last
  <2> QED
    BY <1>0, <2>5, <2>6, <2>7, <2>8 DEF LogInv, IterType
<1>6. CASE UNCHANGED vars
  BY <1>0, <1>6 DEF LogInv, FileType, IterType, vars, writevars, readvars, Last
<1> QED
  BY <1>1, <1>2, <1>3, <1>4, <1>5, <1>6 DEF Next

\* The types of the log always hold.
THEOREM LogTypes == Spec => []LogInv
BY LogInit, LogStep, PTL DEF Spec

\* replica_log.rs keeps every iterator inside its map and every map inside the
\* file, for any number of iterators and any sizes: next never reads past the
\* bytes it mapped, whatever failed or crashed before.
THEOREM TypeCorrect == Spec => []TypeOK
<1>1. LogInv => TypeOK
  BY DEF LogInv, FileType, IterType, TypeOK, Cell
<1> QED
  BY <1>1, LogTypes, PTL

-----------------------------------------------------------------------------
(***************************************************************************)
(* Durability.                                                             *)
(***************************************************************************)

\* The cells append has written of the record it is at work on are the last of
\* the file, in one piece.
WriterInv ==
  /\ writer = "data" => \E p \in Nat : p + LenCells = Len(file) /\ Piece(file, p, Last, LenCells)
  /\ writer = "sync" =>
       \E p \in Nat : p + Total(sizes, Last) = Len(file) /\ Piece(file, p, Last, Total(sizes, Last))

\* Record k of size m lies in f below n.
Below(f, k, m, n) == \E p \in Nat : p + m <= n /\ Piece(f, p, k, m)

\* Every record whose append returned Ok is below the synced end.
SafeInv == \A k \in acked : Below(file, k, Total(sizes, k), synced)

DurableInv == LogInv /\ WriterInv /\ SafeInv

\* A piece below n stays if the first n cells stay.
LEMMA PieceKept ==
  ASSUME NEW f, NEW g, NEW n \in Nat, \A i \in 1..n : g[i] = f[i],
         NEW p \in Nat, NEW k, NEW m \in Nat, p + m <= n, Piece(f, p, k, m)
  PROVE  Piece(g, p, k, m)
<1> SUFFICES ASSUME NEW i \in 1..m PROVE g[p + i] = [rec |-> k, cell |-> i]
  BY DEF Piece
<1>1. p + i \in 1..n
  OBVIOUS
<1> QED
  BY <1>1 DEF Piece

\* So does a record below a number of cells that stay.
LEMMA BelowKept ==
  ASSUME NEW f, NEW g, NEW n \in Nat, \A i \in 1..n : g[i] = f[i],
         NEW k, NEW m \in Nat, NEW a \in Nat, NEW b \in Nat, a <= b, a <= n, Below(f, k, m, a)
  PROVE  Below(g, k, m, b)
<1>1. PICK p \in Nat : p + m <= a /\ Piece(f, p, k, m)
  BY DEF Below
<1>2. p + m <= n /\ p + m <= b
  BY <1>1
<1>3. Piece(g, p, k, m)
  BY <1>1, <1>2, PieceKept
<1> QED
  BY <1>2, <1>3 DEF Below

\* Writing the cells after the first a of a record completes its piece to b
\* cells.
LEMMA PieceGrown ==
  ASSUME NEW f \in Seq(Cell), NEW g, NEW k \in Nat, NEW a \in Nat, NEW b \in Nat, NEW p \in Nat,
         p + a = Len(f), Piece(f, p, k, a), Extended(f, g, k, a + 1, b)
  PROVE  p + b = Len(g) /\ Piece(g, p, k, b)
<1>1. /\ a + 1 - 1 <= b /\ Len(g) = Len(f) + (b - (a + 1) + 1)
      /\ \A n \in 1..Len(f) : g[n] = f[n]
      /\ \A n \in (Len(f) + 1)..Len(g) : g[n] = [rec |-> k, cell |-> a + 1 + (n - Len(f)) - 1]
  BY DEF Extended
<1>2. p + b = Len(g)
  <2>1. Len(g) = Len(f) + (b - (a + 1) + 1)
    BY DEF Extended
  <2> QED
    BY <2>1
<1>3. ASSUME NEW i \in 1..b PROVE g[p + i] = [rec |-> k, cell |-> i]
  <2>1. CASE i <= a
    <3>1. i \in 1..a /\ p + i \in 1..Len(f)
      BY <2>1
    <3>2. f[p + i] = [rec |-> k, cell |-> i]
      BY <3>1 DEF Piece
    <3>3. g[p + i] = f[p + i]
      BY <3>1 DEF Extended
    <3> QED
      BY <3>2, <3>3
  <2>2. CASE i > a
    <3>1. p + i \in (Len(f) + 1)..Len(g) /\ a + 1 + ((p + i) - Len(f)) - 1 = i
      BY <1>2, <2>2
    <3> QED
      BY <1>1, <3>1
  <2> QED
    BY <2>1, <2>2
<1> QED
  BY <1>2, <1>3 DEF Piece

\* A call of append changes the size of no record it was called with before.
LEMMA TotalKept ==
  ASSUME FileType, NEW size \in 1..MaxData, AppendStart(size), NEW k \in 1..Last
  PROVE  Total(sizes', k) = Total(sizes, k)
<1>1. sizes \in Seq(1..MaxData) /\ sizes' = Append(sizes, size) /\ k \in 1..Len(sizes)
  BY DEF FileType, AppendStart, Last
<1>2. sizes'[k] = sizes[k]
  BY <1>1, SizesKept
<1> QED
  BY <1>2 DEF Total

\* A step keeps what append has written of its record at the end of the file.
LEMMA WriterStep == LogInv /\ WriterInv /\ [Next]_vars => WriterInv'
<1> SUFFICES ASSUME LogInv, WriterInv, [Next]_vars PROVE WriterInv'
  OBVIOUS
<1>0. FileType /\ file \in Seq(Cell) /\ LenCells \in Nat \ {0} /\ Last \in Nat
  BY LogAssumption DEF LogInv, FileType, Last
<1>1. CASE (\E size \in 1..MaxData : AppendStart(size)) \/ WriteFails \/ Sync \/ SyncFails \/ Crash
  <2>1. writer' \in {"idle", "len"}
    BY <1>1 DEF AppendStart, WriteFails, Sync, SyncFails, Crash
  <2> QED
    BY <2>1 DEF WriterInv
<1>2. CASE WriteLen
  <2>1. Extended(file, file', Last, 1, LenCells) /\ writer' = "data" /\ UNCHANGED sizes
    BY <1>0, <1>2, LenWritten DEF WriteLen
  <2>2. /\ Len(file) \in Nat /\ Len(file) + 0 = Len(file) /\ 0 + 1 = 1
        /\ Piece(file, Len(file), Last, 0)
    BY <1>0 DEF Piece
  <2>3. PICK p \in Nat : p = Len(file)
    BY <2>2
  <2>4. Extended(file, file', Last, 0 + 1, LenCells) /\ p + 0 = Len(file) /\ Piece(file, p, Last, 0)
    BY <2>1, <2>2, <2>3
  <2>5. p + LenCells = Len(file') /\ Piece(file', p, Last, LenCells)
    BY <1>0, <2>4, PieceGrown
  <2>6. Last' = Last
    BY <2>1 DEF Last
  <2> QED
    BY <2>1, <2>5, <2>6 DEF WriterInv
<1>3. CASE WriteData
  <2>1. Extended(file, file', Last, LenCells + 1, Total(sizes, Last)) /\ UNCHANGED sizes
    BY <1>0, <1>3, DataWritten DEF WriteData
  <2>2. PICK p \in Nat : p + LenCells = Len(file) /\ Piece(file, p, Last, LenCells)
    BY <1>3 DEF WriteData, WriterInv
  <2>3. Last \in 1..Len(sizes) /\ sizes \in Seq(1..MaxData)
    BY <1>0, <1>3 DEF WriteData, FileType, Last
  <2>4. PICK m \in Nat : m = Total(sizes, Last)
    BY <2>3, TotalType
  <2>5. p + m = Len(file') /\ Piece(file', p, Last, m)
    <3>1. Extended(file, file', Last, LenCells + 1, m)
      BY <2>1, <2>4
    <3> QED
      BY <1>0, <2>2, <3>1, PieceGrown
  <2>6. Last' = Last /\ Total(sizes, Last)' = m /\ writer' = "sync"
    BY <1>3, <2>1, <2>4 DEF Last, Total, WriteData
  <2> QED
    BY <2>5, <2>6 DEF WriterInv
<1>4. CASE \/ \E r \in Readers : Open(r) \/ Refresh(r) \/ NextShort(r) \/ NextEntry(r)
           \/ UNCHANGED vars
  <2>1. UNCHANGED <<file, sizes, writer>>
    BY <1>4 DEF Open, Refresh, NextShort, NextEntry, writevars, vars
  <2> QED
    BY <2>1 DEF WriterInv, Last, Total
<1> QED
  BY <1>1, <1>2, <1>3, <1>4 DEF Next

\* A step loses no record below the synced end: a write only adds cells, a crash
\* cuts the file at the synced end or behind it.
LEMMA SafeStep == LogInv /\ WriterInv /\ SafeInv /\ [Next]_vars => SafeInv'
<1> SUFFICES ASSUME LogInv, WriterInv, SafeInv, [Next]_vars PROVE SafeInv'
  OBVIOUS
<1>0. /\ FileType /\ file \in Seq(Cell) /\ Len(file) \in Nat
      /\ synced \in Nat /\ synced <= Len(file)
  BY DEF LogInv, FileType
<1>1. ASSUME NEW k \in acked PROVE k \in 1..Last /\ Total(sizes, k) \in Nat
  <2>1. k \in 1..Last /\ k \in 1..Len(sizes) /\ sizes \in Seq(1..MaxData)
    BY <1>0 DEF FileType, Last
  <2> QED
    BY <2>1, TotalType
<1>2. ASSUME NEW size \in 1..MaxData, AppendStart(size) PROVE SafeInv'
  <2>1. UNCHANGED <<file, synced, acked>>
    BY <1>2 DEF AppendStart
  <2>2. \A k \in acked : Total(sizes', k) = Total(sizes, k)
    BY <1>0, <1>1, <1>2, TotalKept
  <2> QED
    BY <2>1, <2>2 DEF SafeInv
<1>3. CASE WriteLen \/ WriteData \/ WriteFails
  <2>1. PICK i \in Nat \ {0}, j \in Nat : Extended(file, file', Last, i, j)
    BY <1>0, <1>3, WriteGrows
  <2>2. \A n \in 1..Len(file) : file'[n] = file[n]
    BY <2>1 DEF Extended
  <2>3. UNCHANGED <<synced, sizes, acked>>
    BY <1>3, WriteKeeps
  <2>4. ASSUME NEW k \in acked PROVE Below(file', k, Total(sizes, k), synced)
    <3>1. Below(file, k, Total(sizes, k), synced)
      BY DEF SafeInv
    <3>2. PICK n \in Nat : n = Len(file)
      BY <1>0
    <3>3. synced <= n /\ \A c \in 1..n : file'[c] = file[c]
      BY <1>0, <2>2, <3>2
    <3>4. synced \in Nat /\ synced <= synced /\ Total(sizes, k) \in Nat
      BY <1>0, <1>1
    <3> QED
      BY <3>1, <3>3, <3>4, BelowKept, Zenon
  <2> QED
    BY <2>3, <2>4 DEF SafeInv, Total
<1>6. CASE Crash
  <2>1. PICK n \in synced..Len(file) : file' = SubSeq(file, 1, n) /\ synced' = n
    BY <1>6 DEF Crash
  <2>2. n \in Nat /\ synced <= n /\ n \in 0..Len(file)
    BY <1>0
  <2>3. \A i \in 1..n : file'[i] = file[i]
    BY <1>0, <2>1, <2>2, Cut
  <2>4. ASSUME NEW k \in acked PROVE Below(file', k, Total(sizes, k), n)
    <3>1. Below(file, k, Total(sizes, k), synced)
      BY DEF SafeInv
    <3> QED
      BY <1>0, <1>1, <2>2, <2>3, <3>1, BelowKept
  <2>5. UNCHANGED <<sizes, acked>>
    BY <1>6 DEF Crash
  <2> QED
    BY <2>1, <2>4, <2>5 DEF SafeInv, Total
<1>4. CASE Sync
  <2>1. UNCHANGED <<file, sizes>> /\ synced' = Len(file) /\ acked' = acked \cup {Last}
    BY <1>4 DEF Sync, Synced
  <2>2. PICK p \in Nat :
          p + Total(sizes, Last) = Len(file) /\ Piece(file, p, Last, Total(sizes, Last))
    BY <1>4 DEF Sync, WriterInv
  <2>3. Below(file, Last, Total(sizes, Last), Len(file))
    BY <1>0, <2>2 DEF Below
  <2>4. ASSUME NEW k \in acked PROVE Below(file, k, Total(sizes, k), Len(file))
    <3>1. Below(file, k, Total(sizes, k), synced)
      BY DEF SafeInv
    <3> QED
      BY <1>0, <1>1, <3>1, BelowKept
  <2> QED
    BY <2>1, <2>3, <2>4 DEF SafeInv, Total
<1>5. CASE \/ SyncFails
           \/ \E r \in Readers : Open(r) \/ Refresh(r) \/ NextShort(r) \/ NextEntry(r)
           \/ UNCHANGED vars
  <2>1. UNCHANGED <<file, sizes, synced, acked>>
    BY <1>5 DEF SyncFails, Open, Refresh, NextShort, NextEntry, writevars, vars
  <2> QED
    BY <2>1 DEF SafeInv, Total
<1> QED
  BY <1>2, <1>3, <1>4, <1>5, <1>6 DEF Next

\* The invariant holds of every reachable state.
THEOREM DurableInvariant == Spec => []DurableInv
<1>1. Init => DurableInv
  BY LogInit DEF Init, DurableInv, WriterInv, SafeInv
<1>2. DurableInv /\ [Next]_vars => DurableInv'
  BY LogStep, WriterStep, SafeStep DEF DurableInv
<1> QED
  BY <1>1, <1>2, PTL DEF Spec

\* append's promise: once it has returned Ok the record is in the file in one
\* piece, below what sync_data made safe, whatever failed or crashed before or
\* after.
THEOREM AckedSurvive == Spec => []AckedDurable
<1>1. DurableInv => AckedDurable
  <2> SUFFICES ASSUME DurableInv, NEW k \in acked PROVE WrittenBelow(k, synced)
    BY DEF AckedDurable
  <2>1. /\ FileType /\ file \in Seq(Cell) /\ Len(file) \in Nat
        /\ synced \in Nat /\ synced <= Len(file)
    BY DEF DurableInv, LogInv, FileType
  <2>2. k \in Nat /\ k \in 1..Len(sizes) /\ sizes \in Seq(1..MaxData)
    BY <2>1 DEF FileType, Last
  <2>3. PICK m \in Nat : m = Total(sizes, k)
    BY <2>2, TotalType
  <2>4. PICK p \in Nat : p + m <= synced /\ Piece(file, p, k, m)
    BY <2>3 DEF DurableInv, SafeInv, Below
  <2>5. SubSeq(file, p + 1, p + m) = Cells(k, 1, m)
    <3>1. p + m <= Len(file)
      BY <2>1, <2>4
    <3> QED
      BY <2>1, <2>2, <2>4, <3>1, PieceIs
  <2>6. sizes[k] \in Nat /\ m = LenCells + sizes[k] /\ LenCells \in Nat
    BY <2>2, <2>3, LogAssumption DEF Total
  <2>7. p \in 0..(synced - LenCells - sizes[k]) /\ p + m = p + LenCells + sizes[k]
    BY <2>1, <2>4, <2>6
  <2> QED
    BY <2>5, <2>6, <2>7, Zenon DEF WrittenBelow
<1> QED
  BY <1>1, DurableInvariant, PTL

-----------------------------------------------------------------------------
(***************************************************************************)
(* The layout of a log no append has torn.                                 *)
(***************************************************************************)

\* n cells of f end where a record ends.
IsEnd(f, z, n) == n = 0 \/ f[n].cell = Total(z, f[n].rec)

\* A record starts behind all cells of earlier records.
Ordered(f) == \A i, j \in 1..Len(f) : f[j].cell = 1 /\ i < j => f[i].rec < f[j].rec

\* The cells of a record follow its first one.
Runs(f, z) ==
  \A i, j \in 1..Len(f) :
    f[i].cell = 1 /\ i <= j /\ j < i + Total(z, f[i].rec) =>
      f[j] = [rec |-> f[i].rec, cell |-> j - i + 1]

\* Where a record ends the next one starts.
HeadsAt(f, z) == \A i \in 0..(Len(f) - 1) : IsEnd(f, z, i) => f[i + 1].cell = 1

Layout(f, z) == Ordered(f) /\ Runs(f, z) /\ HeadsAt(f, z)

\* The records that start among the first n cells are all there.
Complete(f, z, n) ==
  \A i \in 1..Len(f) : f[i].cell = 1 /\ i <= n => i + Total(z, f[i].rec) - 1 <= Len(f)

\* As long as no append stopped in the middle the file is laid out as records,
\* all complete but the one append is writing.
LayoutInv ==
  ~torn =>
    /\ Layout(file, sizes)
    /\ writer = "data" => Complete(file, sizes, Len(file) - LenCells)
    /\ writer # "data" => IsEnd(file, sizes, Len(file)) /\ Complete(file, sizes, Len(file))
    /\ writer = "len" => \A i \in 1..Len(file) : file[i].rec < Last

\* Cells of records with sizes in z.
FileOf(f, z) ==
  /\ f \in Seq(Cell)
  /\ \A i \in 1..Len(f) :
       /\ f[i].rec \in Nat /\ f[i].cell \in Nat
       /\ Total(z, f[i].rec) \in Nat /\ Total(z, f[i].rec) > LenCells

\* The file is one.
LEMMA FileIsOf == FileType => FileOf(file, sizes)
<1> SUFFICES ASSUME FileType PROVE FileOf(file, sizes)
  OBVIOUS
<1>1. file \in Seq(Cell) /\ sizes \in Seq(1..MaxData)
  BY DEF FileType
<1>2. ASSUME NEW i \in 1..Len(file)
      PROVE  /\ file[i].rec \in Nat /\ file[i].cell \in Nat
             /\ Total(sizes, file[i].rec) \in Nat /\ Total(sizes, file[i].rec) > LenCells
  <2>1. file[i] \in Cell
    BY <1>1
  <2>2. file[i].rec \in 1..Len(sizes)
    BY DEF FileType, Last
  <2> QED
    BY <1>1, <2>1, <2>2, TotalType DEF Cell
<1> QED
  BY <1>1, <1>2 DEF FileOf

\* The layout depends on the sizes of the records in the file only.
LEMMA LayoutSizes ==
  ASSUME NEW f, NEW z, NEW y, FileOf(f, z),
         \A i \in 1..Len(f) : Total(y, f[i].rec) = Total(z, f[i].rec)
  PROVE  /\ Layout(f, z) => Layout(f, y)
         /\ \A n \in 0..Len(f) : IsEnd(f, z, n) <=> IsEnd(f, y, n)
         /\ Complete(f, z, Len(f)) => Complete(f, y, Len(f))
<1>0. Len(f) \in Nat
  BY DEF FileOf
<1>1. \A n \in 0..Len(f) : IsEnd(f, z, n) <=> IsEnd(f, y, n)
  <2> SUFFICES ASSUME NEW n \in 0..Len(f), n # 0 PROVE IsEnd(f, z, n) <=> IsEnd(f, y, n)
    BY DEF IsEnd
  <2>1. n \in 1..Len(f)
    BY <1>0
  <2> QED
    BY <2>1 DEF IsEnd
<1>2. Runs(f, z) => Runs(f, y)
  BY DEF Runs
<1>3. HeadsAt(f, z) => HeadsAt(f, y)
  BY <1>0, <1>1 DEF HeadsAt
<1>4. Complete(f, z, Len(f)) => Complete(f, y, Len(f))
  BY DEF Complete
<1> QED
  BY <1>1, <1>2, <1>3, <1>4 DEF Layout

\* The length write starts a record behind complete ones.
LEMMA LayoutLen ==
  ASSUME NEW f, NEW g, NEW z, NEW k \in Nat, FileOf(f, z), FileOf(g, z),
         Total(z, k) \in Nat, Total(z, k) > LenCells,
         Layout(f, z), IsEnd(f, z, Len(f)), Complete(f, z, Len(f)),
         \A i \in 1..Len(f) : f[i].rec < k,
         Extended(f, g, k, 1, LenCells)
  PROVE  Layout(g, z) /\ Complete(g, z, Len(g) - LenCells)
<1> DEFINE m == Len(f)
<1>0. m \in Nat /\ LenCells \in Nat \ {0} /\ Len(g) = m + LenCells
  <2>1. Len(g) = m + (LenCells - 1 + 1) /\ m \in Nat
    BY DEF Extended, FileOf
  <2> QED
    BY <2>1, LogAssumption
<1>1. \A n \in 1..m : g[n] = f[n]
  BY DEF Extended
<1>2. ASSUME NEW n \in (m + 1)..(m + LenCells)
      PROVE  g[n] = [rec |-> k, cell |-> n - m] /\ g[n].rec = k /\ g[n].cell = n - m
  <2>1. g[n] = [rec |-> k, cell |-> 1 + (n - m) - 1]
    BY <1>0 DEF Extended
  <2>2. 1 + (n - m) - 1 = n - m
    BY <1>0
  <2> QED
    BY <2>1, <2>2
<1>3. ASSUME NEW i \in 1..Len(g), i <= m, g[i].cell = 1
      PROVE  i \in 1..m /\ f[i].cell = 1 /\ g[i] = f[i] /\ i + Total(z, g[i].rec) - 1 <= m
  BY <1>0, <1>1, <1>3 DEF Complete
<1>4. ASSUME NEW i \in 1..Len(g), i > m, g[i].cell = 1
      PROVE  i = m + 1 /\ g[i].rec = k
  <2>1. i \in (m + 1)..(m + LenCells)
    BY <1>0, <1>4
  <2>2. g[i].rec = k /\ g[i].cell = i - m
    BY <1>2, <2>1
  <2> QED
    BY <1>0, <1>4, <2>2
<1>5. Ordered(g)
  <2> SUFFICES ASSUME NEW i \in 1..Len(g), NEW j \in 1..Len(g), g[j].cell = 1, i < j
               PROVE  g[i].rec < g[j].rec
    BY DEF Ordered
  <2>1. CASE j <= m
    <3>1. i \in 1..m /\ j \in 1..m
      BY <1>0, <2>1
    <3> QED
      BY <1>1, <3>1 DEF Layout, Ordered
  <2>2. CASE j > m
    <3>1. j = m + 1 /\ g[j].rec = k
      BY <1>4, <2>2
    <3>2. i \in 1..m
      BY <1>0, <3>1
    <3> QED
      BY <1>1, <3>1, <3>2
  <2> QED
    BY <1>0, <2>1, <2>2
<1>6. Runs(g, z)
  <2> SUFFICES ASSUME NEW i \in 1..Len(g), NEW j \in 1..Len(g),
                      g[i].cell = 1, i <= j, j < i + Total(z, g[i].rec)
               PROVE  g[j] = [rec |-> g[i].rec, cell |-> j - i + 1]
    BY DEF Runs
  <2>1. CASE i <= m
    <3>1. i \in 1..m /\ f[i].cell = 1 /\ g[i] = f[i] /\ i + Total(z, g[i].rec) - 1 <= m
      BY <1>3, <2>1
    <3>2. Total(z, g[i].rec) \in Nat
      BY DEF FileOf
    <3>3. j \in 1..m
      BY <1>0, <3>1, <3>2
    <3> QED
      BY <1>1, <3>1, <3>3 DEF Layout, Runs
  <2>2. CASE i > m
    <3>1. i = m + 1 /\ g[i].rec = k
      BY <1>4, <2>2
    <3>2. j \in (m + 1)..(m + LenCells) /\ j - i + 1 = j - m
      BY <1>0, <3>1
    <3> QED
      BY <1>2, <3>1, <3>2
  <2> QED
    BY <1>0, <2>1, <2>2
<1>7. HeadsAt(g, z)
  <2> SUFFICES ASSUME NEW i \in 0..(Len(g) - 1), IsEnd(g, z, i) PROVE g[i + 1].cell = 1
    BY DEF HeadsAt
  <2>1. CASE i < m
    <3>1. i \in 0..(m - 1) /\ i + 1 \in 1..m
      BY <1>0, <2>1
    <3>2. IsEnd(f, z, i)
      <4>1. CASE i = 0
        BY <4>1 DEF IsEnd
      <4>2. CASE i # 0
        <5>1. i \in 1..m
          BY <1>0, <3>1, <4>2
        <5> QED
          BY <1>1, <5>1 DEF IsEnd
      <4> QED
        BY <4>1, <4>2
    <3> QED
      BY <1>1, <3>1, <3>2 DEF Layout, HeadsAt
  <2>2. CASE i = m
    <3>1. m + 1 \in (m + 1)..(m + LenCells) /\ m + 1 - m = 1
      BY <1>0
    <3>2. PICK n \in (m + 1)..(m + LenCells) : n = m + 1 /\ n - m = 1
      BY <3>1
    <3>3. g[n].cell = n - m
      BY <1>2
    <3> QED
      BY <2>2, <3>2, <3>3
  <2>3. CASE i > m
    <3>1. i \in (m + 1)..(m + LenCells) /\ i # 0 /\ i - m <= LenCells
      BY <1>0, <2>3
    <3>2. g[i].rec = k /\ g[i].cell = i - m
      BY <1>2, <3>1
    <3> QED
      BY <1>0, <3>1, <3>2 DEF IsEnd
  <2> QED
    BY <1>0, <2>1, <2>2, <2>3
<1>8. Complete(g, z, Len(g) - LenCells)
  <2> SUFFICES ASSUME NEW i \in 1..Len(g), g[i].cell = 1, i <= Len(g) - LenCells
               PROVE  i + Total(z, g[i].rec) - 1 <= Len(g)
    BY DEF Complete
  <2>1. i + Total(z, g[i].rec) - 1 <= m /\ Total(z, g[i].rec) \in Nat
    BY <1>0, <1>3 DEF FileOf
  <2> QED
    BY <1>0, <2>1
<1> QED
  BY <1>5, <1>6, <1>7, <1>8 DEF Layout

\* The data write completes the record the length write started.
LEMMA LayoutData ==
  ASSUME NEW f, NEW g, NEW z, NEW k \in Nat, FileOf(f, z), FileOf(g, z),
         NEW t \in Nat, t = Total(z, k), t > LenCells,
         NEW p \in Nat, p + LenCells = Len(f), Piece(f, p, k, LenCells),
         Layout(f, z), Complete(f, z, p),
         Extended(f, g, k, LenCells + 1, t)
  PROVE  Layout(g, z) /\ IsEnd(g, z, Len(g)) /\ Complete(g, z, Len(g))
<1> DEFINE m == Len(f)
<1>0. m \in Nat /\ LenCells \in Nat \ {0} /\ m = p + LenCells /\ Len(g) = p + t
  <2>1. f \in Seq(Cell) /\ m \in Nat /\ LenCells \in Nat \ {0}
    BY LogAssumption DEF FileOf
  <2>2. p + t = Len(g)
    BY <2>1, PieceGrown
  <2> QED
    BY <2>1, <2>2
<1>1. \A n \in 1..m : g[n] = f[n]
  BY DEF Extended
<1>2. ASSUME NEW n \in (p + 1)..(p + t)
      PROVE  g[n] = [rec |-> k, cell |-> n - p] /\ g[n].rec = k /\ g[n].cell = n - p
  <2>1. Piece(g, p, k, t)
    <3>1. f \in Seq(Cell)
      BY DEF FileOf
    <3> QED
      BY <1>0, <3>1, PieceGrown
  <2>2. PICK i \in 1..t : i = n - p
    BY <1>0
  <2>3. p + i = n
    BY <1>0, <2>2
  <2> QED
    BY <2>1, <2>2, <2>3 DEF Piece
<1>3. ASSUME NEW i \in 1..Len(g), i <= p, g[i].cell = 1
      PROVE  i \in 1..m /\ f[i].cell = 1 /\ g[i] = f[i] /\ i + Total(z, g[i].rec) - 1 <= m
  BY <1>0, <1>1, <1>3 DEF Complete
<1>4. ASSUME NEW i \in 1..Len(g), i > p, g[i].cell = 1
      PROVE  i = p + 1 /\ g[i].rec = k
  <2>1. i \in (p + 1)..(p + t)
    BY <1>0, <1>4
  <2>2. g[i].rec = k /\ g[i].cell = i - p
    BY <1>2, <2>1
  <2> QED
    BY <1>0, <1>4, <2>2
<1>5. Ordered(g)
  <2> SUFFICES ASSUME NEW i \in 1..Len(g), NEW j \in 1..Len(g), g[j].cell = 1, i < j
               PROVE  g[i].rec < g[j].rec
    BY DEF Ordered
  <2>1. j <= m
    BY <1>0, <1>4
  <2>2. i \in 1..m /\ j \in 1..m
    BY <1>0, <2>1
  <2> QED
    BY <1>1, <2>2 DEF Layout, Ordered
<1>6. Runs(g, z)
  <2> SUFFICES ASSUME NEW i \in 1..Len(g), NEW j \in 1..Len(g),
                      g[i].cell = 1, i <= j, j < i + Total(z, g[i].rec)
               PROVE  g[j] = [rec |-> g[i].rec, cell |-> j - i + 1]
    BY DEF Runs
  <2>1. CASE i <= p
    <3>1. i \in 1..m /\ f[i].cell = 1 /\ g[i] = f[i] /\ i + Total(z, g[i].rec) - 1 <= m
      BY <1>3, <2>1
    <3>2. Total(z, g[i].rec) \in Nat
      BY DEF FileOf
    <3>3. j \in 1..m
      BY <1>0, <3>1, <3>2
    <3> QED
      BY <1>1, <3>1, <3>3 DEF Layout, Runs
  <2>2. CASE i > p
    <3>1. i = p + 1 /\ g[i].rec = k
      BY <1>4, <2>2
    <3>2. j \in (p + 1)..(p + t) /\ j - i + 1 = j - p
      BY <1>0, <3>1
    <3> QED
      BY <1>2, <3>1, <3>2
  <2> QED
    BY <1>0, <2>1, <2>2
<1>7. HeadsAt(g, z)
  <2> SUFFICES ASSUME NEW i \in 0..(Len(g) - 1), IsEnd(g, z, i) PROVE g[i + 1].cell = 1
    BY DEF HeadsAt
  <2>1. CASE i <= p
    <3>1. i \in 0..(m - 1) /\ i + 1 \in 1..m
      BY <1>0, <2>1
    <3>2. IsEnd(f, z, i)
      <4>1. CASE i = 0
        BY <4>1 DEF IsEnd
      <4>2. CASE i # 0
        <5>1. i \in 1..m
          BY <1>0, <3>1, <4>2
        <5> QED
          BY <1>1, <5>1 DEF IsEnd
      <4> QED
        BY <4>1, <4>2
    <3> QED
      BY <1>1, <3>1, <3>2 DEF Layout, HeadsAt
  <2>2. CASE i > p
    <3>1. i \in (p + 1)..(p + t) /\ i # 0 /\ i - p < t
      BY <1>0, <2>2
    <3>2. g[i].rec = k /\ g[i].cell = i - p
      BY <1>2, <3>1
    <3> QED
      BY <1>0, <3>1, <3>2 DEF IsEnd
  <2> QED
    BY <1>0, <2>1, <2>2
<1>8. Complete(g, z, Len(g))
  <2> SUFFICES ASSUME NEW i \in 1..Len(g), g[i].cell = 1
               PROVE  i + Total(z, g[i].rec) - 1 <= Len(g)
    BY DEF Complete
  <2>1. CASE i <= p
    <3>1. i + Total(z, g[i].rec) - 1 <= m /\ Total(z, g[i].rec) \in Nat
      BY <1>3, <2>1 DEF FileOf
    <3> QED
      BY <1>0, <3>1
  <2>2. CASE i > p
    <3>1. i = p + 1 /\ Total(z, g[i].rec) = t
      BY <1>4, <2>2
    <3> QED
      BY <1>0, <3>1
  <2> QED
    BY <1>0, <2>1, <2>2
<1>9. IsEnd(g, z, Len(g))
  <2>1. PICK n \in (p + 1)..(p + t) : n = Len(g) /\ n - p = t
    BY <1>0
  <2>2. g[n].rec = k /\ g[n].cell = n - p
    BY <1>2
  <2> QED
    BY <2>1, <2>2 DEF IsEnd
<1> QED
  BY <1>5, <1>6, <1>7, <1>8, <1>9 DEF Layout

\* Cutting the file where a record ends leaves complete records.
LEMMA LayoutCut ==
  ASSUME NEW f, NEW g, NEW z, FileOf(f, z), Layout(f, z),
         NEW n \in 0..Len(f), IsEnd(f, z, n), Len(g) = n, \A i \in 1..n : g[i] = f[i]
  PROVE  Layout(g, z) /\ IsEnd(g, z, n) /\ Complete(g, z, n)
<1>0. Len(f) \in Nat /\ n \in Nat /\ n <= Len(f)
  BY DEF FileOf
<1>1. ASSUME NEW i \in 0..n PROVE IsEnd(g, z, i) <=> IsEnd(f, z, i)
  <2>1. CASE i = 0
    BY <2>1 DEF IsEnd
  <2>2. CASE i # 0
    <3>1. i \in 1..n
      BY <1>0, <2>2
    <3> QED
      BY <3>1 DEF IsEnd
  <2> QED
    BY <2>1, <2>2
<1>2. \A i \in 1..n : i \in 1..Len(f)
  BY <1>0
<1>3. Ordered(g)
  BY <1>2 DEF Layout, Ordered
<1>4. Runs(g, z)
  <2> SUFFICES ASSUME NEW i \in 1..n, NEW j \in 1..n,
                      g[i].cell = 1, i <= j, j < i + Total(z, g[i].rec)
               PROVE  g[j] = [rec |-> g[i].rec, cell |-> j - i + 1]
    BY DEF Runs
  <2> QED
    BY <1>2 DEF Layout, Runs
<1>5. HeadsAt(g, z)
  <2> SUFFICES ASSUME NEW i \in 0..(n - 1), IsEnd(g, z, i) PROVE g[i + 1].cell = 1
    BY DEF HeadsAt
  <2>1. i \in 0..n /\ i \in 0..(Len(f) - 1) /\ i + 1 \in 1..n
    BY <1>0
  <2> QED
    BY <1>1, <2>1 DEF Layout, HeadsAt
<1>6. Complete(g, z, n)
  <2> SUFFICES ASSUME NEW i \in 1..n, f[i].cell = 1, ~(i + Total(z, f[i].rec) - 1 <= n)
               PROVE  FALSE
    BY DEF Complete
  <2>1. /\ i \in 1..Len(f) /\ n \in 1..Len(f) /\ i <= n /\ n # 0
        /\ Total(z, f[i].rec) \in Nat
    BY <1>0 DEF FileOf
  <2>2. n < i + Total(z, f[i].rec) /\ n - i + 1 < Total(z, f[i].rec)
    BY <1>0, <2>1
  <2>3. f[n] = [rec |-> f[i].rec, cell |-> n - i + 1]
    BY <2>1, <2>2 DEF Layout, Runs
  <2>4. f[n].rec = f[i].rec /\ f[n].cell = n - i + 1
    BY <2>3
  <2> QED
    BY <1>0, <2>1, <2>2, <2>4 DEF IsEnd
<1>7. IsEnd(g, z, n)
  BY <1>0, <1>1
<1> QED
  BY <1>3, <1>4, <1>5, <1>6, <1>7 DEF Layout

\* A step keeps the layout of a log that is not torn.
LEMMA LayoutStep == LogInv /\ LogInv' /\ WriterInv /\ LayoutInv /\ [Next]_vars => LayoutInv'
<1> SUFFICES ASSUME LogInv, LogInv', WriterInv, LayoutInv, [Next]_vars, ~torn' PROVE LayoutInv'
  BY DEF LayoutInv
<1>0. /\ FileType /\ FileType' /\ file \in Seq(Cell) /\ Len(file) \in Nat /\ Last \in Nat
      /\ LenCells \in Nat \ {0}
  BY LogAssumption DEF LogInv, FileType, Last
<1>1. FileOf(file, sizes) /\ FileOf(file', sizes')
  <2>1. FileOf(file, sizes)'
    BY <1>0, FileIsOf, PTL
  <2> QED
    BY <1>0, <2>1, FileIsOf DEF FileOf, Total
<1>2. ASSUME NEW size \in 1..MaxData, AppendStart(size) PROVE LayoutInv'
  <2>1. UNCHANGED <<file, torn>> /\ writer = "idle" /\ writer' = "len" /\ ~torn
    BY <1>2 DEF AppendStart
  <2>2. /\ Layout(file, sizes) /\ IsEnd(file, sizes, Len(file))
        /\ Complete(file, sizes, Len(file))
    BY <2>1 DEF LayoutInv
  <2>3. \A i \in 1..Len(file) : Total(sizes', file[i].rec) = Total(sizes, file[i].rec)
    <3>1. \A i \in 1..Len(file) : file[i].rec \in 1..Last
      BY <1>0 DEF FileType
    <3> QED
      BY <1>0, <1>2, <3>1, TotalKept
  <2>4. /\ Layout(file, sizes') /\ IsEnd(file, sizes', Len(file))
        /\ Complete(file, sizes', Len(file))
    <3>1. Len(file) \in 0..Len(file)
      BY <1>0
    <3> QED
      BY <1>1, <2>2, <2>3, <3>1, LayoutSizes
  <2>5. Last' = Last + 1
    BY <1>0, <1>2, SizesKept DEF FileType, AppendStart, Last
  <2>6. \A i \in 1..Len(file) : file[i].rec < Last'
    BY <1>0, <2>5 DEF FileType
  <2> QED
    BY <2>1, <2>4, <2>6 DEF LayoutInv
<1>3. CASE WriteLen
  <2>1. UNCHANGED <<sizes, torn>> /\ writer = "len" /\ writer' = "data" /\ ~torn
    BY <1>3 DEF WriteLen
  <2>2. /\ Layout(file, sizes) /\ IsEnd(file, sizes, Len(file))
        /\ Complete(file, sizes, Len(file)) /\ \A i \in 1..Len(file) : file[i].rec < Last
    BY <2>1 DEF LayoutInv
  <2>3. Total(sizes, Last) \in Nat /\ Total(sizes, Last) > LenCells
    <3>1. Last \in 1..Len(sizes) /\ sizes \in Seq(1..MaxData)
      BY <1>0, <2>1 DEF FileType, Last
    <3> QED
      BY <3>1, TotalType
  <2>4. Extended(file, file', Last, 1, LenCells) /\ FileOf(file', sizes)
    BY <1>0, <1>1, <1>3, <2>1, LenWritten
  <2>5. Layout(file', sizes) /\ Complete(file', sizes, Len(file') - LenCells)
    BY <1>0, <1>1, <2>2, <2>3, <2>4, LayoutLen
  <2> QED
    BY <2>1, <2>5 DEF LayoutInv
<1>4. CASE WriteData
  <2>1. UNCHANGED <<sizes, torn>> /\ writer = "data" /\ writer' = "sync" /\ ~torn
    BY <1>4 DEF WriteData
  <2>2. Layout(file, sizes) /\ Complete(file, sizes, Len(file) - LenCells)
    BY <2>1 DEF LayoutInv
  <2>3. PICK p \in Nat : p + LenCells = Len(file) /\ Piece(file, p, Last, LenCells)
    BY <2>1 DEF WriterInv
  <2>4. Complete(file, sizes, p)
    <3>1. p = Len(file) - LenCells
      BY <1>0, <2>3
    <3> QED
      BY <2>2, <3>1
  <2>5. PICK t \in Nat : t = Total(sizes, Last) /\ t > LenCells
    <3>1. Last \in 1..Len(sizes) /\ sizes \in Seq(1..MaxData)
      BY <1>0, <2>1 DEF FileType, Last
    <3> QED
      BY <3>1, TotalType
  <2>6. Extended(file, file', Last, LenCells + 1, t) /\ FileOf(file', sizes)
    <3>1. Extended(file, file', Last, LenCells + 1, Total(sizes, Last))
      BY <1>0, <1>4, DataWritten
    <3> QED
      BY <1>1, <2>1, <2>5, <3>1
  <2>7. /\ Layout(file', sizes) /\ IsEnd(file', sizes, Len(file'))
        /\ Complete(file', sizes, Len(file'))
    BY <1>0, <1>1, <2>2, <2>3, <2>4, <2>5, <2>6, LayoutData
  <2> QED
    BY <2>1, <2>7 DEF LayoutInv
<1>5. CASE WriteFails
  <2>1. PICK i \in Nat \ {0}, j \in Nat :
           /\ Extended(file, file', Last, i, j)
           /\ torn' = (torn \/ j > 0)
           /\ j = 0 => writer = "len" /\ i = 1
    BY <1>0, <1>5, PartWritten
  <2>2. j = 0 /\ ~torn /\ writer = "len" /\ i = 1
    <3>1. ~torn /\ ~(j > 0)
      BY <2>1, Zenon
    <3>2. j = 0
      BY <3>1
    <3> QED
      BY <2>1, <3>1, <3>2, Zenon
  <2>3. file' = file
    <3>1. /\ Len(file') = Len(file) + (0 - 1 + 1) /\ file' \in Seq(Cell)
          /\ \A n \in 1..Len(file) : file'[n] = file[n]
      BY <2>1, <2>2 DEF Extended
    <3>2. Len(file') = Len(file)
      BY <1>0, <3>1
    <3> QED
      BY <1>0, <3>1, <3>2
  <2>4. UNCHANGED sizes /\ writer' = "idle"
    BY <1>5 DEF WriteFails
  <2> QED
    BY <2>2, <2>3, <2>4 DEF LayoutInv
<1>6. CASE Crash
  <2>1. PICK n \in synced..Len(file) : file' = SubSeq(file, 1, n) /\ torn' = (torn \/ ~Ends(n))
    BY <1>6 DEF Crash
  <2>2. n \in 0..Len(file)
    BY <1>0 DEF FileType
  <2>3. Len(file') = n /\ \A i \in 1..n : file'[i] = file[i]
    BY <1>0, <2>1, <2>2, Cut
  <2>4. ~torn /\ IsEnd(file, sizes, n)
    BY <2>1 DEF Ends, IsEnd, Total
  <2>5. Layout(file, sizes)
    BY <2>4 DEF LayoutInv
  <2>6. Layout(file', sizes) /\ IsEnd(file', sizes, n) /\ Complete(file', sizes, n)
    BY <1>1, <2>2, <2>3, <2>4, <2>5, LayoutCut
  <2>7. UNCHANGED sizes /\ writer' = "idle"
    BY <1>6 DEF Crash
  <2> QED
    BY <2>3, <2>6, <2>7 DEF LayoutInv
<1>7. CASE Sync \/ SyncFails
  <2>1. UNCHANGED <<file, sizes, torn>> /\ writer = "sync" /\ writer' = "idle"
    BY <1>7 DEF Sync, SyncFails
  <2> QED
    BY <2>1 DEF LayoutInv
<1>8. CASE \/ \E r \in Readers : Open(r) \/ Refresh(r) \/ NextShort(r) \/ NextEntry(r)
           \/ UNCHANGED vars
  <2>1. UNCHANGED <<file, sizes, writer, torn>>
    BY <1>8 DEF Open, Refresh, NextShort, NextEntry, writevars, vars
  <2> QED
    BY <2>1 DEF LayoutInv, Last
<1> QED
  BY <1>2, <1>3, <1>4, <1>5, <1>6, <1>7, <1>8 DEF Next

-----------------------------------------------------------------------------
(***************************************************************************)
(* Iterators.                                                              *)
(***************************************************************************)

\* The elements of a sequence.
Elements(s) == {s[i] : i \in 1..Len(s)}

\* An iterator at position p of f that has returned s.
Follows(f, z, p, s) ==
  /\ IsEnd(f, z, p)
  /\ Elements(s) = {f[i].rec : i \in 1..p}
  /\ \A i, j \in 1..Len(s) : i < j => s[i] < s[j]

\* As long as no append stopped in the middle, every iterator stands between two
\* records and has returned those before it.
FollowInv == ~torn => \A r \in Readers : Follows(file, sizes, pos[r], got[r])

\* An iterator that has not started follows any log.
LEMMA FollowsEmpty ==
  ASSUME NEW f, NEW z
  PROVE  Follows(f, z, 0, <<>>)
<1>1. 1..0 = {} /\ 1..Len(<<>>) = {}
  OBVIOUS
<1> QED
  BY <1>1 DEF Follows, IsEnd, Elements

\* An iterator is not disturbed by cells added behind it, nor by new records.
LEMMA FollowsKept ==
  ASSUME NEW f, NEW g, NEW z, NEW y, NEW p \in Nat, NEW s,
         \A i \in 1..p : g[i] = f[i] /\ Total(y, f[i].rec) = Total(z, f[i].rec),
         Follows(f, z, p, s)
  PROVE  Follows(g, y, p, s)
<1>1. IsEnd(g, y, p)
  <2>1. CASE p = 0
    BY <2>1 DEF IsEnd
  <2>2. CASE p # 0
    <3>1. p \in 1..p
      BY <2>2
    <3> QED
      BY <2>2, <3>1 DEF Follows, IsEnd
  <2> QED
    BY <2>1, <2>2
<1>2. {g[i].rec : i \in 1..p} = {f[i].rec : i \in 1..p}
  OBVIOUS
<1> QED
  BY <1>1, <1>2 DEF Follows

\* The first m cells of the record at an iterator's position lie behind it.
LEMMA EntryPiece ==
  ASSUME NEW f, NEW z, FileOf(f, z), Layout(f, z), NEW p \in Nat, p < Len(f), IsEnd(f, z, p),
         NEW k \in Nat, k = f[p + 1].rec, NEW m \in Nat, m <= Total(z, k), p + m <= Len(f)
  PROVE  Piece(f, p, k, m)
<1>1. /\ Len(f) \in Nat /\ p \in 0..(Len(f) - 1) /\ p + 1 \in 1..Len(f)
  BY DEF FileOf
<1>2. Total(z, k) \in Nat
  BY <1>1 DEF FileOf
<1>3. f[p + 1].cell = 1
  BY <1>1 DEF Layout, HeadsAt
<1> SUFFICES ASSUME NEW i \in 1..m PROVE f[p + i] = [rec |-> k, cell |-> i]
  BY DEF Piece
<1>4. PICK h \in 1..Len(f), j \in 1..Len(f) : h = p + 1 /\ j = p + i
  BY <1>1
<1>5. h <= j /\ j < h + Total(z, f[h].rec) /\ j - h + 1 = i /\ f[h].cell = 1 /\ f[h].rec = k
  BY <1>1, <1>2, <1>3, <1>4
<1>6. f[j] = [rec |-> f[h].rec, cell |-> j - h + 1]
  BY <1>5 DEF Layout, Runs
<1> QED
  BY <1>4, <1>5, <1>6

\* An iterator that returns the record it stands before follows the log on.
LEMMA FollowsEntry ==
  ASSUME NEW f, NEW z, FileOf(f, z), Layout(f, z), NEW p \in Nat, p < Len(f),
         NEW s \in Seq(Nat \cup {Bogus}), Follows(f, z, p, s),
         NEW k \in Nat, k = f[p + 1].rec, NEW t \in Nat, t = Total(z, k), p + t <= Len(f)
  PROVE  Follows(f, z, p + t, Append(s, k))
<1>0. /\ Len(f) \in Nat /\ p \in 0..(Len(f) - 1) /\ p + 1 \in 1..Len(f) /\ IsEnd(f, z, p)
      /\ t > 0
  BY LogAssumption DEF FileOf, Follows
<1>1. f[p + 1].cell = 1
  BY <1>0 DEF Layout, HeadsAt
<1>2. Piece(f, p, k, t)
  BY <1>0, EntryPiece
<1>3. IsEnd(f, z, p + t)
  <2>1. f[p + t] = [rec |-> k, cell |-> t]
    BY <1>0, <1>2 DEF Piece
  <2> QED
    BY <2>1 DEF IsEnd
<1>4. {f[i].rec : i \in 1..(p + t)} = {f[i].rec : i \in 1..p} \cup {k}
  <2>1. ASSUME NEW i \in 1..(p + t) PROVE i \in 1..p \/ f[i].rec = k
    <3>1. CASE i > p
      <4>1. PICK j \in 1..t : p + j = i
        <5>1. i - p \in 1..t /\ p + (i - p) = i
          BY <3>1
        <5> QED
          BY <5>1
      <4>2. f[p + j] = [rec |-> k, cell |-> j]
        BY <1>2 DEF Piece
      <4> QED
        BY <4>1, <4>2
    <3> QED
      BY <3>1
  <2>2. p + 1 \in 1..(p + t) /\ \A i \in 1..p : i \in 1..(p + t)
    BY <1>0
  <2> QED
    BY <2>1, <2>2
<1> DEFINE u == Append(s, k)
<1>5. /\ Len(u) = Len(s) + 1 /\ u[Len(s) + 1] = k
      /\ \A i \in 1..Len(s) : u[i] = s[i]
      /\ Len(s) \in Nat
  OBVIOUS
<1> HIDE DEF u
<1>6. Elements(u) = Elements(s) \cup {k}
  <2>1. 1..Len(u) = 1..Len(s) \cup {Len(s) + 1}
    BY <1>5
  <2> QED
    BY <1>5, <2>1 DEF Elements
<1>7. ASSUME NEW i \in 1..Len(s) PROVE s[i] < k
  <2>1. s[i] \in Elements(s)
    BY DEF Elements
  <2>2. PICK x \in 1..p : s[i] = f[x].rec
    BY <2>1 DEF Follows
  <2>3. x \in 1..Len(f) /\ x < p + 1
    BY <1>0
  <2> QED
    BY <1>0, <1>1, <2>2, <2>3 DEF Layout, Ordered
<1>8. ASSUME NEW i \in 1..Len(u), NEW j \in 1..Len(u), i < j PROVE u[i] < u[j]
  <2>1. CASE j <= Len(s)
    <3>1. i \in 1..Len(s) /\ j \in 1..Len(s)
      BY <1>5, <1>8, <2>1
    <3>2. u[i] = s[i] /\ u[j] = s[j]
      BY <1>5, <3>1
    <3> QED
      BY <1>8, <3>1, <3>2 DEF Follows
  <2>2. CASE j > Len(s)
    <3>1. i \in 1..Len(s) /\ j = Len(s) + 1
      BY <1>5, <1>8, <2>2
    <3>2. u[i] = s[i] /\ u[j] = k
      BY <1>5, <3>1
    <3> QED
      BY <1>7, <3>1, <3>2
  <2> QED
    BY <1>5, <2>1, <2>2
<1>9. Elements(u) = {f[i].rec : i \in 1..(p + t)}
  BY <1>4, <1>6 DEF Follows
<1>10. Follows(f, z, p + t, u)
  BY <1>3, <1>8, <1>9 DEF Follows
<1> QED
  BY <1>10 DEF u

\* A torn log stays torn.
LEMMA TornStays == LogInv /\ [Next]_vars /\ ~torn' => ~torn
<1> SUFFICES ASSUME LogInv, [Next]_vars, ~torn' PROVE ~torn
  OBVIOUS
<1>1. CASE WriteFails
  BY <1>1, PartWritten DEF LogInv
<1>2. CASE Crash
  BY <1>2, Zenon DEF Crash
<1>3. CASE UNCHANGED torn
  BY <1>3
<1> QED
  BY <1>1, <1>2, <1>3
     DEF Next, AppendStart, WriteLen, WriteData, Sync, SyncFails, Open, Refresh, NextShort,
         NextEntry, writevars, vars

\* A step keeps every iterator between two records, with those before it
\* returned.
LEMMA FollowStep == LogInv /\ LayoutInv /\ FollowInv /\ [Next]_vars => FollowInv'
<1> SUFFICES ASSUME LogInv, LayoutInv, FollowInv, [Next]_vars, ~torn',
                    NEW r \in Readers
             PROVE  Follows(file', sizes', pos'[r], got'[r])
  BY DEF FollowInv
<1>0. /\ FileType /\ file \in Seq(Cell) /\ Len(file) \in Nat /\ FileOf(file, sizes)
      /\ LenCells \in Nat \ {0}
  BY FileIsOf, LogAssumption DEF LogInv, FileType
<1>1. /\ mapped \in [Readers -> Nat] /\ pos \in [Readers -> Nat]
      /\ got \in [Readers -> Seq(Nat \cup {Bogus})]
      /\ \A s \in Readers : mapped[s] <= Len(file) /\ pos[s] <= mapped[s]
  BY DEF LogInv, IterType
<1>2. ~torn
  BY TornStays
<1>3. Follows(file, sizes, pos[r], got[r]) /\ Layout(file, sizes)
  BY <1>2 DEF FollowInv, LayoutInv
<1>4. pos[r] \in Nat /\ pos[r] <= Len(file) /\ \A i \in 1..pos[r] : i \in 1..Len(file)
  BY <1>0, <1>1
<1>5. ASSUME NEW size \in 1..MaxData, AppendStart(size)
      PROVE  Follows(file', sizes', pos'[r], got'[r])
  <2>1. UNCHANGED <<file, pos, got>>
    BY <1>5 DEF AppendStart, readvars
  <2>2. \A i \in 1..pos[r] : Total(sizes', file[i].rec) = Total(sizes, file[i].rec)
    <3>1. \A i \in 1..Len(file) : file[i].rec \in 1..Last
      BY <1>0 DEF FileType
    <3> QED
      BY <1>0, <1>4, <1>5, <3>1, TotalKept
  <2>3. Follows(file, sizes', pos[r], got[r])
    BY <1>3, <1>4, <2>2, FollowsKept
  <2> QED
    BY <2>1, <2>3
<1>6. CASE WriteLen \/ WriteData \/ WriteFails
  <2>1. UNCHANGED <<sizes, pos, got>>
    BY <1>6, WriteKeeps DEF readvars
  <2>2. PICK i \in Nat \ {0}, j \in Nat : Extended(file, file', Last, i, j)
    BY <1>0, <1>6, WriteGrows
  <2>3. \A n \in 1..pos[r] : file'[n] = file[n]
    BY <1>4, <2>2 DEF Extended
  <2>4. Follows(file', sizes, pos[r], got[r])
    BY <1>3, <1>4, <2>3, FollowsKept
  <2> QED
    BY <2>1, <2>4
<1>7. CASE Crash
  BY <1>7, FollowsEmpty DEF Crash
<1>8. ASSUME NEW s \in Readers, Open(s) PROVE Follows(file', sizes', pos'[r], got'[r])
  <2>1. UNCHANGED <<file, sizes>>
    BY <1>8 DEF Open, writevars
  <2>2. CASE s = r
    BY <1>1, <1>8, <2>1, <2>2, FollowsEmpty DEF Open
  <2>3. CASE s # r
    BY <1>1, <1>3, <1>8, <2>1, <2>3 DEF Open
  <2> QED
    BY <2>2, <2>3
<1>9. ASSUME NEW s \in Readers, Refresh(s) \/ NextShort(s)
      PROVE  Follows(file', sizes', pos'[r], got'[r])
  <2>1. UNCHANGED <<file, sizes, got>> /\ pos'[r] = pos[r]
    BY <1>1, <1>9 DEF Refresh, NextShort, Rewound, writevars
  <2> QED
    BY <1>3, <2>1
<1>10. ASSUME NEW s \in Readers, NextEntry(s) PROVE Follows(file', sizes', pos'[r], got'[r])
  <2>1. UNCHANGED <<file, sizes>>
    BY <1>10 DEF NextEntry, writevars
  <2>2. CASE s # r
    <3>1. pos'[r] = pos[r] /\ got'[r] = got[r]
      BY <1>1, <1>10, <2>2 DEF NextEntry
    <3> QED
      BY <1>3, <2>1, <3>1
  <2>3. CASE s = r
    <3>1. PICK n \in LenAt(pos[r]) :
            /\ Fits(r, n)
            /\ pos' = [pos EXCEPT ![r] = @ + LenCells + n]
            /\ IF Whole(pos[r], n)
                 THEN got' = [got EXCEPT ![r] = Append(@, file[pos[r] + 1].rec)]
                 ELSE got' \in {got, [got EXCEPT ![r] = Append(@, Bogus)]}
      BY <1>10, <2>3 DEF NextEntry
    <3>2. PICK p \in Nat : p = pos[r]
      BY <1>4
    <3>3. p + LenCells <= Len(file) /\ p < Len(file) /\ p + 1 \in 1..Len(file)
      BY <1>0, <1>1, <1>10, <2>3, <3>2 DEF NextEntry, Fits
    <3>4. PICK k \in Nat : k = file[p + 1].rec /\ k \in 1..Last
      BY <1>0, <3>3 DEF FileType, FileOf
    <3>5. PICK t \in Nat : t = Total(sizes, k) /\ t > LenCells
      BY <1>0, <3>3, <3>4 DEF FileOf
    <3>6. IsEnd(file, sizes, p)
      BY <1>3, <3>2 DEF Follows
    <3>7. n = sizes[k]
      <4>1. Piece(file, p, k, LenCells)
        BY <1>0, <1>3, <3>3, <3>4, <3>5, <3>6, EntryPiece
      <4>2. SubSeq(file, p + 1, p + LenCells) = Cells(k, 1, LenCells)
        BY <1>0, <3>3, <4>1, PieceIs
      <4>3. Aligned(p)
        BY <3>3, <3>4, <4>2, Zenon DEF Aligned
      <4> QED
        BY <3>1, <3>2, <3>4, <4>3, Zenon DEF LenAt
    <3>8. sizes[k] \in Nat /\ t = LenCells + n /\ p + LenCells + n = p + t
      <4>1. sizes \in Seq(1..MaxData) /\ k \in 1..Len(sizes)
        BY <1>0, <3>4 DEF FileType, Last
      <4> QED
        BY <1>0, <3>5, <3>7, <4>1, LogAssumption DEF Total
    <3>9. p + t <= Len(file)
      <4>1. pos[r] + LenCells + n <= mapped[r] /\ mapped[r] <= Len(file) /\ mapped[r] \in Nat
        BY <1>1, <3>1 DEF Fits
      <4> QED
        BY <1>0, <3>2, <3>8, <4>1
    <3>10. Whole(p, n)
      <4>1. Piece(file, p, k, t)
        <5>1. t <= Total(sizes, k)
          BY <3>5
        <5> QED
          BY <1>0, <1>3, <3>3, <3>4, <3>6, <3>9, <5>1, EntryPiece
      <4>2. SubSeq(file, p + 1, p + t) = Cells(k, 1, t)
        BY <1>0, <3>9, <4>1, PieceIs
      <4> QED
        BY <3>4, <3>8, <3>9, <4>2, Zenon DEF Whole
    <3>11. got' = [got EXCEPT ![r] = Append(@, k)]
      BY <3>1, <3>2, <3>4, <3>10
    <3>12. got'[r] = Append(got[r], k)
      BY <1>1, <3>11
    <3>13. pos'[r] = p + t
      BY <1>1, <3>1, <3>2, <3>8
    <3>14. got[r] \in Seq(Nat \cup {Bogus})
      BY <1>1
    <3>15. Follows(file, sizes, p + t, Append(got[r], k))
      BY <1>0, <1>3, <3>2, <3>3, <3>4, <3>5, <3>9, <3>14, FollowsEntry
    <3> QED
      BY <2>1, <3>12, <3>13, <3>15
  <2> QED
    BY <2>2, <2>3
<1>11. CASE Sync \/ SyncFails \/ UNCHANGED vars
  <2>1. UNCHANGED <<file, sizes, pos, got>>
    BY <1>11 DEF Sync, SyncFails, readvars, writevars, vars
  <2> QED
    BY <1>3, <2>1
<1> QED
  BY <1>5, <1>6, <1>7, <1>8, <1>9, <1>10, <1>11 DEF Next

\* The layout and the iterators of a log that is not torn.
THEOREM LayoutInvariant == Spec => [](DurableInv /\ LayoutInv /\ FollowInv)
<1>1. Init => LayoutInv /\ FollowInv
  <2> SUFFICES ASSUME Init PROVE LayoutInv /\ FollowInv
    OBVIOUS
  <2>1. Len(file) = 0 /\ 1..Len(file) = {} /\ 0..(Len(file) - 1) = {} /\ writer = "idle"
    BY DEF Init
  <2>2. LayoutInv
    BY <2>1 DEF LayoutInv, Layout, Ordered, Runs, HeadsAt, Complete, IsEnd
  <2>3. FollowInv
    BY FollowsEmpty DEF Init, FollowInv
  <2> QED
    BY <2>2, <2>3
<1>2. DurableInv /\ LayoutInv /\ FollowInv /\ DurableInv' /\ [Next]_vars =>
        (LayoutInv /\ FollowInv)'
  BY LayoutStep, FollowStep DEF DurableInv
<1> QED
  BY <1>1, <1>2, DurableInvariant, PTL DEF Spec

\* next and refresh of replica_log.rs: as long as no append stopped in the middle
\* of a record, an iterator returns the records in the order of the calls of
\* append, each once and none skipped, also when it meets a half written record
\* and goes on after a refresh, for any number of iterators and any sizes.
THEOREM IteratorsFollow == Spec => []IteratorsFollowLog
<1>1. FollowInv => IteratorsFollowLog
  BY DEF FollowInv, Follows, IteratorsFollowLog, Elements, Returned, RecordsBefore, Ends,
         IsEnd, Total
<1> QED
  BY <1>1, LayoutInvariant, PTL
=============================================================================
