----------------------------- MODULE ReplicaLog -----------------------------
(***************************************************************************)
(* The replica's log file (pod/src/replica_log.rs): an appender that       *)
(* writes length-prefixed records in two writes and a sync, and iterators  *)
(* that read them through a memory map made when they are opened or        *)
(* refreshed.  Writes can fail part of the way, the process can die at any *)
(* point, and what was not synced may be lost then.                        *)
(*                                                                         *)
(* The file is a sequence of cells, each a part of the record it was       *)
(* written for: LenCells cells of length prefix and then the record's data.*)
(* What a reader makes of cells that do not line up with a record is not   *)
(* determined by the model: any length, an error or a bogus record.        *)
(***************************************************************************)
EXTENDS Integers, Sequences, FiniteSets

CONSTANTS
  Readers,     \* iterators
  LenCells,    \* size of a length prefix (4 bytes in the code)
  MaxData,     \* bound: the size of a record's data
  MaxRecords,  \* bound: calls of append
  Bogus        \* a record made from bytes of several records

ASSUME LogAssumption ==
  /\ LenCells \in Nat \ {0}
  /\ MaxData \in Nat \ {0}
  /\ MaxRecords \in Nat
  /\ Bogus \notin Nat

VARIABLES
  file,      \* the cells of the file
  synced,    \* how many of them are known to survive a crash
  sizes,     \* sizes[k]: data cells of the k-th record that append was given
  writer,    \* where append is
  acked,     \* the records whose append returned Ok
  torn,      \* history: an append stopped in the middle of a record
  mapped,    \* cells in the memory map of each iterator
  pos,       \* the position of each iterator
  got        \* history: the records each iterator has returned

writevars == <<file, synced, sizes, writer, acked, torn>>
readvars == <<mapped, pos, got>>
vars == <<writevars, readvars>>

Init ==
  /\ file = <<>>
  /\ synced = 0
  /\ sizes = <<>>
  /\ writer = "idle"
  /\ acked = {}
  /\ torn = FALSE
  /\ mapped = [r \in Readers |-> 0]
  /\ pos = [r \in Readers |-> 0]
  /\ got = [r \in Readers |-> <<>>]

-----------------------------------------------------------------------------
(***************************************************************************)
(* The appender.                                                           *)
(***************************************************************************)
Last == Len(sizes)

\* Cells i to j of record k.
Cells(k, i, j) == [n \in 1..(j - i + 1) |-> [rec |-> k, cell |-> i + n - 1]]

\* append is called with a record of the given size and the file is locked.
AppendStart(size) ==
  /\ writer = "idle"
  /\ Last < MaxRecords
  /\ sizes' = Append(sizes, size)
  /\ writer' = "len"
  /\ UNCHANGED <<file, synced, acked, torn, readvars>>

\* write_all(&len_bytes).
WriteLen ==
  /\ writer = "len"
  /\ file' = file \o Cells(Last, 1, LenCells)
  /\ writer' = "data"
  /\ UNCHANGED <<synced, sizes, acked, torn, readvars>>

\* write_all(&serialized).
WriteData ==
  /\ writer = "data"
  /\ file' = file \o Cells(Last, LenCells + 1, LenCells + sizes[Last])
  /\ writer' = "sync"
  /\ UNCHANGED <<synced, sizes, acked, torn, readvars>>

\* A write fails after some of its cells; append returns the error and the
\* cells stay in the file.
WriteFails ==
  /\ writer \in {"len", "data"}
  /\ LET from == IF writer = "len" THEN 1 ELSE LenCells + 1
         to == IF writer = "len" THEN LenCells ELSE LenCells + sizes[Last]
     IN  \E n \in (from - 1)..(to - 1) :
           /\ file' = file \o Cells(Last, from, n)
           /\ torn' = (torn \/ n > 0)
  /\ writer' = "idle"
  /\ UNCHANGED <<synced, sizes, acked, readvars>>

\* Mutant: append does not wait for the disk.
NotSynced == synced

\* What sync_data() makes safe.
Synced == Len(file)

\* sync_data() succeeds and append returns Ok.
Sync ==
  /\ writer = "sync"
  /\ synced' = Synced
  /\ acked' = acked \cup {Last}
  /\ writer' = "idle"
  /\ UNCHANGED <<file, sizes, torn, readvars>>

\* sync_data() fails: append returns the error although the record is there.
SyncFails ==
  /\ writer = "sync"
  /\ writer' = "idle"
  /\ UNCHANGED <<file, synced, sizes, acked, torn, readvars>>

\* Whether n cells end where a record ends.
Ends(n) ==
  n = 0 \/ file[n].cell = LenCells + sizes[file[n].rec]

\* The process dies, some of what was not synced is lost, and the log is opened
\* again for appending at its end.  Iterators die with the process.
Crash ==
  \E n \in synced..Len(file) :
    /\ file' = SubSeq(file, 1, n)
    /\ synced' = n
    /\ torn' = (torn \/ ~Ends(n))
    /\ writer' = "idle"
    /\ mapped' = [r \in Readers |-> 0]
    /\ pos' = [r \in Readers |-> 0]
    /\ got' = [r \in Readers |-> <<>>]
    /\ UNCHANGED <<sizes, acked>>

-----------------------------------------------------------------------------
(***************************************************************************)
(* The iterators.                                                          *)
(***************************************************************************)

\* get_replica_log_iterator maps the file.  It notes the file's size just
\* before; if the file grows in between, the next refresh maps it once more.
Open(r) ==
  /\ mapped' = [mapped EXCEPT ![r] = Len(file)]
  /\ pos' = [pos EXCEPT ![r] = 0]
  /\ got' = [got EXCEPT ![r] = <<>>]
  /\ UNCHANGED writevars

\* refresh: the file is mapped again if it has grown.
Refresh(r) ==
  /\ Len(file) > mapped[r]
  /\ mapped' = [mapped EXCEPT ![r] = Len(file)]
  /\ UNCHANGED <<writevars, pos, got>>

\* A whole length prefix starts after position p.
Aligned(p) ==
  /\ p + LenCells <= Len(file)
  /\ SubSeq(file, p + 1, p + LenCells) = Cells(file[p + 1].rec, 1, LenCells)

\* The values the length prefix at position p may have.
LenAt(p) == IF Aligned(p) THEN {sizes[file[p + 1].rec]} ELSE 0..Len(file)

\* The cells of a length prefix and n data cells from position p on are all
\* of a record.
Whole(p, n) ==
  /\ p + LenCells + n <= Len(file)
  /\ SubSeq(file, p + 1, p + LenCells + n) = Cells(file[p + 1].rec, 1, LenCells + n)

\* Mutant: the length is trusted.
AnyLength(r, n) == TRUE

\* The map has the entry with n data cells at the iterator's position.
Fits(r, n) == pos[r] + LenCells + n <= mapped[r]

\* Mutant: the position stays behind the length prefix.
NotRewound(r) == IF Fits(r, 0) THEN pos[r] + LenCells ELSE pos[r]

\* The position next leaves when it cannot read an entry.
Rewound(r) == pos[r]

\* next: there are not enough bytes for the prefix, or for the entry after it.
NextShort(r) ==
  /\ pos[r] < mapped[r]
  /\ \E n \in LenAt(pos[r]) : ~Fits(r, n)
  /\ pos' = [pos EXCEPT ![r] = Rewound(r)]
  /\ UNCHANGED <<writevars, mapped, got>>

\* next returns a record, or fails to decode what it takes for one.
NextEntry(r) ==
  /\ Fits(r, 0)
  /\ \E n \in LenAt(pos[r]) :
       /\ Fits(r, n)
       /\ pos' = [pos EXCEPT ![r] = @ + LenCells + n]
       /\ IF Whole(pos[r], n)
            THEN got' = [got EXCEPT ![r] = Append(@, file[pos[r] + 1].rec)]
            ELSE got' \in {got, [got EXCEPT ![r] = Append(@, Bogus)]}
  /\ UNCHANGED <<writevars, mapped>>

Next ==
  \/ \E size \in 1..MaxData : AppendStart(size)
  \/ WriteLen \/ WriteData \/ WriteFails \/ Sync \/ SyncFails \/ Crash
  \/ \E r \in Readers :
       \/ Open(r) \/ Refresh(r) \/ NextShort(r) \/ NextEntry(r)

Spec == Init /\ [][Next]_vars

-----------------------------------------------------------------------------
(***************************************************************************)
(* Properties.                                                             *)
(***************************************************************************)

\* Every variable has its type, and no iterator is past its map or the file.
TypeOK ==
  /\ file \in Seq([rec : Nat, cell : Nat])
  /\ synced \in 0..Len(file)
  /\ sizes \in Seq(1..MaxData)
  /\ writer \in {"idle", "len", "data", "sync"}
  /\ acked \subseteq 1..Last
  /\ torn \in BOOLEAN
  /\ mapped \in [Readers -> Nat]
  /\ pos \in [Readers -> Nat]
  /\ got \in [Readers -> Seq(Nat \cup {Bogus})]
  /\ \A r \in Readers : mapped[r] <= Len(file) /\ pos[r] <= mapped[r]

\* The records with cells among the first n, and those r has returned.
RecordsBefore(n) == {file[i].rec : i \in 1..n}
Returned(r) == {got[r][i] : i \in 1..Len(got[r])}

\* As long as no append stopped in the middle, an iterator stands between two
\* records and has returned the records before it, each once, in the order of
\* the calls of append: also when it was opened or refreshed in the middle of an
\* append, met the half record and went on after a refresh.
IteratorsFollowLog ==
  ~torn => \A r \in Readers :
    /\ Ends(pos[r])
    /\ Returned(r) = RecordsBefore(pos[r])
    /\ \A i, j \in 1..Len(got[r]) : i < j => got[r][i] < got[r][j]

\* The cells of record k are in the file, in one piece, below n.
WrittenBelow(k, n) ==
  \E p \in 0..(n - LenCells - sizes[k]) :
    SubSeq(file, p + 1, p + LenCells + sizes[k]) = Cells(k, 1, LenCells + sizes[k])

\* A record whose append returned Ok is whole and safe from crashes, whatever
\* failed before or after it.
AckedDurable == \A k \in acked : WrittenBelow(k, synced)

\* README: "concurrent log storage with atomic appends": an append that failed
\* or was cut short leaves the records after it readable: an iterator that
\* comes to the end of its map has returned every acknowledged record in it.
AckedReadable ==
  \A r \in Readers : pos[r] = mapped[r] =>
    \A k \in acked : WrittenBelow(k, mapped[r]) =>
      \E i \in 1..Len(got[r]) : got[r][i] = k
=============================================================================
