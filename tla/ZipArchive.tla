----------------------------- MODULE ZipArchive -----------------------------
(***************************************************************************)
(* zip_writer and zip_reader (include/ten/zip.hh) over the archives of     *)
(* include/ten/bits/miniz.c.  An archive is a sequence of cells: a byte, a *)
(* local header, an entry of the central directory with its name, half of  *)
(* the signature of the end record, the end record.  Offsets count from 0, *)
(* as in the code.  A call is one step.  Whatever it does that may fail,   *)
(* an allocation or a read or a write of a file, it does in the code's     *)
(* order, and fuse says which of them will: fuse[1] of them succeed, the   *)
(* next one fails, then fuse[2] succeed, and so on.                        *)
(***************************************************************************)
EXTENDS Integers, Sequences, SequencesExt

CONSTANTS Inputs,      \* what is added: records of a name, the data and a level
          Backends,    \* subset of {"heap", "file"}
          Reserves, Alignments, Fuses,
          Cut,         \* the cells that a failing write to a file still writes
          MaxOps,      \* bound: the calls of a behaviour
          MaxEntries,  \* bound: the entries of an archive
          MaxFiles, MaxSize,   \* 0xFFFF and 0xFFFFFFFF
          MinCap,              \* 64: the least allocation of a heap archive
          Window,              \* 4096: sizeof(buf_u32), and of the buffer of zeros
          MaxTail,             \* 0xFFFF: how far from its end an archive is searched
          IoBuf,               \* MZ_ZIP_MAX_IO_BUF_SIZE
          StoreLimit           \* 3: data of so few bytes is stored

VARIABLES zip,     \* the mz_zip_archive, and the bytes it is of
          source,  \* the reader that entries are copied from
          added,   \* history: the name and the data of every entry added
          ops      \* the calls so far

vars == <<zip, source, added, ops>>

Byte(n) == <<"byte", n>>
Zeros(n) == [i \in 1..n |-> Byte(0)]
Sig == << <<"sig", 1>>, <<"sig", 2>> >>
EndSize == Len(Sig) + 1
Slash == 47
Least(i, j) == IF i < j THEN i ELSE j
Most(i, j) == IF i > j THEN i ELSE j
At(m, ofs, n) == SubSeq(m, ofs + 1, ofs + n)
Cells(name) == [i \in DOMAIN name |-> Byte(name[i])]

(* mz_crc32 is a digest of the data.  What tdefl makes of data, and tinfl  *)
(* makes data of, is two cells that know what they came from.              *)
Crc(data) == FoldLeft(LAMBDA h, c : (3 * h + c[2]) % 251, Len(data), data)
Deflated(data) == << <<"deflated", 1, data>>, <<"deflated", 2, data>> >>
Inflated(cells) ==
  IF Len(cells) = 2 /\ cells[1][1] = "deflated" /\ cells[2] = <<"deflated", 2, cells[1][3]>>
  THEN [ok |-> TRUE, data |-> cells[1][3]] ELSE [ok |-> FALSE, data |-> <<>>]

Closed == [mode |-> "invalid", backend |-> "heap", mem |-> <<>>, cap |-> 0, size |-> 0,
           total |-> 0, cdofs |-> 0, dir |-> <<>>, sorted |-> <<>>, align |-> 0,
           sealed |-> FALSE, tail |-> 0, fuse |-> <<>>, ok |-> TRUE]

Init == /\ \E f \in Fuses : zip = [Closed EXCEPT !.fuse = f]
        /\ source = Closed /\ added = <<>> /\ ops = 0

-----------------------------------------------------------------------------
(* What may fail, and what writes.  A call that has failed does no more.   *)
Fail(z) == [z EXCEPT !.ok = FALSE]

Try(z) == IF ~z.ok \/ z.fuse = <<>> THEN z
          ELSE IF z.fuse[1] = 0 THEN [z EXCEPT !.fuse = Tail(@), !.ok = FALSE]
          ELSE [z EXCEPT !.fuse[1] = @ - 1]

TryIf(c, z) == IF c THEN Try(z) ELSE z
Then(z, F(_)) == IF z.ok THEN F(z) ELSE z
OrClose(z) == IF z.ok THEN z ELSE [z EXCEPT !.mode = "invalid"]

Put(m, ofs, cells) ==
  [i \in 1..Most(Len(m), ofs + Len(cells)) |->
     IF i \in ofs + 1..ofs + Len(cells) THEN cells[i - ofs]
     ELSE IF i <= Len(m) THEN m[i] ELSE Byte(0)]

heap_write(z, ofs, cells) ==
  LET need == Most(ofs + Len(cells), Len(z.mem))
      least == Most(MinCap, z.cap)
      cap == least * 2 ^ (CHOOSE k \in 0..need : /\ least * 2 ^ k >= need
                                                 /\ k = 0 \/ least * 2 ^ (k - 1) < need)
  IN Then(TryIf(need > z.cap, z),
          LAMBDA t : [t EXCEPT !.cap = IF need > @ THEN cap ELSE @,
                               !.mem = Put(@, ofs, cells)])

Fwrite(z, ofs, cells) ==
  [z EXCEPT !.mem = Put(@, ofs, IF z.ok THEN cells
                                ELSE SubSeq(cells, 1, Least(Cut, Len(cells) - 1)))]

file_write(z, ofs, cells) == Fwrite(Try(z), ofs, cells)

Write(z, ofs, cells) == IF ~z.ok \/ cells = <<>> THEN z
                        ELSE IF z.backend = "heap" THEN heap_write(z, ofs, cells)
                        ELSE file_write(z, ofs, cells)

(* Writes in pieces of at most n cells; each is read first, if read.       *)
Pieces(z, ofs, cells, n, read) ==
  FoldLeft(LAMBDA t, k : Write(IF read THEN Try(t) ELSE t, ofs + k * n,
                               At(cells, k * n, Least(n, Len(cells) - k * n))),
           z, [k \in 1..(Len(cells) + n - 1) \div n |-> k - 1])

write_zeros(z, ofs, n) == Pieces(z, ofs, Zeros(n), Window, FALSE)

-----------------------------------------------------------------------------
(* The writer.                                                             *)

writer_init(z, reserve) ==
  IF z.mode # "invalid" THEN Fail(z)
  ELSE Try([z EXCEPT !.mode = "writing", !.size = reserve, !.cdofs = 0, !.total = 0,
                     !.dir = <<>>, !.sorted = <<>>])

writer_end(z) ==
  IF z.mode \notin {"writing", "finalized"} THEN Fail(z)
  ELSE [z EXCEPT !.mode = "invalid",
                 !.mem = IF z.backend = "heap" /\ z.mode = "writing" THEN <<>> ELSE @]

writer_init_heap(z, reserve) ==
  OrClose(Then(TryIf(reserve > 0, writer_init([z EXCEPT !.backend = "heap", !.mem = <<>>,
                                                       !.cap = 0, !.sealed = FALSE], reserve)),
               LAMBDA t : [t EXCEPT !.cap = reserve]))

writer_init_file(z, reserve) ==
  OrClose(Then(Try(writer_init([z EXCEPT !.backend = "file"], reserve)),  \* fopen
               LAMBDA t : write_zeros([t EXCEPT !.mem = <<>>, !.sealed = FALSE], 0, reserve)))

writer_init_from_reader(z) ==
  IF \/ z.mode # "reading"
     \/ z.total = MaxFiles
     \/ z.size + 2 > MaxSize
  THEN Fail(z)
  ELSE OrClose(Then(IF z.backend = "file" THEN Try(z) ELSE [z EXCEPT !.cap = Len(z.mem)],
                    LAMBDA t : [t EXCEPT !.size = z.cdofs, !.mode = "writing", !.cdofs = 0,
                                         !.sealed = FALSE]))

validate_archive_name(name) ==
  /\ name # <<>> => Head(name) # Slash
  /\ \A i \in DOMAIN name : name[i] \notin {92, 58}

padding(z) == IF z.align = 0 THEN 0 ELSE (z.align - (z.size % z.align)) % z.align

add_to_central_dir(z, e) ==
  IF ~z.ok THEN z
  ELSE IF e.ofs > MaxSize \/ Len(z.dir) + 1 > MaxSize THEN Fail(z)
  ELSE [z EXCEPT !.dir = Append(@, e)]

NoRoom(z, name) == z.total = MaxFiles \/ z.size + padding(z) + 2 + Len(name) > MaxSize

IsDir(name) == name # <<>> /\ Last(name) = Slash

Counted(z, end) == [z EXCEPT !.total = @ + 1, !.size = end]


(* What both ways to add end with: the local header goes where zeros were  *)
(* left for it, and the entry into the central directory.                  *)
Enter(z, e, end, grow) ==
  Then(add_to_central_dir(
         TryIf(grow, IF z.ok /\ end > MaxSize THEN Fail(z)
                     ELSE Write(z, e.ofs, << <<"local", Len(e.name)>> >>)), e),
       LAMBDA t : Counted(t, end))

add_mem_ex(z, name, data, level) ==
  LET raw == level = "raw"  \* MZ_ZIP_FLAG_COMPRESSED_DATA
      buf == IF raw THEN Deflated(data) ELSE data
      small == Len(data) <= StoreLimit
      pay == IF level = "deflate" /\ ~small THEN Deflated(data) ELSE buf
      ofs == z.size + padding(z)
      start == ofs + 1 + Len(name)
      e == [name |-> name, method |-> IF pay # data \/ raw THEN 8 ELSE 0, crc |-> Crc(data),
            csize |-> Len(pay), usize |-> Len(data), ofs |-> ofs, isdir |-> IsDir(name)]
      comp == TryIf(level = "deflate" /\ buf # <<>>, Try(Try(z)))
      named == Write(write_zeros(comp, z.size, padding(z) + 1), ofs + 1, Cells(name))
      piece == IF pay = buf THEN Len(pay) + 1 ELSE IoBuf
  IN IF \/ z.mode # "writing"
        \/ ~validate_archive_name(name)
        \/ NoRoom(z, name)
        \/ IsDir(name) /\ buf # <<>>
     THEN Fail(z)
     ELSE Enter(Pieces(named, start, pay, piece, FALSE), e, start + Len(pay), FALSE)

(* The file is read in pieces; its size is asked for before, and a read    *)
(* that comes short fails.                                                 *)
add_file(z, name, data, level) ==
  LET small == Len(data) <= StoreLimit
      pay == IF level = "deflate" /\ ~small THEN Deflated(data) ELSE data
      ofs == z.size + padding(z)
      start == ofs + 1 + Len(name)
      e == [name |-> name, method |-> IF pay # data THEN 8 ELSE 0, crc |-> Crc(data),
            csize |-> Len(pay), usize |-> Len(data), ofs |-> ofs, isdir |-> FALSE]
      open == Try(Try(z))  \* stat, fopen
      named == Write(write_zeros(open, z.size, padding(z) + 1), ofs + 1, Cells(name))
      bufs == TryIf(pay # data, TryIf(data # <<>>, named))
  IN IF \/ z.mode # "writing"
        \/ level = "raw"
        \/ ~validate_archive_name(name)
        \/ NoRoom(z, name)
     THEN Fail(z)
     ELSE Enter(Pieces(bufs, start, pay, IoBuf, TRUE), e, start + Len(pay), TRUE)

(* An entry of another archive: its header, its name and its data are      *)
(* copied as they are.  (Entries with a data descriptor after the data are *)
(* not made by this writer.)                                               *)
add_from_zip_reader(z, src, i) ==
  LET e == src.dir[i]
      ofs == z.size + padding(z)
      n == src.mem[e.ofs + 1][2] + e.csize
      head == Write(write_zeros(Try(z), z.size, padding(z)), ofs, At(src.mem, e.ofs, 1))
      copied == Pieces(Try(head), ofs + 1, At(src.mem, e.ofs + 1, n), IoBuf, TRUE)
      end == ofs + 1 + n
      Fits(t) == IF end > MaxSize THEN Fail(t) ELSE t
  IN IF \/ z.mode # "writing"
        \/ z.total = MaxFiles
        \/ z.size + padding(z) + 2 > MaxSize
        \/ src.mem[e.ofs + 1][1] # "local"
     THEN Fail(z)
     ELSE Then(add_to_central_dir(Try(Fits(copied)), [e EXCEPT !.ofs = ofs]),
               LAMBDA t : Counted(t, end))

finalize_archive(z) ==
  LET n == Len(z.dir)
      some == z.total > 0
      rec == <<"end", z.total, IF some THEN n ELSE 0, IF some THEN z.size ELSE 0>>
      dir == Write([z EXCEPT !.cdofs = IF some THEN z.size ELSE @], z.size,
                   [i \in 1..n |-> <<"central", z.dir[i]>>])
      AddEnd(t) == LET at == z.size + (IF some THEN n ELSE 0)
                   IN Write([t EXCEPT !.size = at], at, Append(Sig, rec))
      Seal(t) == [t EXCEPT !.size = @ + EndSize, !.mode = "finalized", !.sealed = TRUE,
                           !.tail = Len(t.mem) - (t.size + EndSize)]
  IN IF z.mode # "writing" \/ z.total > MaxFiles \/ z.size + n + EndSize > MaxSize THEN Fail(z)
     ELSE Then(TryIf(z.backend = "file", Then(dir, AddEnd)), Seal)  \* fflush

-----------------------------------------------------------------------------
(* The reader.                                                             *)

Lower(c) == IF c \in 65..90 THEN c + 32 ELSE c

(* filename_compare: negative, 0 or positive, whatever the case of letters *)
Compare(l, r) ==
  LET n == Least(Len(l), Len(r))
      differ == {i \in 1..n : Lower(l[i]) # Lower(r[i])}
      i == CHOOSE k \in differ : \A j \in differ : k <= j
  IN IF differ = {} THEN Len(l) - Len(r) ELSE Lower(l[i]) - Lower(r[i])

filename_less(dir, l, r) == Compare(dir[l].name, dir[r].name) < 0

RECURSIVE SiftDown(_, _, _, _)
SiftDown(dir, ix, root, size) ==  \* root counts from 0
  LET left == 2 * root + 1
      child == IF left + 1 < size /\ filename_less(dir, ix[left + 1], ix[left + 2])
               THEN left + 1 ELSE left
  IN IF left >= size \/ ~filename_less(dir, ix[root + 1], ix[child + 1]) THEN ix
     ELSE SiftDown(dir, [ix EXCEPT ![root + 1] = ix[child + 1], ![child + 1] = ix[root + 1]],
                   child, size)

(* Heap sort of the indices by the names in lower case.                    *)
Sorted(dir) ==
  LET n == Len(dir)
      heap == FoldLeft(LAMBDA ix, k : SiftDown(dir, ix, k, n), [i \in 1..n |-> i],
                       [k \in 1..n \div 2 |-> n \div 2 - k])
      Take(ix, end) ==
        SiftDown(dir, [ix EXCEPT ![end + 1] = ix[1], ![1] = ix[end + 1]], 0, end)
  IN FoldLeft(Take, heap, [k \in 1..Most(n - 1, 0) |-> n - k])

(* The last signature of an end record, or -1.  Where the window would     *)
(* start before the archive the code subtracts unsigned numbers, and the   *)
(* read at the huge offset it gets fails.                                  *)
RECURSIVE FindEnd(_, _)
FindEnd(m, ofs) ==
  LET n == Least(Window, Len(m) - ofs)
      found == {i \in 0..n - Len(Sig) : At(m, ofs + i, Len(Sig)) = Sig}
      back == Window - (Len(Sig) - 1)
  IN IF found # {} THEN ofs + CHOOSE i \in found : \A j \in found : j <= i
     ELSE IF ofs = 0 \/ Len(m) - ofs >= MaxTail + EndSize \/ ofs < back THEN -1
     ELSE FindEnd(m, ofs - back)

(* That a stored entry has one size is not among the tests: the code reads *)
(* the entry's time along with its method when it looks for a stored one.  *)
GoodEntry(m, cell) ==
  /\ cell[1] = "central"
  /\ cell[2].usize > 0 => cell[2].csize > 0
  /\ cell[2].ofs + 1 + cell[2].csize <= Len(m)

ReadDir(z, rec, sort) ==  \* rec: total, size and offset of the directory
  LET dir == At(z.mem, rec[4], rec[3])
  IN IF rec[1] # "end" \/ rec[3] < rec[2] \/ rec[4] + rec[3] > Len(z.mem) THEN Fail(z)
     ELSE IF \E i \in DOMAIN dir : ~GoodEntry(z.mem, dir[i]) THEN Fail(z)
     ELSE Then(TryIf(rec[2] > 0, [z EXCEPT !.total = rec[2], !.cdofs = rec[4],
                                           !.dir = [i \in DOMAIN dir |-> dir[i][2]]]),
               LAMBDA t : IF sort THEN [t EXCEPT !.sorted = Sorted(t.dir)] ELSE t)

ReadEnd(z, at, sort) ==
  IF at = -1 \/ at + EndSize > Len(z.mem) THEN Fail(z) ELSE ReadDir(z, z.mem[at + EndSize], sort)

read_central_dir(z, sort) ==
  IF Len(z.mem) < EndSize THEN Fail(z)
  ELSE ReadEnd(z, FindEnd(z.mem, Most(Len(z.mem) - Window, 0)), sort)

reader_end(z) == IF z.mode = "reading" THEN [z EXCEPT !.mode = "invalid"] ELSE Fail(z)

(* reader_init_mem and reader_init_file: the latter opens the file first.  *)
reader_init(z, sort) ==
  LET Read(t) == OrClose(read_central_dir(
                   [t EXCEPT !.mode = "reading", !.size = Len(z.mem), !.cdofs = 0,
                             !.total = 0, !.dir = <<>>, !.sorted = <<>>], sort))
  IN IF z.mode # "invalid" THEN Fail(z) ELSE Then(Try(TryIf(z.backend = "file", z)), Read)

RECURSIVE BinarySearch(_, _, _, _)
BinarySearch(z, name, l, h) ==
  LET m == (l + h) \div 2
      i == z.sorted[m + 1]
      c == Compare(z.dir[i].name, name)
  IN IF l > h THEN 0 ELSE IF c = 0 THEN i
     ELSE IF c < 0 THEN BinarySearch(z, name, m + 1, h)
     ELSE BinarySearch(z, name, l, m - 1)

(* The name after its last '/', '\\' or ':'.                               *)
WithoutPath(name) ==
  LET cuts == {i \in DOMAIN name : name[i] \in {Slash, 92, 58}}
  IN IF cuts = {} THEN name
     ELSE SubSeq(name, (CHOOSE i \in cuts : \A j \in cuts : j <= i) + 1, Len(name))

string_equal(l, r, flags) == IF "case" \in flags THEN l = r ELSE Compare(l, r) = 0

(* The index of an entry, or 0 where the code returns -1.                  *)
locate_file(z, name, flags) ==
  LET Is(e) == string_equal(name, IF "path" \in flags THEN WithoutPath(e.name) ELSE e.name, flags)
      found == {i \in 1..z.total : Is(z.dir[i])}
  IN IF flags = {} /\ z.sorted # <<>> THEN BinarySearch(z, name, 0, z.total - 1)
     ELSE IF found = {} THEN 0 ELSE CHOOSE i \in found : \A j \in found : i <= j

(* Where the data of an entry starts, or -1: the name's length is that of  *)
(* the local header.                                                       *)
DataOfs(z, e) ==
  LET ofs == e.ofs + 1 + z.mem[e.ofs + 1][2]
  IN IF z.mem[e.ofs + 1][1] # "local" THEN -1
     ELSE IF ofs + e.csize > Len(z.mem) THEN -1 ELSE ofs

Nothing == [ok |-> FALSE, data |-> <<>>]

Verified(e, data) == [ok |-> Len(data) = e.usize /\ Crc(data) = e.crc, data |-> data]

Unpacked(e, r) == IF r.ok THEN Verified(e, r.data) ELSE r

extract_to_mem(z, i) ==
  LET e == z.dir[i]
      ofs == DataOfs(z, e)
      cells == At(z.mem, ofs, e.csize)
  IN IF e.csize = 0 \/ IsDir(e.name) \/ e.isdir THEN [ok |-> TRUE, data |-> Zeros(e.usize)]
     ELSE IF ofs = -1 THEN Nothing
     ELSE IF e.method = 0 THEN Verified(e, cells)
     ELSE Unpacked(e, Inflated(cells))

(* The same, handed over piece by piece; a file is read by IoBuf cells.    *)
extract_to_callback(z, i) ==
  LET e == z.dir[i]
      ofs == DataOfs(z, e)
      n == IF z.backend = "heap" THEN Most(e.csize, 1) ELSE Least(e.csize, IoBuf)
      cells == FoldLeft(LAMBDA out, k : out \o At(z.mem, ofs + k * n, Least(n, e.csize - k * n)),
                        <<>>, [k \in 1..(e.csize + n - 1) \div n |-> k - 1])
  IN IF e.csize = 0 \/ IsDir(e.name) \/ e.isdir THEN [ok |-> TRUE, data |-> <<>>]
     ELSE IF ofs = -1 THEN Nothing
     ELSE IF e.method = 0 THEN Verified(e, cells)
     ELSE Unpacked(e, Inflated(cells))

(* zip_reader::extract, of an index that locate_file returned; and what    *)
(* opens an archive just to extract one entry.                             *)
extract(z, i) == IF i \notin 1..z.total THEN Nothing ELSE extract_to_mem(z, i)

ExtractFrom(r, name) == IF r.ok THEN extract(r, locate_file(r, name, {})) ELSE Nothing

extract_archive_file_to_heap(z, name) == ExtractFrom(reader_init(z, FALSE), name)

-----------------------------------------------------------------------------
(* The calls.                                                              *)

Ready(z) == [z EXCEPT !.ok = TRUE]

NewWriter ==
  /\ zip.mode = "invalid"
  /\ \E b \in Backends, r \in Reserves, al \in Alignments :
       LET z == [Ready(zip) EXCEPT !.align = al]
       IN zip' = IF b = "heap" THEN writer_init_heap(z, r) ELSE writer_init_file(z, r)
  /\ added' = IF zip'.sealed THEN added ELSE <<>>
  /\ UNCHANGED source

Note(z, in) == IF z.ok THEN Append(added, [name |-> in.name, data |-> in.data]) ELSE added

AddMem(in) ==
  /\ zip.mode = "writing" /\ Len(added) < MaxEntries
  /\ zip' = add_mem_ex(Ready(zip), in.name, in.data, in.level)
  /\ added' = Note(zip', in)
  /\ UNCHANGED source

AddFile(in) ==
  /\ zip.mode = "writing" /\ Len(added) < MaxEntries
  /\ ~IsDir(in.name)
  /\ zip' = add_file(Ready(zip), in.name, in.data, in.level)
  /\ added' = Note(zip', in)
  /\ UNCHANGED source

AddFromReader(i) ==
  /\ zip.mode = "writing" /\ Len(added) < MaxEntries
  /\ i \in 1..source.total
  /\ zip' = add_from_zip_reader(Ready(zip), source, i)
  /\ added' = IF zip'.ok THEN Append(added, [name |-> source.dir[i].name,
                                             data |-> extract_to_mem(source, i).data])
              ELSE added
  /\ UNCHANGED source

Finalize ==
  /\ zip.mode = "writing"
  /\ zip' = finalize_archive(Ready(zip))
  /\ UNCHANGED <<source, added>>

EndWriter ==
  /\ zip.mode \in {"writing", "finalized"}
  /\ zip' = writer_end(Ready(zip))
  /\ UNCHANGED <<source, added>>

OpenReader ==
  /\ zip.mode = "invalid" /\ zip.mem # <<>>
  /\ \E sort \in BOOLEAN : zip' = reader_init([Ready(zip) EXCEPT !.align = 0], sort)
  /\ UNCHANGED <<source, added>>

EndReader ==
  /\ zip.mode = "reading"
  /\ zip' = reader_end(Ready(zip))
  /\ UNCHANGED <<source, added>>

InitFromReader ==
  /\ zip.mode = "reading" /\ zip.sealed
  /\ zip' = writer_init_from_reader(Ready(zip))
  /\ UNCHANGED <<source, added>>

(* The archive that is read becomes the one to copy from.                  *)
KeepAsSource ==
  /\ zip.mode = "reading" /\ zip.sealed
  /\ source' = [zip EXCEPT !.fuse = <<>>]
  /\ zip' = [Closed EXCEPT !.fuse = zip.fuse]
  /\ added' = <<>>

(* add_mem_to_archive_file_in_place: the archive is finalized even if the  *)
(* entry could not be added, and a new one is deleted then.                *)
InPlaceEnd(in, new, put, fin) ==
  LET good == put.ok /\ fin.ok
      end == writer_end(Ready(fin))
  IN /\ zip' = IF new /\ ~good THEN [end EXCEPT !.mem = <<>>, !.sealed = FALSE, !.ok = FALSE]
               ELSE [end EXCEPT !.ok = good]
     /\ added' = IF ~new THEN Note(put, in)
                 ELSE IF good THEN <<[name |-> in.name, data |-> in.data]>> ELSE <<>>

InPlacePut(in, new, put) == InPlaceEnd(in, new, put, finalize_archive(Ready(put)))

InPlaceOpen(in, new, open) ==
  IF open.ok THEN InPlacePut(in, new, add_mem_ex(open, in.name, in.data, in.level))
  ELSE zip' = [open EXCEPT !.mode = "invalid"] /\ added' = IF new THEN <<>> ELSE added

AddInPlace(in) ==
  LET new == zip.mem = <<>>
      z == [Ready(zip) EXCEPT !.backend = "file", !.align = 0]
  IN /\ zip.mode = "invalid" /\ Len(added) < MaxEntries /\ "file" \in Backends
     /\ zip.backend = "file" \/ new
     /\ validate_archive_name(in.name)
     /\ InPlaceOpen(in, new, IF new THEN writer_init_file(z, 0)
                             ELSE Then(reader_init(z, FALSE), writer_init_from_reader))
     /\ UNCHANGED source

Next == /\ ops < MaxOps /\ ops' = ops + 1
        /\ \/ NewWriter \/ Finalize \/ EndWriter
           \/ OpenReader \/ EndReader \/ InitFromReader \/ KeepAsSource
           \/ \E in \in Inputs : AddMem(in) \/ AddFile(in) \/ AddInPlace(in)
           \/ \E i \in 1..MaxEntries : AddFromReader(i)

Spec == Init /\ [][Next]_vars

-----------------------------------------------------------------------------
(* Properties.                                                             *)

(* What is behind the end record, of a call that failed, is less than a    *)
(* window.                                                                 *)
ShortTail == zip.tail + EndSize <= Window

Shut == [zip EXCEPT !.mode = "invalid", !.fuse = <<>>, !.ok = TRUE]
Opened == reader_init(Shut, TRUE)

HoldsAdded(r) ==
  /\ r.ok /\ r.total = Len(added)
  /\ \A i \in 1..r.total :
       /\ r.dir[i].name = added[i].name
       /\ extract(r, i) = [ok |-> TRUE, data |-> added[i].data]
       /\ extract_to_callback(r, i) = extract_to_mem(r, i)
       /\ zip.align > 0 => r.dir[i].ofs % zip.align = 0

Finds(r, in) ==
  LET i == locate_file(r, in.name, {})
      same == {j \in DOMAIN added : Compare(added[j].name, in.name) = 0}
      first == CHOOSE j \in same : \A k \in same : j <= k
      found == extract_archive_file_to_heap(Shut, in.name)
  IN IF same = {} THEN i = 0 /\ found = Nothing
     ELSE i \in same /\ found = [ok |-> TRUE, data |-> added[first].data]

(* Whatever failed before, a finalized archive opens, and holds the        *)
(* entries that were added, in the order they were, with their data; the   *)
(* reader that extracts into memory and the one that hands over pieces     *)
(* agree.                                                                  *)
ReadsBack == zip.sealed /\ ShortTail => HoldsAdded(Opened)

(* Sorting and binary search find what a walk over the entries finds: an   *)
(* entry of the name, in any case, if there is one; the walk finds the     *)
(* first of them, and what is extracted is its data.                       *)
FindsByName == zip.sealed /\ ShortTail => \A in \in Inputs : Finds(Opened, in)
=============================================================================
