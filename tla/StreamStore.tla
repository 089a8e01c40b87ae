----------------------------- MODULE StreamStore -----------------------------
(***************************************************************************)
(* The read-write streams of stream_manager.cpp: the table of mapped files  *)
(* that stream_manager_create fills from a directory, and the writes, which *)
(* go through the header at the start of each file.                         *)
(*                                                                          *)
(* A mapped file has two contents: the one in memory, which survives the    *)
(* end of the process, and the one on the disk, to which the system copies  *)
(* the memory page by page whenever it likes and to which a sync copies all *)
(* of it.  After a loss of power memory is what was on the disk.            *)
(*                                                                          *)
(* The items of a file all have one size; an item is the relative time that *)
(* was stored.  Bytes of data and values, which the code copies, are left   *)
(* out, and so are read-only streams, in which nobody writes.               *)
(***************************************************************************)
EXTENDS Integers, Sequences, FiniteSets

CONSTANTS Files,        \* the *.rwstream files of the directory
          Blank,        \* those just made by create_rw, which are all zeros
          Width,        \* the size of the data of one item of each file
          FileSize,     \* the size of each file
          Begin,        \* m_time_begin of a file that is not blank
          HeaderSize,   \* sizeof(stream_header_t)
          TimeSize,     \* c_relative_time_byte_count
          TimeRange,    \* 2^40, the times that fit into so many bytes
          Times,        \* the times of the items written
          MaxStreams,   \* max_streams
          Nothing,      \* an item that was never stored
          Unknown       \* an item of which a loss of power left who knows what

ASSUME StreamStoreAssumption ==
  /\ IsFiniteSet(Files) /\ Blank \subseteq Files
  /\ HeaderSize \in Nat \ {0} /\ TimeSize \in Nat \ {0} /\ TimeRange \in Nat \ {0}
  /\ Width \in [Files -> Nat]
  /\ FileSize \in Nat /\ HeaderSize <= FileSize
  /\ Begin \in Nat /\ Times \subseteq Nat
  /\ MaxStreams \in Nat \ {0}
  /\ Nothing \notin Nat /\ Unknown \notin Nat

ItemSize(f) == TimeSize + Width[f]
Capacity == FileSize - HeaderSize   \* more items than fit

Headers == [begin : Nat, size : Nat, count : Nat, end : Nat, cursor : Nat]
Contents == [header : Headers, cells : [1 .. Capacity -> Nat \cup {Nothing}]]

VARIABLES
  mode,     \* no manager, stream_manager_create scanning, or a manager
  seen,     \* the files readdir has returned
  open,     \* m_rw_streams and m_rw_stream_files: index i is stream id i - 1
  max,      \* m_max_rw_streams
  memory,   \* what the mapped files hold
  disk,     \* what a loss of power leaves
  damage,   \* a write went over a header or past the end of a file
  items,    \* history: the times of the items of each file
  flushed   \* history: items when the file was last synced

table == <<mode, seen, open, max>>
vars == <<table, memory, disk, damage, items, flushed>>

TypeOK ==
  /\ mode \in {"off", "scan", "on"}
  /\ seen \subseteq Files
  /\ open \in Seq(seen) /\ \A i, j \in DOMAIN open : open[i] = open[j] => i = j
  /\ max \in Nat \ {0} /\ Len(open) <= max
  /\ memory \in [Files -> Contents] /\ disk \in [Files -> Contents]
  /\ damage \in {"none", "data", "fixed"}
  /\ items \in [Files -> Seq(Times \cup {Unknown})]
  /\ flushed \in [Files -> Seq(Times \cup {Unknown})]

EmptyContents(f) ==
  [header |-> IF f \in Blank
              THEN [begin |-> 0, size |-> 0, count |-> 0, end |-> 0, cursor |-> 0]
              ELSE [begin |-> Begin, size |-> FileSize, count |-> 0, end |-> Begin,
                    cursor |-> HeaderSize],
   cells |-> [i \in 1 .. Capacity |-> Nothing]]

Init ==
  /\ mode = "off" /\ seen = {} /\ open = <<>> /\ max = MaxStreams
  /\ memory = [f \in Files |-> EmptyContents(f)]
  /\ disk = memory
  /\ damage = "none"
  /\ items = [f \in Files |-> <<>>] /\ flushed = items

------------------------------------------------------------------------------
(* The table of streams.                                                   *)
\* stream_manager_create, up to the scan.
Create ==
  /\ mode = "off"
  /\ mode' = "scan" /\ seen' = {} /\ open' = <<>> /\ max' = MaxStreams
  /\ UNCHANGED <<memory, disk, damage, items, flushed>>

\* Mutant: the arrays are resized when they are overfull.
ResizedLate == IF Len(open) > max THEN max * 2 ELSE max

\* stream_manager_resize_rw.
Resized == IF Len(open) >= max THEN max * 2 ELSE max


\* stream_manager_add_rw_stream, in the order of the directory.
AddRwStream(f) ==
  /\ mode = "scan" /\ f \notin seen
  /\ seen' = seen \cup {f}
  /\ max' = Resized
  /\ open' = Append(open, f)
  /\ UNCHANGED <<mode, memory, disk, damage, items, flushed>>

\* The file cannot be opened, after the arrays were resized.
SkipRwStream(f) ==
  /\ mode = "scan" /\ f \notin seen
  /\ seen' = seen \cup {f}
  /\ max' = Resized
  /\ UNCHANGED <<mode, open, memory, disk, damage, items, flushed>>

Scanned ==
  /\ mode = "scan" /\ seen = Files
  /\ mode' = "on"
  /\ UNCHANGED <<seen, open, max, memory, disk, damage, items, flushed>>

\* Mutant: the last stream is left out.
AllButLast == {open[i] : i \in 1 .. Len(open) - 1}

\* The files that flush and destroy go through.
AllOpen == {open[i] : i \in DOMAIN open}

\* sync writes the files back, whole.
Sync ==
  /\ disk' = [f \in Files |-> IF f \in AllOpen THEN memory[f] ELSE disk[f]]
  /\ flushed' = [f \in Files |-> IF \E i \in DOMAIN open : open[i] = f THEN items[f]
                                  ELSE flushed[f]]

\* stream_manager_flush.
Flush ==
  /\ mode = "on"
  /\ Sync
  /\ UNCHANGED <<table, memory, damage, items>>

\* stream_manager_destroy.
Destroy ==
  /\ mode = "on"
  /\ Sync
  /\ mode' = "off"
  /\ UNCHANGED <<seen, open, max, memory, damage, items>>

------------------------------------------------------------------------------
(* The writes.                                                             *)
\* Mutant: the time is stored as it is.
AbsoluteTime(f, time) == time % TimeRange

\* rtime, in 64 bits without sign, of which TimeSize bytes are stored.
RelativeTime(f, time) == (time - memory[f].header.begin) % TimeRange

\* Mutant: the end follows the last item.
LastTime(time, end) == time

LaterTime(time, end) == IF time > end THEN time ELSE end

\* Mutant: the cursor is moved by the size of the data.
StoredWithoutTime(f, time) ==
  LET h == memory[f].header
      n == (h.cursor - HeaderSize) \div ItemSize(f) + 1
  IN  [header |-> [h EXCEPT !.cursor = @ + Width[f], !.count = @ + 1,
                            !.end = LaterTime(time, @)],
       cells  |-> [memory[f].cells EXCEPT ![n] = RelativeTime(f, time)]]

\* The bytes at the cursor, and the header.
Stored(f, time) ==
  LET h == memory[f].header
      n == (h.cursor - HeaderSize) \div ItemSize(f) + 1
  IN  [header |-> [h EXCEPT !.cursor = @ + ItemSize(f), !.count = @ + 1,
                            !.end = LaterTime(time, @)],
       cells  |-> [memory[f].cells EXCEPT ![n] = RelativeTime(f, time)]]

\* kind says which function writes.
Write(f, time, kind) ==
  LET h == memory[f].header
  IN  IF HeaderSize <= h.cursor /\ h.cursor + ItemSize(f) <= FileSize
      THEN /\ memory' = [memory EXCEPT ![f] = Stored(f, time)]
           /\ items' = [items EXCEPT ![f] = Append(@, time)]
           /\ UNCHANGED <<table, disk, damage, flushed>>
      ELSE /\ damage' = kind
           /\ UNCHANGED <<table, memory, disk, items, flushed>>

\* Mutant: the size of the time is forgotten.
DataFitsWithoutTime(f) ==
  memory[f].header.cursor + Width[f] <= memory[f].header.size

HasSpace(f) == memory[f].header.cursor + ItemSize(f) <= memory[f].header.size

\* stream_write_data returns false when there is not enough space.
WriteData(f, time) ==
  /\ mode = "on"
  /\ HasSpace(f)
  /\ Write(f, time, "data")

\* stream_write_u8, _u16, _u32 and _f32 differ in the size of the value only.
WriteFixed(f, time) ==
  /\ mode = "on"
  /\ Write(f, time, "fixed")

------------------------------------------------------------------------------
(* What else happens to mapped files.                                      *)
\* The system writes back a page: the header, or some of the items.
WriteBack(f) ==
  /\ \/ disk' = [disk EXCEPT ![f].header = memory[f].header]
     \/ \E i \in 1 .. Capacity :
          disk' = [disk EXCEPT ![f].cells[i] = memory[f].cells[i]]
  /\ UNCHANGED <<table, memory, damage, items, flushed>>

\* The process ends without stream_manager_destroy.
Exit ==
  /\ mode # "off"
  /\ mode' = "off"
  /\ UNCHANGED <<seen, open, max, memory, disk, damage, items, flushed>>

Surviving(f) ==
  [i \in 1 .. disk[f].header.count |->
     IF i <= Len(flushed[f]) THEN flushed[f][i] ELSE Unknown]

PowerLoss ==
  /\ mode' = "off"
  /\ memory' = disk
  /\ items' = [f \in Files |-> Surviving(f)]
  /\ UNCHANGED <<seen, open, max, disk, damage, flushed>>

Next ==
  /\ damage = "none"
  /\ \/ Create \/ Scanned \/ Flush \/ Destroy
     \/ \E f \in Files : AddRwStream(f) \/ SkipRwStream(f) \/ WriteBack(f)
     \/ \E i \in DOMAIN open, time \in Times :
          WriteData(open[i], time) \/ WriteFixed(open[i], time)
     \/ Exit \/ PowerLoss

Spec == Init /\ [][Next]_vars

------------------------------------------------------------------------------
(* Properties.                                                             *)
InRange(f, time) ==
  LET begin == memory[f].header.begin IN begin <= time /\ time < begin + TimeRange

\* The header of a file that has one counts the items written into it and
\* points behind the last of them, in memory and on the disk, whatever was
\* written back when the power failed.
HeadersAgree ==
  /\ TypeOK
  /\ \A f \in Files \ Blank :
       /\ memory[f].header.count = Len(items[f])
       /\ \A c \in {memory[f], disk[f]} :
            c.header.cursor = HeaderSize + c.header.count * ItemSize(f)

\* Items that were flushed are still there after a loss of power, and the
\* header on the disk counts them.
FlushedItemsSurvive ==
  \A f \in Files :
    /\ disk[f].header.count >= Len(flushed[f])
    /\ \A i \in DOMAIN flushed[f] :
         flushed[f][i] # Unknown => disk[f].cells[i] = RelativeTime(f, flushed[f][i])

\* The time of an item can be computed from what is stored, if it is neither
\* before the begin of the stream nor too far behind it, also when the items
\* come in any order; the end of the stream is not before it.
TimesReadBack ==
  \A f \in Files : \A i \in DOMAIN items[f] :
    items[f][i] # Unknown =>
      /\ InRange(f, items[f][i]) =>
           memory[f].header.begin + memory[f].cells[i] = items[f][i]
      /\ items[f][i] <= memory[f].header.end

\* The writes that check for space never touch a header or what is behind a
\* file, not even in a file that is all zeros.
CheckedWritesStayInside == damage # "data"

\* "Write to the stream, returns false if failed": no function writes past the
\* end of the file or, where there is no header yet, over its place.
FullStreamsRefuse == damage = "none"

==============================================================================
