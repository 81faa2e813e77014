------------------------------ MODULE RvdFiles ------------------------------
(***************************************************************************)
(* Blocks of memory and files (utils.c, srec.c and the commands fill,      *)
(* read, upload and download of rvd).  A straight binary file is a         *)
(* sequence of bytes; an S-record file is a sequence of records, of which  *)
(* reading only looks at the data records.  The file system never fails.   *)
(***************************************************************************)
EXTENDS RvdEval

CONSTANTS
  PageSize,       \* largest block of a bulk access (RVSRV_PAGE_SIZE)
  RecordMax       \* data bytes that one record is given (16)

(* A block is accessed in pieces that lie within one page.  A bus fault     *)
(* spoils its piece only.                                                   *)

iterPageInit(a, n) == [address |-> a, remain |-> n, numBytes |-> 0]
iterPage(i) ==
  LET remain == i.remain - i.numBytes
      address == (i.address + i.numBytes) % Word
      startOffs == address % PageSize
      stopOffs == IF startOffs + remain > PageSize THEN PageSize ELSE startOffs + remain
  IN [address |-> address, remain |-> remain, numBytes |-> stopOffs - startOffs]

FaultCode == <<0, 1, 2, 3>>             \* of a bus fault, some word
FaultBytes(n) == [i \in 1 .. n |-> FaultCode[((i - 1) % 4) + 1]]

\* One command to rvsrv for the bytes d, and its reply: OK, Fault, or none when
\* the connection is lost.
executeReadWrite(w, op, a, d) ==
  IF w.left = 0 THEN [r |-> -1, w |-> w]
  ELSE [r |-> Bool(Mapped(a, Len(d))),
        w |-> [w EXCEPT !.log = @ \o [i \in DOMAIN d |-> [op |-> op, a |-> a + i - 1, n |-> d[i], s |-> 1]],
                        !.left = @ - 1]]

rvsrv_readBulk(w, a, n) ==
  LET x == executeReadWrite(w, "read", a, [i \in 1 .. n |-> 0])
  IN [r |-> x.r, w |-> x.w,
      d |-> IF x.r = 1 THEN [i \in 1 .. n |-> w.mem[a + i - 1]] ELSE FaultBytes(n)]

Stored(m, a, d) == [b \in DOMAIN m |-> IF b - a + 1 \in DOMAIN d THEN d[b - a + 1] ELSE m[b]]
rvsrv_writeBulk(w, a, d) ==
  LET x == executeReadWrite(w, "write", a, d)
  IN IF x.r = 1 THEN [x EXCEPT !.w.mem = Stored(@, a, d)] ELSE x

RECURSIVE Fill(_, _, _)
Fill(i0, v, w) ==
  LET i == iterPage(i0)
      x == rvsrv_writeBulk(w, i.address, [k \in 1 .. i.numBytes |-> v])
  IN IF i.numBytes = 0 THEN [r |-> 1, w |-> w]
     ELSE IF x.r = -1 THEN x ELSE Fill(i, v, x.w)

-----------------------------------------------------------------------------
(* S-records: [k, a, d], k = 1 for data and 0 for any other record.         *)

Record(k, a, d) == [k |-> k, a |-> a, d |-> d]

\* srecWrite in a loop: as many records as the bytes of a page need.
RECURSIVE srecWrite(_, _)
srecWrite(a, d) ==
  LET n == IF Len(d) > RecordMax THEN RecordMax ELSE Len(d)
  IN IF d = <<>> THEN <<>>
     ELSE <<Record(1, a, SubSeq(d, 1, n))>> \o srecWrite((a + n) % Word, SubSeq(d, n + 1, Len(d)))

srecReadInit == [state |-> "record", line |-> 1, offs |-> 0, address |-> 0, isEof |-> FALSE]

\* Seeded fault: records are taken to be contiguous.
IgnoresJump(s, address) == FALSE

\* The reader stops where the file goes on at another address than asked for.
Jumps(s, address) == s.state = "data" /\ address # s.address
RECURSIVE srecRead(_, _, _, _)
srecRead(file, s, remain, address) ==
  CASE remain = 0 \/ Jumps(s, address) -> [d |-> <<>>, s |-> s]
    [] s.state = "data" ->
         LET last == s.offs + 1 = Len(file[s.line].d)
             x == srecRead(file, [s EXCEPT !.offs = @ + 1, !.address = (@ + 1) % Word,
                                           !.state = IF last THEN "eol" ELSE @],
                           remain - 1, (address + 1) % Word)
         IN [x EXCEPT !.d = <<file[s.line].d[s.offs + 1]>> \o @]
    [] s.state = "eol" ->
         srecRead(file, [s EXCEPT !.line = @ + 1, !.state = "record"], remain, address)
    [] s.state = "record" /\ s.line > Len(file) ->
         [d |-> <<>>, s |-> [s EXCEPT !.isEof = TRUE]]
    [] s.state = "record" /\ s.line <= Len(file) ->
         srecRead(file, IF file[s.line].k = 1
                        THEN [s EXCEPT !.state = "data", !.address = file[s.line].a, !.offs = 0]
                        ELSE [s EXCEPT !.state = "eol"], remain, address)

\* Fills the page buffer.  The address asked for stays that of the page.
RECURSIVE FillBuffer(_, _, _, _)
FillBuffer(file, s, remain, address) ==
  LET x == srecRead(file, s, remain, address)
      y == FillBuffer(file, x.s, remain - Len(x.d), address)
  IN IF remain = 0 \/ x.d = <<>> THEN x ELSE [y EXCEPT !.d = x.d \o @]

\* The straight reader only keeps its place in the file, in s.offs.
ReadStraight(file, s, remain) ==
  LET d == SubSeq(file, s.offs + 1, s.offs + remain)
  IN [d |-> IF s.offs + remain > Len(file) THEN SubSeq(file, s.offs + 1, Len(file)) ELSE d,
      s |-> [s EXCEPT !.offs = @ + remain, !.isEof = s.offs + remain > Len(file)]]

\* The loop over pages goes on until the end of the file sets remain to what
\* was just written.  An S-record file says where it goes on.
RECURSIVE UploadPages(_, _, _, _, _, _)
UploadPages(ft, file, base, i0, s, w) ==
  LET i == iterPage(i0)
      x == IF ft = "srec" THEN FillBuffer(file, s, i.numBytes, (i.address - base) % Word)
           ELSE ReadStraight(file, s, i.numBytes)
      n == Len(x.d)
      y == IF n = 0 THEN [r |-> 1, w |-> w] ELSE rvsrv_writeBulk(w, i.address, x.d)
  IN IF i.numBytes = 0 THEN [r |-> 1, w |-> w]
     ELSE IF y.r = -1 THEN y
     ELSE UploadPages(ft, file, base,
            [numBytes |-> n, remain |-> IF x.s.isEof THEN n ELSE 2 * PageSize,
             address |-> IF ft = "srec" THEN (x.s.address + base - n) % Word ELSE i.address],
            x.s, y.w)
Upload(ft, base, w) ==
  UploadPages(ft, w.file, base, iterPageInit(base, 2 * PageSize), srecReadInit, w)

\* A page goes to the file, or to the hex dump, which names the address.
\* Pages that cannot be read are filled with the fault code.
Emit(ft, a, d) ==
  CASE ft = "srec" -> srecWrite(a, d) [] ft = "dump" -> <<Record(1, a, d)>> [] ft = "bin" -> d
RECURSIVE DownloadPages(_, _, _)
DownloadPages(ft, i0, w) ==
  LET i == iterPage(i0)
      x == rvsrv_readBulk(w, i.address, i.numBytes)
  IN IF i.numBytes = 0 THEN [r |-> 1, w |-> w]
     ELSE IF x.r = -1 THEN [r |-> -1, w |-> w]
     ELSE DownloadPages(ft, i, [x.w EXCEPT !.file = @ \o Emit(ft, i.address, x.d)])

Other == Record(0, 0, <<>>)
Download(ft, a, n, w) ==
  LET before == CASE ft = "srec" -> <<Other>> [] ft = "bin" -> <<>> [] ft = "dump" -> w.file
      after == IF ft = "srec" THEN <<Other, Other>> ELSE <<>>
      x == DownloadPages(ft, iterPageInit(a, n), [w EXCEPT !.file = before])
  IN IF n = 0 THEN [r |-> 1, w |-> w]
     ELSE IF x.r = 1 THEN [x EXCEPT !.w.file = @ \o after] ELSE x
=============================================================================
