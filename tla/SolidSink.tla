----------------------------- MODULE SolidSink -----------------------------
(***************************************************************************)
(* SolidSink of src/src/extract.rs: the writer that cuts the one decoded    *)
(* stream of a solid group back into files (tiling 1: each entry takes its  *)
(* own declared size) while it checks the CRC of every block (tiling 2: a   *)
(* block may hold many files, and a file may hold many blocks).             *)
(*                                                                          *)
(* A byte of the stream is its position in it, so the content of a file is  *)
(* a sequence of positions.  A tiling is given by its cut points: span i is *)
(* the positions cut[i] .. cut[i+1]-1, its size the difference of the two.  *)
(* A CRC matches iff the hasher was fed exactly the block's own span and    *)
(* the bytes there are the ones the archive promised (no collisions).       *)
(*                                                                          *)
(* The decoder (decompress/, external libraries included) is the            *)
(* environment: it hands over any number of bytes at a time, may fail at    *)
(* any point, and stops after g.length bytes.                               *)
(***************************************************************************)
EXTENDS Integers, Sequences

CONSTANTS
  Paths,    \* destination paths
  Groups,   \* the solid groups to extract, each one an IsGroup record
  Absent,   \* content of a path that holds no file
  Old       \* content of a file that was there before

VARIABLES
  g,            \* the group: spans, destination, filter, mode; never changes
  pc,           \* "decode", "write", "finish", "ok", "fail", "cleaned"
  err,          \* why the extraction failed, "none" if it did not
  pos,          \* stream bytes consumed by the sink
  rest,         \* bytes of the current write() call still to consume
  file_idx, file_written, file_open,
  writer,       \* index of the file span that is open for output, or None
  crc_idx, crc_written,
  hashed,       \* stream position at which the hasher was last reset
  created,      \* paths this sink created
  disk,         \* content of every path
  stdout        \* positions written to the standard output (pipe mode)

sinkVars == <<file_idx, file_written, file_open, writer, crc_idx, crc_written,
              hashed, created>>
vars == <<g, pc, err, pos, rest, sinkVars, disk, stdout>>

None == -1

Contents == {Absent, Old} \cup Seq(Nat)

IsTiling(n, cut) ==
  /\ n \in Nat \ {0}  \* the sink is only made for a group that has a block
  /\ cut \in [0..n -> Nat]
  /\ cut[0] = 0
  /\ \A i, j \in 0..n : i <= j => cut[i] <= cut[j]

IsGroup(r) ==
  /\ IsTiling(r.nf, r.fileCut)          \* file_spans
  /\ IsTiling(r.nb, r.crcCut)           \* crc_spans
  /\ r.path \in [0..r.nf - 1 -> Paths]  \* safe_join(dest_dir, file_name)
  /\ r.wanted \subseteq 0..r.nf - 1     \* spans that pass the filter
  /\ r.bad \subseteq 0..r.nb - 1        \* blocks whose bytes are not the promised ones
  /\ r.pipe \in BOOLEAN                 \* pipe_mode
  /\ r.length \in Nat                   \* bytes the decoder can produce
  /\ r.disk \in [Paths -> {Absent, Old}]

ASSUME GroupsAssumption == \A r \in Groups : IsGroup(r)

FileSize(i) == g.fileCut[i + 1] - g.fileCut[i]
CrcSize(i)  == g.crcCut[i + 1] - g.crcCut[i]
FileTotal   == g.fileCut[g.nf]
CrcTotal    == g.crcCut[g.nb]

\* The stream positions a .. a+n-1.
Data(a, n) == [i \in 1..n |-> a + i - 1]

Init ==
  /\ g \in Groups
  /\ pc = "decode" /\ err = "none"
  /\ pos = 0 /\ rest = 0
  /\ file_idx = 0 /\ file_written = 0 /\ file_open = FALSE /\ writer = None
  /\ crc_idx = 0 /\ crc_written = 0 /\ hashed = 0
  /\ created = {} /\ disk = g.disk /\ stdout = << >>

-----------------------------------------------------------------------------
(* ensure_file_open: create the output of the current span, once.           *)

OpensUnfiltered == ~file_open  \* mutant: the filter is not asked
Opens == ~file_open /\ file_idx \in g.wanted
Creates == Opens /\ ~g.pipe

OpenedWriter == IF Opens THEN file_idx ELSE writer
OpenedFiles  == IF Creates THEN created \cup {g.path[file_idx]} ELSE created
OpenedDisk   == IF Creates THEN [disk EXCEPT ![g.path[file_idx]] = << >>] ELSE disk

Fail(e) == pc' = "fail" /\ err' = e

\* create_dir_all or File::create fails: the span counts as open already.
CreateFails ==
  /\ Creates
  /\ file_open' = TRUE
  /\ Fail("io")
  /\ UNCHANGED <<g, pos, rest, file_idx, file_written, writer, crc_idx,
                 crc_written, hashed, created, disk, stdout>>

-----------------------------------------------------------------------------
(* advance_full_files: both write() and finish() start with it.             *)

FullUnlessEmpty ==  \* mutant: a zero length span does not count as full
  file_idx < g.nf /\ file_written >= FileSize(file_idx) /\ file_written > 0
OverFull == file_idx < g.nf /\ file_written > FileSize(file_idx)  \* mutant
Full == file_idx < g.nf /\ file_written >= FileSize(file_idx)

Advancing == pc \in {"write", "finish"} /\ Full

\* One turn of its loop.
CloseFull ==
  /\ Advancing
  /\ created' = OpenedFiles /\ disk' = OpenedDisk
  /\ writer' = None
  /\ file_idx' = file_idx + 1 /\ file_written' = 0 /\ file_open' = FALSE
  /\ UNCHANGED <<g, pc, err, pos, rest, crc_idx, crc_written, hashed, stdout>>

CloseFullFails == Advancing /\ CreateFails

-----------------------------------------------------------------------------
(* write(): the decoder hands over n bytes, then one turn of the loop each. *)

DecoderWrites(n) ==
  /\ pc = "decode"
  /\ pos + n <= g.length
  /\ pc' = "write" /\ rest' = n
  /\ UNCHANGED <<g, err, pos, sinkVars, disk, stdout>>

ExceedsFiles ==
  /\ pc = "write" /\ file_idx = g.nf
  /\ Fail("exceeds size")
  /\ UNCHANGED <<g, pos, rest, sinkVars, disk, stdout>>

ExceedsBlocks ==
  /\ pc = "write" /\ ~Full /\ file_idx < g.nf
  /\ crc_idx = g.nb
  /\ Fail("exceeds blocks")
  /\ UNCHANGED <<g, pos, rest, sinkVars, disk, stdout>>

InSpans == pc = "write" /\ ~Full /\ file_idx < g.nf /\ crc_idx < g.nb

OpenFails == InSpans /\ CreateFails

\* The largest run inside the call, the file span and the block span.
Smaller(a, b) == IF a <= b THEN a ELSE b
TakePastFile  == Smaller(rest, CrcSize(crc_idx) - crc_written)    \* mutant
TakePastBlock == Smaller(rest, FileSize(file_idx) - file_written)  \* mutant
TakePastCall  == Smaller(FileSize(file_idx) - file_written,        \* mutant
                         CrcSize(crc_idx) - crc_written)
Take == Smaller(rest, Smaller(FileSize(file_idx) - file_written,
                              CrcSize(crc_idx) - crc_written))

\* The first k bytes of that run reach the output the writer stands for.
Output(k) ==
  IF OpenedWriter = None
    THEN disk' = OpenedDisk /\ stdout' = stdout
    ELSE IF g.pipe
      THEN disk' = disk /\ stdout' = stdout \o Data(pos, k)
      ELSE /\ disk' = [OpenedDisk EXCEPT
                         ![g.path[OpenedWriter]] = @ \o Data(pos, k)]
           /\ stdout' = stdout

WriteRun ==
  /\ InSpans
  /\ created' = OpenedFiles /\ writer' = OpenedWriter /\ file_open' = TRUE
  /\ Output(Take)
  /\ pos' = pos + Take /\ rest' = rest - Take
  /\ file_written' = file_written + Take
  /\ UNCHANGED <<g, file_idx>>

EndOfTurn == pc' = (IF rest' = 0 THEN "decode" ELSE "write") /\ err' = err

BlockFull == crc_written + Take = CrcSize(crc_idx)

\* mutant: the stored CRC is not compared
CrcUnchecked(b) == hashed = g.crcCut[b]

\* The finalized CRC of the bytes hashed since the last reset is block b's.
CrcMatches(b) ==
  /\ hashed = g.crcCut[b]
  /\ pos + Take = g.crcCut[b + 1]
  /\ b \notin g.bad

WithinBlock ==
  /\ WriteRun
  /\ ~BlockFull
  /\ crc_written' = crc_written + Take
  /\ UNCHANGED <<crc_idx, hashed>>
  /\ EndOfTurn

CompleteBlock ==
  /\ WriteRun
  /\ BlockFull /\ CrcMatches(crc_idx)
  /\ crc_idx' = crc_idx + 1 /\ crc_written' = 0
  /\ hashed' = pos'
  /\ EndOfTurn

BlockMismatch ==
  /\ WriteRun
  /\ BlockFull /\ ~CrcMatches(crc_idx)
  /\ crc_written' = crc_written + Take
  /\ hashed' = pos'
  /\ UNCHANGED crc_idx
  /\ Fail("crc mismatch")

\* write_all fails after k bytes of the run: none of the counters moves.
WriteFails(k) ==
  /\ InSpans
  /\ OpenedWriter # None
  /\ k < Take
  /\ created' = OpenedFiles /\ writer' = OpenedWriter /\ file_open' = TRUE
  /\ Output(k)
  /\ Fail("io")
  /\ UNCHANGED <<g, pos, rest, file_idx, file_written, crc_idx, crc_written,
                 hashed>>

-----------------------------------------------------------------------------
(* The end of the stream, finish() and cleanup().                           *)

DecoderEnds ==
  /\ pc = "decode" /\ pos = g.length
  /\ pc' = "finish"
  /\ UNCHANGED <<g, err, pos, rest, sinkVars, disk, stdout>>

DecoderFails ==
  /\ pc = "decode"
  /\ Fail("decoder")
  /\ UNCHANGED <<g, pos, rest, sinkVars, disk, stdout>>

FilesProduced == file_idx = g.nf  \* mutant: the block tiling is not looked at
AllProduced == file_idx = g.nf /\ crc_idx = g.nb /\ crc_written = 0

Finish ==
  /\ pc = "finish" /\ ~Full
  /\ IF AllProduced THEN pc' = "ok" /\ err' = err ELSE Fail("corrupted")
  /\ UNCHANGED <<g, pos, rest, sinkVars, disk, stdout>>

\* remove_file on every created path; extract_all_solid calls it on any
\* failure of the decoder, of the sink or of finish(), but not in pipe mode.
Cleanup ==
  /\ pc = "fail"
  /\ pc' = "cleaned"
  /\ disk' = IF g.pipe THEN disk
             ELSE [p \in Paths |-> IF p \in created THEN Absent ELSE disk[p]]
  /\ UNCHANGED <<g, err, pos, rest, sinkVars, stdout>>

SinkStep ==
  \/ CloseFull \/ CloseFullFails
  \/ ExceedsFiles \/ ExceedsBlocks \/ OpenFails
  \/ WithinBlock \/ CompleteBlock \/ BlockMismatch
  \/ \E k \in 0..rest - 1 : WriteFails(k)
  \/ Finish \/ Cleanup

Decoder ==
  \/ \E n \in 1..g.length - pos : DecoderWrites(n)
  \/ DecoderEnds \/ DecoderFails

Next == SinkStep \/ Decoder

Done == pc \in {"ok", "cleaned"} /\ UNCHANGED vars

Spec == Init /\ [][Next \/ Done]_vars

\* The sink is straight-line code, and a decoder over a finite buffer either
\* hands over bytes, ends or fails.
FairSpec == Spec /\ WF_vars(SinkStep) /\ WF_vars(Decoder)

-----------------------------------------------------------------------------
(* Properties.                                                              *)

Failed == pc \in {"fail", "cleaned"}

ControlOK ==
  /\ IsGroup(g)
  /\ pc \in {"decode", "write", "finish", "ok", "fail", "cleaned"}
  /\ err \in {"none", "io", "exceeds size", "exceeds blocks", "crc mismatch",
              "decoder", "corrupted"}
  /\ pos \in Nat /\ rest \in Nat
  /\ file_idx \in 0..g.nf /\ file_written \in Nat /\ file_open \in BOOLEAN
  /\ writer \in {None} \cup g.wanted
  /\ crc_idx \in 0..g.nb /\ crc_written \in Nat /\ hashed \in Nat
  /\ created \in SUBSET Paths

TypeOK ==
  /\ ControlOK
  /\ disk \in [Paths -> Contents]
  /\ stdout \in Seq(Nat)

\* The wanted spans on path p whose output was opened, and what one received.
OpenedOn(p) ==
  {f \in g.wanted : /\ g.path[f] = p
                    /\ f < file_idx \/ (f = file_idx /\ file_open)}
Received(f) == IF f < file_idx THEN FileSize(f) ELSE file_written

\* As long as nothing failed, every path holds its own span of the stream and
\* nothing else, exactly as far as the stream has come: the last wanted entry
\* of that name wins, and a path no wanted entry names is untouched.  A span
\* that is filtered out leaves no byte anywhere.
FilesRouted ==
  ~Failed /\ ~g.pipe =>
    \A p \in Paths :
      \/ OpenedOn(p) = {} /\ disk[p] = g.disk[p]
      \/ \E f \in OpenedOn(p) : /\ \A h \in OpenedOn(p) : h <= f
                                /\ disk[p] = Data(g.fileCut[f], Received(f))

WantedBytes == UNION {g.fileCut[f] .. g.fileCut[f + 1] - 1 : f \in g.wanted}

\* In pipe mode the wanted bytes below the stream position, and only they, are
\* on the standard output, each once and in order.
PipeInOrder ==
  ~Failed /\ g.pipe =>
    /\ \A j, k \in 1..Len(stdout) : j < k => stdout[j] < stdout[k]
    /\ {stdout[k] : k \in 1..Len(stdout)} = {i \in WantedBytes : i < pos}

\* Both modes at once: up to a failure, whatever was wanted is where it
\* belongs as far as the stream has come, and nothing else is anywhere.
Routed == FilesRouted /\ PipeInOrder

\* Position i of the stream reached a file or the standard output.
Emitted(i) ==
  \/ \E k \in 1..Len(stdout) : stdout[k] = i
  \/ \E p \in Paths : /\ disk[p] \notin {Absent, Old}
                      /\ \E k \in 1..Len(disk[p]) : disk[p][k] = i

\* Bomb guard: whatever the decoder produces, and also when a write fails half
\* way, no byte beyond what both tilings declare is ever written.
NothingBeyondDeclared ==
  \A i \in 0..g.length : Emitted(i) => i < FileTotal /\ i < CrcTotal

\* No byte that follows a block with a wrong CRC is ever written, even where
\* the block ends in the middle of a file or of a write() call.
NothingAfterBadBlock ==
  \A b \in g.bad : \A i \in 0..g.length : Emitted(i) => i < g.crcCut[b + 1]

\* Whatever the decoder produces and wherever the extraction fails, only bytes
\* that are declared, and that no bad block precedes, are ever written.
WritesOnlySound == NothingBeyondDeclared /\ NothingAfterBadBlock

\* Each rejection has its cause in the group; a sound stream is rejected only
\* when it ends in a zero-length block, which write() never gets to complete.
RejectedForCause ==
  /\ err = "exceeds size"   => g.length > FileTotal
  /\ err = "exceeds blocks" => g.length > CrcTotal
  /\ err = "crc mismatch"   => \E b \in g.bad : g.length >= g.crcCut[b + 1]
  /\ err = "corrupted"      => \/ g.length < FileTotal \/ g.length < CrcTotal
                               \/ CrcSize(g.nb - 1) = 0

\* What the comment on finish() says it is for: to refuse a stream that was
\* not produced whole.
FinishRefusesTruncation ==
  err = "corrupted" => pos < FileTotal \/ pos < CrcTotal

\* Every extraction ends: no turn of a loop leaves everything as it was, zero
\* length spans of either tiling included.
Terminates == <>(pc \in {"ok", "cleaned"})

-----------------------------------------------------------------------------
(* The promise of Delivery, read off the group and the state.               *)

LastOn(p) == {f \in g.wanted : /\ g.path[f] = p
                               /\ \A h \in g.wanted : g.path[h] = p => h <= f}
After ==
  [p \in Paths |->
     IF g.pipe \/ LastOn(p) = {} THEN g.disk[p]
     ELSE LET f == CHOOSE f \in LastOn(p) : TRUE
          IN  Data(g.fileCut[f], FileSize(f))]

Job ==
  [before |-> g.disk, after |-> After,
   touch  |-> IF g.pipe THEN {} ELSE {g.path[f] : f \in g.wanted},
   print  |-> IF g.pipe THEN WantedBytes ELSE {},
   sound  |-> g.length = FileTotal /\ g.length = CrcTotal /\ g.bad = {}]

Tree   == IF pc \in {"ok", "cleaned"} THEN disk ELSE g.disk
Status == IF pc = "ok" THEN "ok" ELSE IF pc = "cleaned" THEN "failed" ELSE "running"

Promise == INSTANCE Delivery WITH job <- Job, tree <- Tree, status <- Status

\* The sink, as extract_all_solid drives it, delivers all or nothing.
DeliversAllOrNothing == Promise!Spec
=============================================================================
