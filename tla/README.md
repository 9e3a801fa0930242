# A verification development for unegg

unegg (`src/`, Rust) lists and extracts EGG archives: split volumes, solid
groups, encrypted entries, five compression methods.  This directory holds TLA+
models of its logic, TLC configurations that check them on small instances, and
proofs about them that TLAPS checks.  Line numbers refer to `src/src/`.

## 1. Inventory

### Volumes (`volume.rs`)

* *State.* `MultiVolumeReader`: the open files, one `Segment` per file (logical
  start, data size, physical start), the logical position and the index of the
  current segment.  The OS keeps a file offset per open file.
* *Operations.* `try_open` follows the chain of volume ids from the first file
  through the directory; `read` returns bytes of the current segment and walks
  over segment ends; `seek` chooses a segment and positions its file.
* *Interaction.* Everything above reads through this one `Read + Seek`.
* *Hard.* The file offset is separate state from the logical position and is
  only set when a segment is entered; short reads; segments without data; a
  chain that comes back, ends early, is too long, or has two files with one id;
  the directory's order is the OS's choice.
* *Correct if* any sequence of reads and seeks returns what one flat file with
  the same bytes returns; opening ends; the segments tile the logical stream in
  chain order.

### Archive structure (`archive.rs`)

* *State.* The parsed `EggArchive`: entries with their blocks, comment, solid
  and split flags.  The reader's position while parsing.
* *Operations.* `open` (prefix records, then entries and block groups, then the
  end marker, with a peek behind it), `parse_file_entry` (sub-headers and
  blocks), `resolve_relative_paths`, `read_encrypt_payload`.
* *Hard.* An `EGGA` end marker stands at the end of every volume, so the parser
  must look behind it; relative paths refer to entries by id, before or after.
* *Correct if* no block or entry is lost silently, every loop consumes input,
  and a path prefix is applied once.

### Extraction (`extract.rs`)

* *State.* Files on disk, standard output, the decryptor, running CRCs.
* *Operations.* `extract_entry` per entry, `extract_all` and `extract_files`
  over entries, `extract_all_solid` with `SolidSink` for a solid group,
  `verify_password`, `safe_join`, the filter.
* *Hard.* Two tilings of one stream that end in different places; failures half
  way through a file; creating, truncating and removing files; authentication
  before any output; names that occur twice.
* *Correct if* a success delivers every wanted entry with checked bytes, a
  failure leaves no partial file and touches nothing it did not create, and no
  declared size is exceeded.

### Decompression (`decompress/`)

* *State.* A buffer of compressed input, the decoder (external libraries), the
  count of remaining output (`LimitWriter`).
* *Hard.* `extract_deflate` refills its buffer while the decoder holds state,
  and decides from four counters whether it is done, stuck or corrupt.
  The other decoders each read their input in another way (exact reads, a
  streaming adapter, all at once, a callback) from one decryptor, and hash their
  output before or after it is written.
* *Correct if* it ends, hands every input byte to the decryptor once and to the
  decoder in order, never writes past the limit, and the CRC is that of the
  bytes that were written.

### Decryption (`crypto.rs`, `aes_ctr.rs`, `lea.rs`)

* *State.* ZipCrypto: three keys that every plain byte changes.  AES and LEA: a
  counter, a key-stream block and the offset in it.  LEA: the round keys.
* *Operations.* Making a decryptor from a password, which checks it (one byte of
  a header, or two bytes of a derived key), and `decrypt` in place.
* *Hard.* `decrypt` is called with any number of bytes; the counters carry in
  opposite byte orders; the check of a password leaves the keys where the data
  begin, and it accepts some wrong ones.
* *Correct if* the key stream does not depend on how the calls are cut, no block
  of it is used twice, the right password restores the data, and LEA is LEA.

### Command line (`main.rs`, `error.rs`)

* *State.* Options, exit status, the interactive prompt (three attempts), what
  the standard output still holds.
* *Operations.* `parse_args`, `run` and `run_archive`, `prompt_password`,
  `list_archive`, the exit in `main`.
* *Hard.* One option has five forms; the prompt asks one entry about a password
  that is used for all; the reader of a pipe may leave or fill up at any time.
* *Correct if* every form of the command line means the same, nothing is written
  before a password is accepted, success means everything, and a reader that
  closes the pipe is a normal stop, but no other error is.

### Names and times (`encoding.rs`, parts of `extract.rs`, `archive.rs`, `main.rs`)

* *State.* None: a name is decoded, cleaned, matched against the FILE operands
  and joined to the destination; a time is converted to ticks and back.
* *Hard.* Three steps of cleaning that can undo each other's work; a calendar
  without a table; 64-bit ticks.
* *Correct if* a path only ever leads down, FILE names whole components, and
  dates are those of the calendar.

## 2. Plan

In the order of importance, most important first.  Done so far: 1 to 16.

1. `SolidSink` with its abstract specification `Delivery`: two tilings of one
   stream, the place where data can end up in the wrong file.  Proofs of all
   safety properties and of the refinement.
2. `VolumeReader` with `FlatReader`: what everything else reads through.  Proofs
   of the invariants and of the refinement.
3. `VolumeChain`, whose result `VolumeReader` starts from (`VolumeLayout` is the
   contract between them).  Proofs.
4. `EntryExtract` with `Deliveries`: entries outside of solid groups.
5. `SolidExtract`: what happens around the sink; it uses the sink as `Delivery`
   promises it.
6. `DeflateLoop`: the one decoder loop that is the program's own.  Proofs.
7. `ArchiveParser`: `EggArchive::open` over files of records that may end or be
   cut anywhere; what opens is what was written.
8. `Session`: one call of the program from the open archive to its exit status,
   with the prompt, the keys of the entries and the reader of a pipe.
9. `BlockDecoders`: store, bzip2, LZMA and AZO as far as the code around the
   external codecs goes, over the blocks of one entry.
10. `CtrStream`, `ZipCrypto` and `Lea`: the decryptors.
11. `CommandLine`: every form of the options, by a user who knows what is meant.
12. `Names` and `FileTimes`: the pure parts, against a directory tree and a
    calendar.
13. Proofs about 4, 5 and 8: all safety properties of the three modules and the
    refinement of `Deliveries`.
14. Proofs about 7: the types, and that the parser is always in front of a
    record it expects in an archive that an archiver wrote and with a reader that
    does not fail; from it `CutIsNoticed` and `WholeArchiveOpens`; and that the
    entries are what the records say, up to where it is: `OpensWhatWasWritten`.
15. Proofs about 9 and, of 10, ZipCrypto: the CRC, the limit and the key stream of
    the decoders; that the right password restores what was encrypted.
16. `Program`, which composes `Session`, `CommandLine`, `Names` and `FileTimes` as
    `Decoders` does the decoders, and proofs about 12: that the calendar and the
    FILETIME agree with `FileTimes` on every day, that names of every length
    stay safe, and, of 11, that `parse_args` understands every list of words.

Runs use the smallest instances in which every hazard of `PROJECT.json` occurs:
two paths so that names can collide, two or three spans, volumes, blocks or
entries so that there is a first, a last and one between, sizes from zero.
Theorems are stated over the same modules with the constants left open.

## 3. Modules

```
             CommandLine
                  | what was asked for
               Session ............ Names, FileTimes
                  | opens, then extracts
 VolumeChain --VolumeLayout--> VolumeReader ==> FlatReader
                                    | one plain file
                              ArchiveParser
                                    | entries
             EntryExtract ==> Deliveries      SolidExtract --> Delivery <== SolidSink
                  | decoder of a block             | decoder of the group
        DeflateLoop, BlockDecoders            DeflateLoop, BlockDecoders
                  | decryptor                      | decryptor
         CtrStream, ZipCrypto, Lea         CtrStream, ZipCrypto, Lea
```

`==>` is a refinement that is checked; `-->` is the use of a contract.

**`VolumeChain`** is `try_open`.  A file of the directory is a record of what the
code reads from it: id, next id, whether the prefix section has an end, where
the data start, length.  `OpenSingle`, `OpenFirst` and `OpenFails` are lines
31-63; one turn of the loop is one of `RefuseCycle` (66-68), `RefuseLong`
(69-71), `NotFound` and `FollowFails` (72-80), `BadHeader` (76) or `Follow(f)`
(72-93), where `f` is *any* file with the wanted id, since the directory's order
is not the program's.  The id of the first volume is read in a second opening
whose failure the code ignores, hence the two values of `seen` in `OpenFirst`.

**`VolumeReader`** is `Read` and `Seek` of `MultiVolumeReader`.  `current` and
`logical_pos` are the fields; `offset` is the file offset that the operating
system keeps for every open volume, which the code relies on but does not
store.  One turn of `read`'s loop is `ReadEnd`, `NextSegment`,
`NextSegmentFails`, `ReadSome(n)` (any short read) or `ReadFails`.  A byte of a
file is its logical position, or `Header`.  Initially the continuations'
offsets are wherever `try_open` left them.  `FlatReader` is one plain file;
`ReadsLikeOneFile` maps its position to `logical_pos`.

**`SolidSink`** is the writer of a solid group.  A byte is its position in the
decoded stream; `file_spans` and `crc_spans` are two sequences of cut points.
`CloseFull` is one turn of `advance_full_files`; `WithinBlock`, `CompleteBlock`,
`BlockMismatch`, `WriteFails`, `ExceedsFiles`, `ExceedsBlocks` and `OpenFails`
are the ways a turn of `write` ends; `Finish` and `Cleanup` are what
`extract_all_solid` calls afterwards.  `Delivery` is the promise: everything
and verified, or an error and no partial file.

**`SolidExtract`** is `extract_all_solid` around the sink: the plan (`PlanDir`,
`PlanFile`, `RefuseName`), the read loop (`ReadBlock` with the change of the
decryptor at an entry's first block, `RefuseKey`, `RefuseTag`, `ReadFails`), the
branch without blocks (`RefuseLost`, `CreateEmpty`) and the file times
(`ApplyTimes`).  The sink is two actions, `SinkDelivers` and `SinkFails`: the
steps `Commit` and `Rollback` of `Delivery`, which is what `SolidSink` is shown
to implement.  `PROJECT.json` lists both modules for the file, and no line of
the sink is modelled twice.

**`EntryExtract`** is `extract_all`/`extract_files` without a solid group: one
action per way through `extract_entry`, then one per write of the decoder
(`WriteChunk`, `ExceedsLimit`, `WriteFails`), per end of a block (`BlockDone`,
`BlockMismatch`, `DecoderFails`) and per end of an entry (`EntryDone`,
`RemovePartial`).  The decoder is any that hands over its bytes in any pieces;
the results of `safe_join`, `should_extract`, `setup_decryptor` and
`verify_hmac` are part of an entry's record.  `Deliveries` is the promise: the
entries before the first error are delivered, and nothing else changes.

**`DeflateLoop`** is `extract_deflate`.  The buffer holds, for each byte, its
position in the block and the key stream position it was decrypted with.
`flate2` is external and taken as what its documentation promises of a call:
it works until the output is full, the input is used up or the stream ends.

**`ArchiveParser`** is `EggArchive::open`.  A file is the list of its records at
their byte positions and its length, which cuts it anywhere; a record has the
fields the code reads and the size it declares.  `SigAt` is `read_u32`, and
`Complete` gathers what the code must be able to read of a record and the
checks of its size.  `pc` is the loop the parser is in: `"egg"` (183-190),
`"prefix"` (198-225), `"entries"` (228-264), `"sub"` (293-386) and `"blocks"`
(388-404); each arm of a `match` is an action, and the default arm is `Refuse`.
`VolumeEnd` and `ArchiveEnd` are the peek behind an end marker, `Payload` is
`read_encrypt_payload`, `Resolved` is `resolve_relative_paths`.  The reader may
fail at every call (`ReadFails`); two of the failures are not errors for the
code (`PeekFails`, line 259, and `ProbeFails`, line 494).  Of these the first is
worth knowing: a read error right behind the end marker of a volume opens an
archive that has only the entries up to there.  Bytes inside a record's body
are taken not to look like a signature where the parser would seek one.

What an archiver writes is a predicate of the file, `Sane`, and not a mark on
it, so that a theorem can speak of every such file.  A record's field `loop` is
the loop it was written for (`"data"` for the end marker in front of a block's
data); `Linked` says which records may follow which, and at what distance;
`LongEnough` that a size covers the fixed part of its record.  The one thing in
it that is not plain format is `Unambiguous`: an encryption header stands last,
and of the payload lengths of its method only the true one leads to an end
marker.  This is what `read_encrypt_payload` goes by (archive.rs:483-486).  An
assumption of the `MC` module makes TLC check that the archives of the instance
are `Sane` and that those meant to be cut or broken are.

What was written is said by sets of record indices, without following the parser:
the records of an entry are those between its header and the next one
(`RecordsOf`), an entry's place in the list is the rank of its header, a block's
the rank of its record, and the time is that of the Windows record or, without
one, of the first POSIX record, which is what `entry.file_time` being `None`
decides in the code.  `NoTime` is this `None`: a recorded time of zero is a time.

**`Session`** is `run_archive` between the open archive and the exit in `main`.
An entry is what it asks of a password (`passes`: the ones its header accepts,
`key`: the one that is right), what its blocks say (`content`) and what it sends
to the standard output: lines, and a rest without a newline.  `Prompt(pw)` is one
turn of `prompt_password`'s loop with the `verify_password` in it.  `TakeBare` and
`BlocksLost` are the returns of `extract_entry` in front of `setup_decryptor`: a
directory and an empty file are made with any password, one whose blocks are lost
is refused with the right one.  `StartEntry` is the way of all others to their
first byte, `CheckEntry` the CRC.  With a wrong key that got so far the decoder
makes anything of the data, or nothing (`Sends`: a piece `"garbage"`).
`EntryExtract` has the files and the blocks; here the standard output matters:
`WriteLines` goes through to the reader, `WriteRest` stays in Rust's line buffer,
`WriteFails` is a write that meets a reader who stopped, and `FlushAndExit` is the
end of the process, which tells nobody when it cannot write.  `ReaderStops` may happen between any two steps.  `Fail` is `main`'s
choice of the exit status with `is_broken_pipe`; whether a decoder keeps the
kind of a writer's error is a property of its entry (`keeps`).  A rest is taken
to be small enough for the buffer; what does not fit goes through like lines.

**`CommandLine`** is `parse_args`.  First a user types options and operands,
each in any of its forms, while `meant` records what the manual page says of
them; then the program reads the words, one action per arm.  `TakeNext` and
`TakeJoined` are the two ways an argument is taken.  The words that are tried as
arguments look like options, are empty, begin with `=`, or are not Unicode.

**`BlockDecoders`** is an entry's loop over its blocks with the decoders other
than deflate.  Each has its own way to its input, all through `Take(n)`, which
decrypts: `StoreTurn` (`read_exact`), `Pull` (`DecryptingReader`, AZO's
callback), `StartBlock` and `LzmaBody` (the header, then all the rest).
`start` is where the archiver began the block, which the decryptor is held against.
`WriteSome(k)` is one call of `LimitWriter::write` that takes any part of the
bytes; store and bzip2 hash what they are about to write, `HashingWriter` what
was written.  Decoders that leave bytes behind in a block shift the key stream
for the next one; `DecryptedInPlace` is stated for streams that end where their
blocks do, which is what the format's writers produce.

**`CtrStream`** is both counter modes: `Call(n)` enters `decrypt`, and each turn
of its loop is `XorByte`, with `NextKeystreamBlock` before it when the block is
used up.  The ciphers are injective, so a key-stream block is known by its
counter.  **`Lea`** is that cipher: `Schedule` makes one round key, for all
three key lengths, `Round` is one round of `encrypt_block`.  A 32-bit word is
two halves, so that TLC's numbers suffice.  **`ZipCrypto`** has two instances: a
writer that encrypts a header and data behind it, and a reader that checks the
header and decrypts.  Its keys' arithmetic is a constant.

**`Names`** follows one name through `normalize_path` (`Parse`), `matches_filter`
(`Select`) and `safe_join` (`Join`).  What is kept of a sequence (`Kept`: the
printable characters, the components) is defined by the rank of its position
(`Nth`), so that it can be reasoned about without recursion.  **`FileTimes`** lets a calendar run from
1970, as one is taught it, beside the formulas of `days_to_ymd`,
`unix_to_filetime` and `set_file_time`.

**`Decoders`** puts the parts of the data path of a block side by side:
`DeflateLoop`, `BlockDecoders`, `CtrStream` and `ZipCrypto`.  The parts share no
state in the code either; what passes between them is the argument of a call,
"the next n bytes", which each part has as an input.  Of a part that is
instantiated the assumption about the constants is a definition
(`DecodersConstants`, `CtrConstants`, `ZipConstants`) that `PartsAssumption`
gathers.  **`Program`** does the same for what surrounds the extraction:
`Session`, `CommandLine`, `Names` and `FileTimes`.

An `MC` module gives the constants small values.  Two of them run several
components, so that one run checks them: `MCDecoders` the parts of `Decoders` and
`Lea`, and `MCProgram` those of `Program`.  A behaviour of either runs one part from one of its
initial states, and the others stay where they start: the sum has the behaviours
of each part and no product.

## 4. Runs

| run | instance | shows |
|---|---|---|
| `solid_sink` | 1-3 files, 1-2 blocks, at most 2 bytes, two paths, every filter that drops at most one entry, streams short, exact and long, a bad block; fair | each file gets its own span (`Routed`); the bomb guard, nothing after a bad block (`WritesOnlySound`); an error has a cause; the sink implements `Delivery`, and ends |
| `solid_trailing_block` | the same with up to 2 files | finding 1 |
| `solid_extract` | groups of 1-2 entries of 13 kinds, two paths, a file, a directory or nothing there before | blocks in order, each with its own key at its own place (`DecodesTheGroup`); nothing before everything is accepted, a success is whole |
| `solid_lost_blocks` | the same | finding 2 |
| `entry_extract` | archives of 1-2 entries of 15 kinds, the same destinations | what may leave the program when (`NothingUnaccepted`, `PipedInOrder`); the refinement of `Deliveries` |
| `entry_declared_size` | the same | finding 3 |
| `volume_reader` | 2-3 volumes of 0-2 bytes (the first of 1-2), headers of 1 byte, reads of 0-3 bytes, seeks of up to 2; fair | volumes read like one file; reads return |
| `volume_chain` | the first volume, alone or with one to three other files, ids 1-4, any links, broken and strange files; at most 3 volumes | what is opened is a whole chain within the limit; a whole chain opens |
| `archive_parser` | one to three entries with every kind of sub-header, payloads of right and of overstated size, 0-2 blocks, volume ends, comments and padding between and behind, all choices of parents; cut around every record, followed by 2 or 6 bytes, or broken in 19 ways; fair | what opens is what was written; no cut goes unnoticed; a whole archive opens; parsing ends |
| `decoders` | `DeflateLoop`: buffers of 3 and 2 bytes, 0-7 bytes of input, streams of 1-7 bytes that decode to 0-5; fair | `InputInOrder`, `OutputComplete`, `LoopEnds`: no input or output is lost, the loop ends |
| | `BlockDecoders`: up to 3 blocks of 14 kinds, buffers of 2 bytes, an LZMA header of 2, short writes | `OneKeyStream` over all methods; `BlocksChecked`: the CRC is of what was written, each block has its limit, success needs sound blocks |
| | `CtrStream`: counters of 3 bytes of radix 3, blocks of 4 bytes, calls of 0-8 bytes, 130 bytes in all | `Decrypts`: independence of the cuts, the counter carries and wraps in both orders |
| | `ZipCrypto`: bytes of 2 bits, 7 keys, 4 passwords, 2-4 bytes | `Decrypts`: the right password restores everything |
| | `Lea`: the real cipher, the vectors of KS X 3246 for three key lengths and six other blocks | `Decrypts`: the published results, every round can be undone |
| `program` | `Session`: 0-2 entries of 15 kinds (not encrypted, or a header that is known, unknown or short, with two passwords and either or both accepted; data, an empty file, a directory, lost blocks), with and without `--password`, `--pipe`, `--list` and a name that matches nothing; a reader that leaves or is full | `NothingBeforePassword`; `WrongKeyStopsTheCall`: an accepted password that is wrong for a later entry spoils that entry and ends the call; `DeliversWhatWasAsked`: success is everything, extracted and received, a pipe has no gap |
| | `CommandLine`: up to 3 items out of `-l`, `-h`, `-d`, `-P`, their long forms, an unknown option, `--` and operands, with 5 arguments | `ParsesWhatWasMeant`: every form means the same; the first thing that stops the program decides |
| | `Names`: all names of up to 4 characters out of `a`, `b`, `.`, `/`, `\` and NUL, operands of up to 3 characters | `NamesAreSafe`: paths lead down; FILE names components |
| | `FileTimes`: every day of 1970-2371, every second of the first; a maximum that is reached on that day | `TimesAreRight`: dates agree with the calendar; times come back, or stay at the last one |
| `closed_pipe` | the same | finding 4 |

A property that is a conjunction names its parts in the module, each with a
comment of its own; there are mutants of the code for the parts.

*Why these bounds are enough.*  The sink looks at one span of either tiling at a
time: three files and two blocks give an end of a file inside a block, an end of
a block inside a file, both at once, and spans of size zero first, last and in a
row.  The reader looks at the current and the next volume: three volumes give
one to come from, one without data, and one to arrive at.  A chain of at most
three volumes has room for a cycle that includes the first volume and one that
does not, with a fourth id that is one too many.  Two entries give every order
of two kinds, on one path and on two.  Seven bytes of input fill the buffer of
three more than twice, with a rest.  The parser keeps
nothing between entries but the list: two entries give every neighbour a record
can have, three give chains and cycles of parents.  A session of two entries has a
first encrypted entry that the prompt asks and another one that it does not.
Three items give an option, its
argument and something behind them, bundled or not.  Three blocks give a block
whose method differs from the ones before and behind it.  The counter of three
bytes has a lowest, a middle and a highest one, and 130 bytes use up all of its
27 values.  Days of more than 400 years are all that `days_to_ymd` tells apart,
since it reduces by that cycle first.  Four characters are `../a` and a control
character before, in or behind anything that has a meaning.  For the modules
with proofs the theorems remove these bounds.

*Bounds in the models themselves.*  In guards: `Beyond` (how far behind the end
a caller of the reader seeks), `Limit` (bytes that `CtrStream` decrypts),
`MaxItems` (what a user types) and `LastDay` (where the calendar stops).
Everything else is bounded by the inputs; `MaxBlocks` is one of the `MC` module.

## 5. Fairness

Nothing in this program waits but the password prompt, of which no liveness
property speaks: it is one thread that runs to its end.  Fairness says just
that, and only where a liveness property needs it.

* `VolumeReader`: weak fairness of the steps of a `read` in progress that succeed
  (a system call need not ever fail, so failing is no way out); the caller
  is never obliged to call.
* `ArchiveParser`: weak fairness of the steps of a reader that does not fail.
* `SolidSink`, `DeflateLoop`: weak fairness of the next-state relation, that is
  of a loop that runs.  The decoder may stop giving output whenever its input
  is used up; it is not assumed to make progress on an empty input.

## 6. Proofs

All proofs are checked by TLAPS for every value of the constants.  They rest on
the named assumptions about the constants, which the runs evaluate: that the
inputs have the right shape (`IsGroup`, `IsLayout`, `IsFile`, `IsStream`,
`IsArchiveFile`) and
that sizes are natural numbers.

**`SolidSinkProofs`.**  `Inv1` aligns the two tilings with the stream: the bytes
consumed are at once the start of the current file plus what it has received
and the start of the current block plus what was hashed of it.  Without it no
property of one tiling is inductive, for every turn moves both.  `Inv2` adds
what every path holds, `Inv3` which paths were touched, `Inv4` which bytes may
have been written at all; each step of the sink has its lemma.  Results:
`SinkTypeOK` (no counter wraps), `SinkRoutesFiles`, `SinkPipesInOrder`,
`SinkBombGuard`, `SinkStopsAtBadBlock`, `SinkRejectsForCause`, and from these
`SinkRoutes` and `SinkWritesOnlySound`, which state the properties of the run.

The refinement, `SinkDelivers`: every step of the sink is `Emit`,
`Commit`, `Rollback` or a stutter of `Delivery`.  The partial files on disk are
hidden by the mapping until the sink ends, which is what a caller sees.

**`VolumeReaderProofs`.**  `Positioned` is not inductive: entering a volume sets
its offset to the first data byte, which is right only if the volume before was
left exactly at its end.  `Left` says so.  Results: `ReaderTypeOK`,
`ReaderPositioned`, `ReaderReadsLikeOneFile`.

**`VolumeChainProofs`.**  The invariant says that every segment follows the one
before it in the chain of ids and in the stream, that the ids of the segments
were all asked for, and that the first volume can come back only as the last
one (when its id was not read).  Results: `ChainTypeOK`,
`ChainBoundsOpenFiles`, `ChainIsWhole` (together `ChainIsWholeWithinLimit`) and
`ChainHandsOverLayout`.  The last one is
the assumption that `VolumeReader` starts from.

That no complete set is refused is a second invariant (`Along`), for every chain
in the directory: as long as the volumes are followed, the open files are its
beginning and only their ids were asked for.  So the next id is always a new one
(no cycle is seen where there is none), the number of open files stays below that
of the chain, and the file that is found is the chain's, ids being unambiguous.
Result: `ChainCompleteSetOpens`.

**`DecodersProofs`.**  For `DeflateLoop`, `OutputComplete` rests on what the last
call said: output that did not fill the buffer was all there was.  Results:
`DeflateTypeOK`, `DeflateInputInOrder`, `DeflateOutputComplete`.

For `BlockDecoders` the property says that the CRC is that of the file only
between two calls of `write_all`; inside one it is not, and differently so for the
methods that hash before they write and for those that hash after.  `Pieces` says
what holds at every step: what was written, and behind it what `write_all` still
has, is what was handed over, and the CRC has had the one or both.  `Limits` ties
what `LimitWriter` has left to what was written; with `Pieces` it gives, at the
end of a block, that no more was decoded than is declared.  `Between` keeps that
nothing of a block is left when the next one starts, and that a stored block hands
over what it reads.  `KeyInStep` is `DecryptedInPlace` with the place of the
reader: the decryptor is where the blocks before, all used up, and the bytes read
of this one have left it.  Results: `BlocksCheckedAlways`, `KeyStreamInStep`.

For `ZipCrypto` the keys after n bytes are a recursion over the plain bytes, out
of reach of the provers.  The invariant `ZInv` says instead that some function `h`
gives them, from the keys of the password, one step per byte; each turn of
`encrypt` extends `h` by one, and the reader, whose keys follow from its own
output, walks along it.  Result: `RightPasswordRestores`.  It needs of the
arithmetic only that a step leads from keys to keys and that exclusive or undoes
itself (`ZipConstants`).

**`SolidExtractProofs`.**  `DecodesTheGroup` is about the buffer when the decoder
gets it, and says nothing before: it is far from inductive.  `Inv2` says what
the buffer is at every turn of the read loop: the blocks read so far in the
order of the archive (`InOrder`), none that is still to come (`NothingAhead`,
without which the next block could be there already), none left out
(`NothingMissing`).  For the keys it needs `InStep`, which ties the decryptor
in use to the end of the buffer: inside an entry it is that entry's, at the
place of the key stream where the last block ended.  That is the relation which
would break if `setup_decryptor` ran at another moment.  `AllAccepted` keeps,
for every entry that was begun, that its key and tag passed.  `Inv3` follows the
disk: up to the decoder a path holds what it held or a new directory.  Results:
`SolidTypeOK`, `SolidDecodesTheGroup`, `SolidTouchesNothingEarly`,
`SolidSuccessIsWhole`.  The last one takes the final contents from the last
wanted entry on each path and the file time from the last one that has a time,
and shows that `ApplyTimes` makes them meet.

**`EntryExtractProofs`.**  `Inv1` adds to the types what was accepted on the way
to where the loops stand: the entry at work was asked for and nothing is against
its name, key or tag; the blocks behind were right and within their limits.
`Inv2` is what every path holds: `Held(p)`, the content of the last entry
behind that was delivered there, but for the file at work, which holds exactly
the bytes so far.  `Inv3` says of each byte on disk or on the standard output
that it was allowed to leave (`MayEmit`); `Inv4` that the standard output is
sorted and is the set of bytes that were sent up to now, for "each once and in
order" is not inductive without the place at which the next one comes.
Results: `EntryTypeOK`, `EntryEmitsNothingUnaccepted`, `EntryPipesInOrder`, and
`EntryDelivers`, the refinement: `MakeDir`, `EmptyFile`, `EntryDone` and a skipped
entry are a `Deliver`, each kind of failure is `Abandon` (when blocks were
written, not before `RemovePartial`), the end is `Finish`, and the writes in
between leave the promise alone since its tree shows a file only when it is
done.

**`ProgramProofs`.**  Of `Session`, `Inv2` remembers that the password in use was asked for and
accepted by the first encrypted entry, `Inv3` that the entries delivered are the
wanted ones behind the entry at work, those with data among them with their own
key, and `Inv4` that what the reader got and what is still in the line buffer are
together the pieces said so far, in order and without a gap, but for garbage of
the entry at work; a reader that leaves cuts this stream but makes no hole.
`Inv5` keeps garbage at the end of the stream and its entry at work, on the way to
an error: `CheckEntry` is what makes this inductive.  `Inv6` says that only rests
wait in the buffer and that behind the last entry nothing else is missing; so the
reader who is full at the end can miss late rests and nothing more.  Results:
`SessionTypeOK`, `SessionAsksFirst`, `SessionStopsAtWrongKey`,
`SessionDeliversWhatWasAsked`.

Of `CommandLine`, the difficulty is that the user and the program take turns only
once: while the user types nothing has been read, and the letters of the last word
may still grow.  `After` is one step of reading as a function of the place and the
two words there, and `LeadsTo` says that reading on from one place passes through
another; it is a statement about all sets closed under `After`, so that no
recursion is needed.  `Typed` is the invariant of the user: from the beginning the
reading reaches the end of what was typed with exactly what was meant, or stops for
what comes first.  What is typed later does not change what was read of words that
are finished (`LeadsGrown`), and each form of an item adds to the reading what its
item adds to the meaning (`LetterItem`, `OptionItem`, `LongItem`, `LongOptionItem`,
and their steps).  `Parsing` is the invariant of the program: the place where it
stands lies on that way (`OnTheWay`), and every action is one step of it
(`FollowsParsing`, with a lemma for each arm of `parse_args`).  Result:
`ArgumentsAreUnderstood`, for any number of items.  It rests on
`CommandLineConstants`: what has a meaning is a character, and Unicode.

Of `FileTimes`, the invariant is `Calendar`: a day has a place in the cycle of 400
years, as century, four years, year, month and day, counted from March
(`OnDay`), and the date is that place's (`DateOn`); the time of day is the clock
of its second.  One half of the proof is the calendar's: the day behind a place is
the next place, and its date the next date, at the end of a month, a year, four
years, a century and a cycle (`DayBehind`).  The other half is the program's: the
four divisions of `days_to_ymd` find the place (`YearFound`, `DayFound`,
`MonthFound`).  For the ticks `FiletimeKeeps` shows that saturating twice loses
nothing as long as the ticks fit, and otherwise keeps the last second that does.
Result: `TimesStayRight`, which rests on `TimesConstants`: the epoch of 1970 itself
can be expressed.

Of `Names`, the invariant is `Named`: the name is the raw name cleaned, the path its
components, and the choice that of the operand at hand.  That a path only leads
down is then a matter of what cleaning and cutting leave (`NormalizedFacts`,
`ComponentsFacts`).  That FILE selects by components is the harder half: of two
names the one continues the other behind a slash (`Continues`, which is what
`matches_filter` asks about) if and only if its pieces are the first pieces of
the other (`SharedPieces`, `SamePieces`), and for plain names the pieces are the
components but for the last, empty one (`TrimComponents`, `MatchesComponents`).
The lemmas about `Nth` carry this: a finite set of numbers has a first, a second
and so on, one for each rank (`NthFacts`, `NthOrder`, `NthNext`), and a part of it
that is cut off from above has the same (`NthInitial`).  Result: `NamesStaySafe`, which
rests on `NamesConstants`: names and operands are sequences of characters, and the
slash is one.

**`ArchiveParserProofs`.**  The properties speak of the end, `"ok"` or
`"refused"`, and say nothing of the way there.  `InPlace` does: in a file that an
archiver wrote, with a reader that has not failed, the parser is always in front
of a record that was written for the loop it is in (`AtRecord`).  Every action
moves it to the next record (`OneRecordOn`), a block moves it over its data to
the next but one (`BlockInPlace`), and the peek behind an end marker tells the
end of a volume from the end of the archive (`EndsInPlace`).  This is inductive
but for one case that only the proof brought up: in a file that ends inside an
encryption header no length leads to an end marker, the declared one is taken,
and the parser goes on in the middle of a record.  There it finds nothing to go
on with, since the next record would begin behind the end of the file (`Lost`);
so such an archive is refused, which the invariant keeps as `~IsWhole`.
`WholeIsComplete` is the other half: in a whole file every record can be read,
with `TrueLength` for the payload of an encryption header.  Results:
`ParserTypeOK` (for any file, with any faults), `ParserNoticesCuts`,
`ParserOpensWholeArchives`.  They rest on `FilesAssumption`, that a file is a
finite list of records in the order of their positions.

What the entries hold is `Content`, on top of `InPlace`: in front of record k the
entries, with the one at work, are what the records 1 to k - 1 say (`Keeps`), and
so are the two flags of the archive; since `Keeps` takes the set of records as an
argument, each action has to be shown only for one record more
(`KeepsRecord`, `KeepsNew` for a header, `KeepsNothing` for a record without a
meaning).  That needs how ranks and first elements of a set grow (`RankAdd`,
`FirstAdd`), that a record behind the others belongs to the last header and to no
other (`LastHeader`, `OtherHeader`), and that an entry has one name and one
Windows time (`NoSecond`).  In front of an archive's end the records read are all
that the file still has (`AllKept`).  `resolve_relative_paths` looks parents up by
id in the finished list; `PrefixIsParents` shows that it finds the one entry with
that id, earlier or later.  Result: `ParserOpensWhatWasWritten`.  The attempt
found a flaw of an earlier model, which took a recorded time of zero for none and
so let a POSIX time replace it.

`SolidExtractProofs`, `EntryExtractProofs` and `ProgramProofs` do not use the
induction over data that the provers lack: where a definition walked over a sequence it is now stated by
quantification over positions (`SolidExtract.DecryptedInPlace` over neighbours
in the buffer, `Session.IsBeginning` over sets of pieces, `Names.Kept` over
ranks), and where a proof needs an induction it takes the first number of which
a statement fails (`LeastNumber`), which is a theorem without a parameter.  The assumptions they
rest on are `ArchivesAssumption`, `GroupsAssumption`, `TreesAssumption` and
`SessionAssumption`: an archive is a finite sequence of entries as the parser can
return them, a path holds nothing, a file or a directory before, and no password
is the absence of one.

## 7. What is only model-checked

* Liveness (`Terminates`, `ReadReturns`, `LoopEnds`): fairness and `ENABLED` are out of the
  prover's reach.
* `Lea`: its exclusive or comes from `Bitwise`, which proofs cannot use.
* `CtrStream.DecryptedInPlace` computes powers recursively, so that of the three
  parts of `Decrypts` only ZipCrypto's is proved.

## 8. What is not modelled

PBKDF2, AES and HMAC are external libraries, and so are the codecs (flate2,
bzip2, lzma-rs, azo): they appear as the choices their results give the code.
The arithmetic of ZipCrypto's three keys is a constant of its module, since what
matters of it is only that both sides use the same.  The decoding of legacy code
pages is a table in a library.  `ArchiveParser` leaves out the fields that only
the listing shows; of the listing, the lines are modelled and the time in them,
not their layout.  Paths are those of Unix.  A file that another process changes
while it is read is not considered, nor a `remove_file` that fails on a file the
program has just written.  CRC and HMAC are taken to tell different data apart; an entry of `Session` that
has blocks has at least a byte in them, for the CRC of nothing fits every key.

## 9. Findings

1. `solid_trailing_block`: `finish()` promises to refuse truncation
   (`extract.rs:583`); it also refuses a group that was produced whole, when the
   last block of the group has size zero, for `crc_idx` moves only inside
   `write`.
2. `solid_lost_blocks`: a solid group that lost all its blocks is refused "a
   nonzero declared size means the blocks were lost" (`extract.rs:451-452`), but
   only when files are written; in pipe mode it is a success without output.
3. `entry_declared_size`: an entry that lost *all* its block headers is refused
   for its declared size (`extract.rs:184-188`); one that lost *some* of them is
   written short and reported as a success.
4. `closed_pipe`: "a reader closing the pipe is a normal stop"
   (`main.rs:144`), "whichever I/O-carrying variant wrapped it" (`error.rs:61`);
   the LZMA and AZO wrappers turn the error into text (`lzma.rs:69`, `azo.rs:24`)
   and the program exits with 1.

The models hold five more places where the code and what is written about it
differ.  No run shows them; they follow from the actions named here.

* `ZipCrypto.CheckHeader`: `check_password` "returns true if password matches"
  (`crypto.rs:62`), `verify_password` "returns `Ok(false)` for a wrong password"
  (`extract.rs:151`); one byte is compared (`crypto.rs:71`), so that one wrong
  password in 256 is accepted.  The CRC of the data finds it out, after the file
  was created; in pipe mode the wrong bytes are out by then.
* `Session.FlushAndExit`: in pipe mode nothing flushes the standard output
  (`extract.rs:237`); what follows the last newline is written at the end of
  the process, and when that fails the status is 0 all the same, against the
  manual page's "EXIT STATUS" (`man/unegg.1:50`).  `SuccessIsReceived` names this
  as its one exception and says how far it goes: a reader that is still there and
  whose side is full misses rests which no line of a later entry follows.
* `Session.EndOfEntries`: with FILE operands "only the named FILEs are" extracted
  (`main.rs:17`), and the message counts the whole archive (`main.rs:220`).
* `CommandLine.Panic`: an argument that is not Unicode makes `std::env::args`
  panic (`main.rs:55`), status 101, which the manual page does not know.
* `Names.Normalized`: `normalize_path` is to "strip leading slashes, and drop
  control characters" (`encoding.rs:21`); it does so in this order, and a control
  character before a slash leaves the slash, with which the entry is refused.
