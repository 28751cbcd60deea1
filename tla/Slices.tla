------------------------------- MODULE Slices -------------------------------
(***************************************************************************)
(* Serving a time range of an audio file (internal/api/slice.go): a player *)
(* asks for the tracks of an album file one after the other.               *)
(*                                                                         *)
(* A file is what the parsers find in it.  Times are in ticks.  The code   *)
(* computes with float64, rounding at every step, and truncates.  A tick   *)
(* is coarse against 53 bits, so this differs from the floor of the exact  *)
(* rational only where that is a whole number: there the sum startTime +   *)
(* duration, or the product, may come out just below it.  Which of the two *)
(* cuts of a request do is chosen anew each time (Early); the end of the   *)
(* file is computed from its length alone, and f.lost says once and for    *)
(* all whether it comes out early.                                         *)
(***************************************************************************)
EXTENDS Integers, Sequences, FiniteSetsExt

CONSTANTS
  Files,            \* what is on the disk
  Durations,        \* lengths of the ranges asked for
  MaxTime,          \* bound on the position in the album
  TicksPerSecond,
  TocSize,          \* 100
  TocScale,         \* 256: entries are bytes
  Placeholder,      \* sample number of an unused seek point, 2^64 - 1
  SizeModulus,      \* RIFF sizes have 32 bits
  HalfFrame         \* 576: samples of an MPEG-2 frame, half those of MPEG-1

ASSUME SlicesAssumption ==
  /\ Durations \subseteq Nat \ {0} /\ MaxTime \in Nat
  /\ TicksPerSecond \in Nat \ {0} /\ TocSize \in Nat \ {0} /\ TocScale \in Nat \ {0}
  /\ HalfFrame \in Nat \ {0} /\ SizeModulus \in Nat \ {0}

VARIABLES
  file,
  at,       \* where the next track starts
  reply     \* to the last request

vars == <<file, at, reply>>

\* sliceX returned false: http.ServeContent sends the whole file.
WholeFile == [sliced |-> FALSE, from |-> 0, to |-> 0, length |-> 0, riff |-> 0, chunks |-> <<>>]

\* Mutant of Reply: an empty range is not noticed.
ReplyUnchecked(from, to, header) ==
  [WholeFile EXCEPT !.sliced = TRUE, !.from = from, !.to = to, !.length = header + to - from]

\* Bytes from..to-1 of the file behind a header, announced in Content-Length.
Reply(from, to, header) ==
  IF from >= to THEN WholeFile
  ELSE [WholeFile EXCEPT !.sliced = TRUE, !.from = from, !.to = to, !.length = header + to - from]

\* Whether the start and the end of a range come out early (1) or not (0).
Early == [from : {0, 1}, to : {0, 1}]

\* int64 of n / d.
Truncated(n, d, early) == n \div d - (IF n > 0 /\ n % d = 0 THEN early ELSE 0)

\* Samples at `rate' per second before time t.
Samples(t, rate, early) == Truncated(t * rate, TicksPerSecond, early)

-----------------------------------------------------------------------------
(* MP3: start is the first frame, rate its bytes per tick, version and     *)
(* sampleRate what its header says; counted whether a Xing header has the  *)
(* number of frames, frames that number, toc its table (<<>>: none).       *)

\* Whether the table says more at the fraction n/d than just before it, so that a
\* fraction that comes out early is at an earlier byte.
Rises(toc, n, d) ==
  LET i == (n * TocSize) \div d
  IN IF (n * TocSize) % d = 0 THEN i \in 1..(TocSize - 1) /\ toc[i] < toc[i + 1]
     ELSE i < TocSize - 1 /\ toc[i + 1] < toc[i + 2]

\* Mutant of TocLookup: adds the next entry instead of the difference.
TocLookupSum(toc, audioBytes, n, d, early) ==
  IF n <= 0 THEN 0
  ELSE IF n >= d + early THEN audioBytes
  ELSE LET i == (n * TocSize) \div d
           frac == (n * TocSize) % d
       IN IF i >= TocSize - 1 THEN (toc[TocSize] * audioBytes) \div TocScale
          ELSE ((toc[i + 1] * d + frac * toc[i + 2]) * audioBytes) \div (TocScale * d)

\* Mutant of TocLookup: the end of the file is looked up as any other time.
TocLookupNoEnd(toc, audioBytes, n, d, early) ==
  LET i == (n * TocSize) \div d
      frac == (n * TocSize) % d
  IN IF i >= TocSize - 1 THEN (toc[TocSize] * audioBytes) \div TocScale
     ELSE ((toc[i + 1] * d + frac * (toc[i + 2] - toc[i + 1])) * audioBytes) \div (TocScale * d)

\* The byte at the fraction n/d of the time; toc[k + 1] is entry k of the code.
TocLookup(toc, audioBytes, n, d, early) ==
  IF n <= 0 THEN 0
  ELSE IF n >= d + early THEN audioBytes
  ELSE LET i == (n * TocSize) \div d
           frac == (n * TocSize) % d
           low == IF Rises(toc, n, d) THEN early ELSE 0
       IN IF i >= TocSize - 1 THEN Truncated(toc[TocSize] * audioBytes, TocScale, low)
          ELSE Truncated((toc[i + 1] * d + frac * (toc[i + 2] - toc[i + 1])) * audioBytes, TocScale * d, low)

AudioBytes(f) == f.size - f.start

SamplesPerFrame(version) == IF version = 1 THEN 2 * HalfFrame ELSE HalfFrame

\* totalDuration n/d: what Xing says, or what a constant rate would give.
Mp3Total(f) ==
  IF f.frames > 0
  THEN [n |-> f.frames * SamplesPerFrame(f.version) * TicksPerSecond, d |-> f.sampleRate]
  ELSE [n |-> AudioBytes(f), d |-> f.rate]

\* The byte at time t, cut to the total.
Mp3Byte(f, t, early) ==
  LET total == Mp3Total(f)
  IN f.start + IF f.toc # <<>> THEN TocLookup(f.toc, AudioBytes(f), t * total.d, total.n, early)
               ELSE Min({Truncated(t * f.rate, 1, early), (total.n * f.rate) \div total.d - f.lost})

\* startTime >= endTime.  Without a count of frames totalDuration is rounded twice
\* and may come out behind a start that is exactly there.
Mp3Ended(f, s, early) ==
  LET total == Mp3Total(f)
  IN s * total.d > total.n \/ (s * total.d = total.n /\ (f.frames > 0 \/ early = 0))

SliceMP3(f, s, d, early) ==
  IF Mp3Ended(f, s, early.from) THEN WholeFile
  ELSE Reply(Mp3Byte(f, s, early.from), Min({Mp3Byte(f, s + d, early.to), f.size}), 0)

-----------------------------------------------------------------------------
(* FLAC: start is the end of the metadata, points the SEEKTABLE, in order  *)
(* of their samples; frames (where each starts) and frameLen (its samples) *)
(* are what the code does not read: where the samples really are.          *)

\* The last seek point at or before the target.
SeekPointFloor(points, target) ==
  LET Passed(i) == points[i].sample = Placeholder \/ points[i].sample <= target
      passed == {i \in DOMAIN points : points[i].sample # Placeholder /\ \A j \in 1..i : Passed(j)}
  IN IF passed = {} THEN 0 ELSE points[Max(passed)].offset

\* Mutant of SeekPointCeil: the point at the target will do.
SeekPointCeilAt(points, target, audioSize) ==
  LET later == {i \in DOMAIN points : points[i].sample # Placeholder /\ points[i].sample >= target}
  IN IF later = {} THEN audioSize ELSE points[Min(later)].offset

\* The first seek point after the target, or the end.
SeekPointCeil(points, target, audioSize) ==
  LET later == {i \in DOMAIN points : points[i].sample # Placeholder /\ points[i].sample > target}
  IN IF later = {} THEN audioSize ELSE points[Min(later)].offset

\* The header is the marker and STREAMINFO.
SliceFLAC(f, s, d, early) ==
  LET endSample == Min({Samples(s + d, f.rate, early.to), f.samples - f.lost})
      to == f.start + SeekPointCeil(f.points, endSample, f.size - f.start)
  IN IF f.points = <<>> \/ s * f.rate >= f.samples * TicksPerSecond THEN WholeFile
     ELSE Reply(f.start + SeekPointFloor(f.points, Samples(s, f.rate, early.from)), Min({to, f.size}), 4 + 4 + 34)

-----------------------------------------------------------------------------
(* WAV: chunks are the ids and sizes of the chunk headers, align the bytes *)
(* of a sample of all channels.                                            *)

ChunkIds == {"fmt", "data", "other"}
FmtSizes == 16..1024

\* Where the header of chunk k is: chunks are padded to even sizes.
ChunkAt(chunks, k) ==
  LET header[j \in 1..(Len(chunks) + 1)] ==
        IF j = 1 THEN 12
        ELSE header[j - 1] + 8 + chunks[j - 1].size + (chunks[j - 1].size % 2)
  IN header[k]

\* The walk stops when it has both chunks, or at the end of the file; of two
\* data chunks before "fmt " it takes the second.  0 stands for none, or for a
\* "fmt " chunk of a wrong size or cut off, at which sliceWAV returns.
WavWalk(chunks, size) ==
  LET ids(K) == {chunks[k].id : k \in K}
      seen == {k \in DOMAIN chunks : ChunkAt(chunks, k) < size - 8
                                     /\ ~({"fmt", "data"} \subseteq ids(1..(k - 1)))}
      last(id) == Max({k \in seen : chunks[k].id = id})
      has(id) == id \in ids(seen)
      Read(k) == chunks[k].size \in FmtSizes /\ ChunkAt(chunks, k) + 8 + chunks[k].size <= size
      formatted == has("fmt") /\ \A k \in seen : chunks[k].id = "fmt" => Read(k)
  IN [fmtLen     |-> IF formatted THEN chunks[last("fmt")].size ELSE 0,
      dataOffset |-> IF has("data") THEN ChunkAt(chunks, last("data")) + 8 ELSE 0,
      dataSize   |-> IF has("data") THEN chunks[last("data")].size ELSE 0]

\* Mutant of WavReply: the data chunk keeps the size it had.
WavReplyOldSize(w, startByte, endByte) ==
  LET r == Reply(w.dataOffset + startByte, w.dataOffset + endByte, 12 + 8 + w.fmtLen + 8)
  IN IF ~r.sliced THEN r
     ELSE [r EXCEPT !.riff = (r.length - 8) % SizeModulus,
                    !.chunks = <<[id |-> "fmt", size |-> w.fmtLen],
                                 [id |-> "data", size |-> w.dataSize]>>]

\* Header and chunk sizes as they are written, in front of the samples.
WavReply(w, startByte, endByte) ==
  LET r == Reply(w.dataOffset + startByte, w.dataOffset + endByte, 12 + 8 + w.fmtLen + 8)
  IN IF ~r.sliced THEN r
     ELSE [r EXCEPT !.riff = (r.length - 8) % SizeModulus,
                    !.chunks = <<[id |-> "fmt", size |-> w.fmtLen],
                                 [id |-> "data", size |-> endByte - startByte]>>]

\* Mutant of SliceWAV: the start is not moved to a whole sample.
SliceWAVUnaligned(f, s, d, early) ==
  LET w == WavWalk(f.chunks, f.size)
  IN IF w.fmtLen = 0 \/ s * f.rate * f.align >= w.dataSize * TicksPerSecond THEN WholeFile
     ELSE WavReply(w, (s * f.rate * f.align) \div TicksPerSecond,
                   Min({Samples(s + d, f.rate, early.to), w.dataSize \div f.align - f.lost}) * f.align)

SliceWAV(f, s, d, early) ==
  LET w == WavWalk(f.chunks, f.size)
  IN IF w.fmtLen = 0 \/ s * f.rate * f.align >= w.dataSize * TicksPerSecond THEN WholeFile
     ELSE WavReply(w, Samples(s, f.rate, early.from) * f.align,
                   Min({Samples(s + d, f.rate, early.to), w.dataSize \div f.align - f.lost}) * f.align)

-----------------------------------------------------------------------------
(* Files as their formats have them, which the code relies on.  Only where  *)
(* the exact end is a whole number can float64 come out below it.           *)

Ascending(s) == \A i, j \in DOMAIN s : i <= j => s[i] <= s[j]

ProperMP3(f) ==
  /\ f.start \in Nat /\ f.size \in Nat /\ f.start < f.size
  /\ f.rate \in Nat \ {0} /\ f.sampleRate \in Nat \ {0} /\ f.version \in {1, 2}
  /\ f.frames \in Nat /\ f.counted \in BOOLEAN /\ (f.frames > 0 => f.counted)
  /\ f.toc # <<>> => f.toc \in [1..TocSize -> 0..(TocScale - 1)] /\ Ascending(f.toc)
  /\ f.lost \in {0, 1} /\ (f.lost = 1 => (Mp3Total(f).n * f.rate) % Mp3Total(f).d = 0)

\* Every frame but the last has frameLen samples, and a seek point is a frame.
ProperFLAC(f) ==
  /\ f.start \in Nat /\ f.size \in Nat /\ f.rate \in Nat \ {0} /\ f.frameLen \in Nat \ {0}
  /\ f.samples \in Nat /\ f.lost \in {0, 1}
  /\ f.frames \in Seq(f.start..f.size) /\ Ascending(f.frames)
  /\ f.samples > 0 => (Len(f.frames) - 1) * f.frameLen < f.samples
  /\ \A i \in DOMAIN f.points : f.points[i].sample # Placeholder =>
       \E k \in DOMAIN f.frames : /\ f.points[i].sample = (k - 1) * f.frameLen
                                  /\ f.start + f.points[i].offset = f.frames[k]
  /\ f.points \in Seq([sample : Nat, offset : Nat])

ProperWAV(f) ==
  /\ f.size \in Nat /\ f.rate \in Nat \ {0} /\ f.align \in Nat \ {0} /\ f.lost \in {0, 1}
  /\ f.chunks \in Seq([id : ChunkIds, size : Nat])
  /\ f.lost = 1 => WavWalk(f.chunks, f.size).dataSize % f.align = 0

ASSUME FilesAssumption ==
  \A f \in Files :
    CASE f.kind = "mp3"  -> ProperMP3(f)
      [] f.kind = "flac" -> ProperFLAC(f)
      [] f.kind = "wav"  -> ProperWAV(f)
      [] OTHER           -> f.start \in Nat

-----------------------------------------------------------------------------
\* Time t is not before the end the slicer goes by.
Past(f, t) ==
  CASE f.kind = "mp3"  -> t * Mp3Total(f).d >= Mp3Total(f).n
    [] f.kind = "flac" -> t * f.rate >= f.samples * TicksPerSecond
    [] OTHER           -> t * f.rate * f.align >= WavWalk(f.chunks, f.size).dataSize * TicksPerSecond

\* It is behind that end.
Beyond(f, t) ==
  CASE f.kind = "mp3"  -> t * Mp3Total(f).d > Mp3Total(f).n
    [] f.kind = "flac" -> t * f.rate > f.samples * TicksPerSecond
    [] OTHER           -> t * f.rate * f.align > WavWalk(f.chunks, f.size).dataSize * TicksPerSecond

\* serveSlicedAudio: by the extension of the file.
ServeSliced(f, s, d, early) ==
  CASE f.kind = "mp3"  -> SliceMP3(f, s, d, early)
    [] f.kind = "flac" -> SliceFLAC(f, s, d, early)
    [] f.kind = "wav"  -> SliceWAV(f, s, d, early)
    [] OTHER           -> WholeFile

\* First byte of audio, and the one after the last that makes a whole sample.
AudioStart(f) == IF f.kind = "wav" THEN WavWalk(f.chunks, f.size).dataOffset ELSE f.start
AudioEnd(f) ==
  IF f.kind # "wav" THEN f.size
  ELSE LET w == WavWalk(f.chunks, f.size) IN w.dataOffset + (w.dataSize \div f.align) * f.align

\* The player asks for the next track; handleStream wants a positive duration.
Play(d) ==
  /\ at + d <= MaxTime
  /\ \E early \in Early : reply' = ServeSliced(file, at, d, early)
  /\ at' = at + d
  /\ UNCHANGED file

-----------------------------------------------------------------------------
(* Properties.                                                             *)

\* A slice is not empty and starts in the audio.
TypeOK ==
  /\ at \in 0..MaxTime
  /\ reply.length \in Nat /\ reply.riff \in Nat
  /\ reply.sliced => AudioStart(file) <= reply.from /\ reply.from < reply.to

\* All of the data chunk is there.
Complete(f) == f.kind = "wav" =>
  LET w == WavWalk(f.chunks, f.size) IN w.dataOffset + w.dataSize <= f.size

\* Slices that follow each other join to the sample (WAV) or byte (MP3): float64
\* may have them overlap by one or miss one, but only where the boundary is a whole
\* number, and then never by more, however many ranges came before.
JoinsToTheSample ==
  [][reply.sliced /\ reply'.sliced /\ file.kind \in {"mp3", "wav"} /\ ~Past(file, at) =>
       LET unit == IF file.kind = "wav" THEN file.align ELSE 1
           whole == file.kind = "wav" => (at * file.rate) % TicksPerSecond = 0
       IN \/ reply'.from = reply.to
          \/ whole /\ reply'.from \in {reply.to - unit, reply.to + unit}]_vars

\* Bytes of a FLAC file before frame k.
FrameAt(f, k) == IF k > Len(f.frames) THEN f.size ELSE f.frames[k]

\* All frames with a sample of the range asked for are in the slice: of which
\* there are d ticks before time `at'.
FlacCovers ==
  [][\A d \in Durations : reply'.sliced /\ file.kind = "flac" /\ at' = at + d =>
       \A k \in DOMAIN file.frames :
         LET first == (k - 1) * file.frameLen
             wanted == first * TicksPerSecond < (at + d) * file.rate
                       /\ Samples(at, file.rate, 0) < first + file.frameLen
         IN wanted => reply'.from <= FrameAt(file, k) /\ FrameAt(file, k + 1) <= reply'.to]_vars

\* A later time is never an earlier byte, also where the code goes from one way
\* of finding it to another, at the last entry of the table and at the end, and
\* whichever of them float64 makes early.
TocMonotone ==
  file.kind = "mp3" =>
    \A t \in 0..MaxTime, u \in Durations, early \in Early :
      Mp3Byte(file, t, early.from) <= Mp3Byte(file, t + u, early.to)

\* A player that reads the WAV reply as preamp reads files finds the slice, and
\* the 32-bit sizes do not wrap if those of the file did not.  (No pad byte is
\* written behind a "fmt " chunk of an odd size, which no encoder writes.)
WavReplyParses ==
  LET w == WavWalk(file.chunks, file.size)
  IN reply.sliced /\ file.kind = "wav" /\ Complete(file) /\ file.size - 8 < SizeModulus
       /\ w.fmtLen % 2 = 0 =>
     /\ reply.riff = reply.length - 8
     /\ WavWalk(reply.chunks, reply.length) =
          [fmtLen |-> w.fmtLen, dataOffset |-> reply.length - (reply.to - reply.from),
           dataSize |-> reply.to - reply.from]

\* A track asked for to behind the end ends with the last whole sample, or the one
\* before it where float64 loses one; unless the file has a Xing header without a table: then
\* the rate of the first frame is all there is.
LastTrackComplete ==
  LET guessed == file.kind = "mp3" /\ file.frames > 0 /\ file.toc = <<>>
      slack == CASE file.kind = "mp3" -> 1 [] file.kind = "flac" -> 0 [] OTHER -> file.align
  IN reply.sliced /\ Beyond(file, at) /\ ~guessed =>
       reply.to \in (AudioEnd(file) - file.lost * slack)..AudioEnd(file)
=============================================================================
