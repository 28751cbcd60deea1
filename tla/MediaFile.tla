----------------------------- MODULE MediaFile -----------------------------
(***************************************************************************)
(* What preamp does with an audio file: the scan reads its tag and stores  *)
(* its length (internal/scanner/duration.go), a player that knows the      *)
(* length plays it range by range (internal/api/slice.go), and both read   *)
(* the bytes with parsers of their own.                                    *)
(*                                                                         *)
(* Tags and audio are different bytes and neither parser looks at the      *)
(* other's: the walks take place before it is chosen which file it is.     *)
(***************************************************************************)
EXTENDS Slices, TagWalk

VARIABLE stored   \* song.duration, in seconds

media == <<file, at, reply, stored, walk, tag, buf, pos, rest, cut>>

Unread == [kind |-> "unread"]

\* Mutant of Mp3Seconds: every frame is taken for one of MPEG-1.
Mp3SecondsMpeg1(f) ==
  IF f.counted THEN (f.frames * 2 * HalfFrame) \div f.sampleRate
  ELSE AudioBytes(f) \div (f.rate * TicksPerSecond)

\* What Xing says, be it zero, or what a constant rate would give.
Mp3Seconds(f) ==
  IF f.counted
  THEN (f.frames * (IF f.version = 1 THEN 2 * HalfFrame ELSE HalfFrame)) \div f.sampleRate
  ELSE AudioBytes(f) \div (f.rate * TicksPerSecond)

FlacSeconds(f) == f.samples \div f.rate

NativeSeconds(f) ==
  CASE f.kind = "mp3"  -> Mp3Seconds(f)
    [] f.kind = "flac" -> FlacSeconds(f)
    [] OTHER           -> 0

\* ffprobe, where it is installed: a duration from the same headers, rounded.
Probed(f) ==
  LET Rounded(n, d) == (2 * n + d) \div (2 * d)
      seconds ==
        CASE f.kind = "mp3"  -> Rounded(Mp3Total(f).n, Mp3Total(f).d * TicksPerSecond)
          [] f.kind = "flac" -> Rounded(f.samples, f.rate)
          [] f.kind = "wav"  -> Rounded(WavWalk(f.chunks, f.size).dataSize, f.rate * f.align)
          [] OTHER           -> 1
  IN {0, seconds}

\* parseDuration: a native length of 0 is as good as none.
ParseDuration(f) == IF NativeSeconds(f) > 0 THEN {NativeSeconds(f)} ELSE Probed(f)

-----------------------------------------------------------------------------
Init ==
  /\ file = Unread /\ at = 0 /\ reply = WholeFile /\ stored = 0
  /\ WalkInit

Walk == file = Unread /\ WalkNext /\ UNCHANGED <<file, at, reply, stored>>

\* readTrack: the tag has been read, the length is stored.
ReadTrack(f) ==
  /\ file = Unread /\ walk = "idle"
  /\ file' = f
  /\ stored' \in ParseDuration(f)
  /\ UNCHANGED <<at, reply, walk, tag, buf, pos, rest, cut>>

PlayOn(d) == file # Unread /\ Play(d) /\ UNCHANGED <<stored, walk, tag, buf, pos, rest, cut>>

Next ==
  \/ Walk
  \/ \E f \in Files : ReadTrack(f)
  \/ \E d \in Durations : PlayOn(d)
Spec == Init /\ [][Next]_media

-----------------------------------------------------------------------------
(* Properties.                                                             *)

\* Both parsers take a file to be as long: every whole second of the stored
\* length is one the slicer can start at, and behind the last there is less
\* than another.  A client that seeks in seconds gets ranges, not whole files.
StoredLengthSliced ==
  stored > 0 /\ file.kind \in {"mp3", "flac", "wav"} =>
    /\ \A k \in 0..(stored - 1) : ~Past(file, k * TicksPerSecond)
    /\ Past(file, (stored + 1) * TicksPerSecond)
=============================================================================
