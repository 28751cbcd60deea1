------------------------------ MODULE TagWalk ------------------------------
(***************************************************************************)
(* The two walks through the frames of an ID3v2 tag (internal/scanner/     *)
(* id3.go): the scan's, which wants text frames and reads little, and that *)
(* of getLyrics, which wants USLT and SYLT frames and takes the latter     *)
(* apart.  What the bytes say is arbitrary: a frame header read at any     *)
(* position may name any frame and any size.  Positions count from the end *)
(* of the 10-byte tag header; what is made of the texts is left out.       *)
(***************************************************************************)
EXTENDS Integers

CONSTANTS
  ScanCap,    \* id3ReadCap without the header, and the size of a text frame
  LyricsCap,  \* lyricsReadCap
  TagSizes,   \* sizes a tag header can declare
  Sizes       \* sizes a frame or an extended header can declare

ASSUME WalkAssumption ==
  /\ ScanCap \in Nat /\ LyricsCap \in Nat /\ TagSizes \subseteq Nat /\ Sizes \subseteq Nat

VARIABLES
  walk,  \* idle, walking frames, or in the lines of a SYLT frame
  tag,   \* major version and declared size of the tag
  buf,   \* bytes read
  pos,   \* pos of the loop over frames
  rest,  \* where rest begins in the frame being taken apart
  cut    \* history: the slice of buf taken last

walker == <<walk, tag, buf, pos, rest, cut>>

NoTag == [major |-> 2, size |-> 0, kind |-> "scan"]
NoCut == [from |-> 0, to |-> 0]
Slice(from, to) == [from |-> from, to |-> to]

WalkInit ==
  /\ walk = "idle" /\ tag = NoTag /\ buf = 0 /\ pos = 0 /\ rest = 0 /\ cut = NoCut

\* The walk returns what it has; the next one starts anew.
Finish ==
  /\ walk' = "idle" /\ tag' = NoTag /\ buf' = 0 /\ pos' = 0 /\ rest' = 0 /\ cut' = NoCut

Cap(kind) == IF kind = "scan" THEN ScanCap ELSE LyricsCap
FrameHeader == IF tag.major = 2 THEN 6 ELSE 10

\* Of an extended header: the size excludes its own four bytes before 2.4.
AfterExtended(major, ext) == 4 + ext - (IF major = 4 THEN 4 ELSE 0)

\* The header is read, and as much of the tag as the file has and the cap allows.
StartWalk(kind, major, size, n) ==
  /\ walk = "idle" /\ n <= size /\ n <= Cap(kind)
  /\ walk' = "frames" /\ tag' = [major |-> major, size |-> size, kind |-> kind] /\ buf' = n
  /\ \/ pos' = 0
     \/ major >= 3 /\ n >= 4 /\ \E ext \in Sizes : pos' = AfterExtended(major, ext)
  /\ UNCHANGED <<rest, cut>>

InTag == walk = "frames" /\ pos < tag.size /\ pos + FrameHeader <= buf

\* The end of the tag or of what was read, padding, or an empty frame: the last
\* two can be anywhere.
EndOfFrames == walk = "frames" /\ Finish

\* A wanted text frame, all of it read, is decoded.
TextFrame(size) ==
  /\ InTag /\ tag.kind = "scan" /\ size > 0 /\ size < ScanCap
  /\ pos + FrameHeader + size <= buf
  /\ cut' = Slice(pos + FrameHeader, pos + FrameHeader + size)
  /\ pos' = pos + FrameHeader + size
  /\ UNCHANGED <<walk, tag, buf, rest>>

\* Any other frame is skipped.
SkipFrame(size) ==
  /\ InTag /\ size > 0 /\ pos + FrameHeader + size <= buf
  /\ pos' = pos + FrameHeader + size
  /\ UNCHANGED <<walk, tag, buf, rest, cut>>

\* A frame that is cut off ends the walk.
CutOffFrame(size) ==
  /\ InTag /\ size > 0 /\ pos + FrameHeader + size > buf
  /\ Finish

-----------------------------------------------------------------------------
(* Lyrics.  Strings end with a zero byte, or in UTF-16 (wide) with two at   *)
(* an even distance from their beginning.                                  *)

Widths == {1, 2}

\* Where the rest of from..to may begin after a string: behind its terminator
\* (first the string of n units), or at the end when there is none.
AfterString(from, to, width) ==
  {from + width * (n + 1) : n \in {n \in 0..(to - from) : from + width * (n + 1) <= to}}
Skipped(from, to, width) == AfterString(from, to, width) \cup {to}

\* parseUSLT: encoding, language, a description, and the text is what is left.
UnsyncedFrame(size) ==
  /\ InTag /\ tag.kind = "lyrics" /\ size >= 5 /\ pos + FrameHeader + size <= buf
  /\ pos' = pos + FrameHeader + size
  /\ \E width \in Widths : \E r \in Skipped(pos + FrameHeader + 4, pos', width) :
       cut' = Slice(r, pos')
  /\ UNCHANGED <<walk, tag, buf, rest>>

\* parseSYLT: two more bytes, the description, then lines.  pos is the end.
SyncedFrame(size) ==
  /\ InTag /\ tag.kind = "lyrics" /\ size >= 7 /\ pos + FrameHeader + size <= buf
  /\ pos' = pos + FrameHeader + size
  /\ \E width \in Widths : rest' \in Skipped(pos + FrameHeader + 6, pos', width)
  /\ walk' = "lines"
  /\ UNCHANGED <<tag, buf, cut>>

\* Mutant of SyncedLine: the four bytes of the time need not be there.
SyncedLineUnchecked ==
  /\ walk = "lines" /\ rest < pos
  /\ \E width \in Widths : \E r \in AfterString(rest, pos, width) :
       rest' = r + 4 /\ cut' = Slice(r, r + 4)
  /\ UNCHANGED <<walk, tag, buf, pos>>

\* A text, its terminator and a time.
SyncedLine ==
  /\ walk = "lines" /\ rest < pos
  /\ \E width \in Widths : \E r \in AfterString(rest, pos, width) :
       r + 4 <= pos /\ rest' = r + 4 /\ cut' = Slice(r, r + 4)
  /\ UNCHANGED <<walk, tag, buf, pos>>

\* Nothing is left, or no terminator, or no time behind it.
EndOfLines ==
  /\ walk = "lines" /\ walk' = "frames" /\ rest' = 0
  /\ UNCHANGED <<tag, buf, pos, cut>>

-----------------------------------------------------------------------------
WalkStep ==
  \/ \E size \in Sizes :
       TextFrame(size) \/ SkipFrame(size) \/ CutOffFrame(size) \/ UnsyncedFrame(size) \/ SyncedFrame(size)
  \/ EndOfFrames \/ SyncedLine \/ EndOfLines
WalkNext ==
  \/ \E kind \in {"scan", "lyrics"}, major \in 2..4, size \in TagSizes :
       \E n \in 0..size : StartWalk(kind, major, size, n)
  \/ WalkStep
WalkSpec == WalkInit /\ [][WalkNext]_walker

-----------------------------------------------------------------------------
(* Properties.                                                             *)

\* Whatever a file claims, no walk slices outside the bytes it read: Go would
\* panic.  The end of a frame and of every line in it stay in the buffer.
WalkInBounds ==
  /\ 0 <= cut.from /\ cut.from <= cut.to /\ cut.to <= buf
  /\ walk = "lines" => 0 <= rest /\ rest <= pos /\ pos <= buf
=============================================================================
