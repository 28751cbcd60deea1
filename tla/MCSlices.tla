------------------------------ MODULE MCSlices ------------------------------
EXTENDS MediaFile, SequencesExt

\* Tables in ascending order, or none; a total from Xing, or none (-1).
Tocs == {t \in [1..TocSize -> 0..(TocScale - 1)] : \A i \in 2..TocSize : t[i - 1] <= t[i]}
MP3(size, rate, version, hz, xing, toc, lost) ==
  [kind |-> "mp3", start |-> 3, size |-> size, rate |-> rate, version |-> version,
   sampleRate |-> hz, counted |-> xing # -1, frames |-> IF xing = -1 THEN 0 ELSE xing,
   toc |-> toc, lost |-> lost]
MP3s ==
  {MP3(24, 4, 2, 2, x, t, 0) : x \in {4, 7}, t \in Tocs}
  \cup {f \in {MP3(z, r, v, 2 * (3 - v), x, <<>>, lost) :
            z \in {4, 19, 24}, r \in {3, 4}, v \in {1, 2}, x \in {-1, 0, 1, 4, 7}, lost \in {0, 1}} :
          f.lost = 0 \/ (Mp3Total(f).n * f.rate) % Mp3Total(f).d = 0}

\* Frames of two samples; a seek point for some of them, then a placeholder.
FLACs ==
  {[kind |-> "flac", start |-> 5, size |-> 15, rate |-> r, samples |-> n, frames |-> fr, frameLen |-> 2,
    lost |-> lost,
    points |-> LET ks == SetToSortSeq(pts, <)
               IN [i \in 1..Len(ks) |-> [sample |-> 2 * (ks[i] - 1), offset |-> fr[ks[i]] - 5]]
                  \o [i \in 1..pad |-> [sample |-> Placeholder, offset |-> 0]]] :
     fr \in {<<5, 7, 10, 12>>, <<5, 8, 11, 13>>}, r \in {2, 3}, n \in {7, 8}, pts \in SUBSET (1..4),
     pad \in {0, 1}, lost \in {0, 1}}

\* "fmt " and "data" in both orders, with another chunk before, between or after.
Orders == {<<"fmt", "data">>, <<"data", "fmt">>, <<"other", "fmt", "data">>, <<"fmt", "other", "data">>,
           <<"fmt", "data", "other">>, <<"other", "data", "fmt">>, <<"data", "data", "fmt">>, <<"data">>}
WAVs ==
  {f \in {[kind |-> "wav", rate |-> r, align |-> a, lost |-> lost,
           size |-> ChunkAt(ch, Len(ch) + 1) - short, chunks |-> ch] :
             r \in {2, 3}, a \in {1, 2, 4}, short \in {0, 2}, lost \in {0, 1},
             ch \in {[i \in DOMAIN o |-> [id |-> o[i],
                       size |-> CASE o[i] = "fmt" -> n.fmt [] o[i] = "data" -> n.data [] OTHER -> 3]] :
                        o \in Orders, n \in [fmt : {14, 16, 17, 18}, data : {7, 12, 13}]}} :
     f.lost = 0 \/ WavWalk(f.chunks, f.size).dataSize % f.align = 0}

Others == {[kind |-> "ogg", start |-> 0, size |-> 9]}
MCFiles == MP3s \cup FLACs \cup WAVs \cup Others
=============================================================================
