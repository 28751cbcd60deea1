SPECIFICATION Spec
CONSTANTS
  Path = {p1, p2}
  Album = {"al1", "al2"}
  Artist = {"ar1", "ar2"}
  AlbumOf <- MCAlbumOf
  ArtistOf <- MCArtistOf
  MaxVersion = 3
  MaxId = 3
  MaxScans = 2
  ChunkSize = 1
  NoSong = NoSong
SYMMETRY Symmetry
INVARIANTS
  TypeOK
  ReferencesOK
  
  
  CompletedScanTidy
PROPERTIES
  IdStable
  UserDataGoesWithSong
\* Disk writes and scans are bounded, so the model may stop.
CHECK_DEADLOCK FALSE
