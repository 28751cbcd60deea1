SPECIFICATION Spec
CONSTANTS
  Playlist = {p1}
  User = {u1, u2}
  Song = {s1, s2, s3}
  MaxPlaylistSongs = 3
  MaxPosition = 3
  MaxRequestSongs = 3
  NoOwner = NoOwner
VIEW View
PROPERTY RemovesByIndex
