------------------------------- MODULE MCDisk -------------------------------
\* Sectors of two units, GameCube clusters of four, Wii clusters of two or four.
EXTENDS VirtualDisk

SmallSlots == [n \in 1 .. 3 |-> IF n = 3 THEN 2 ELSE 1]
SmallWiiClusters == <<1, 2>>

File(path, size, src) == [path |-> path, size |-> size, source |-> src, from |-> 1,
                          sourceSize |-> 9, card |-> 0]
SaveFile(path, size) == [path |-> path, size |-> size, source |-> 0, from |-> 0,
                         sourceSize |-> 0, card |-> 1]
GameCube(size, files) == [kind |-> "gamecube", size |-> size, files |-> files, games |-> {}]
Wii(games) == [kind |-> "wii", size |-> 0, files |-> {}, games |-> games]
Part(path, off, len) == [path |-> path, off |-> off, len |-> len]
Game(id, size, parts) == [id |-> id, size |-> size, parts |-> parts]

Nested == {File(<<1, 2>>, 5, 1), File(<<1, 3>>, 4, 2), SaveFile(<<2, 1>>, 6)}
Flat == {File(<<1>>, 3, 1), File(<<2>>, 0, 2)}
SmallLibraries ==
    <<GameCube(66, Nested), GameCube(82, Nested), GameCube(90, Nested), GameCube(91, Nested),
      GameCube(70, Flat), GameCube(90, {File(<<1, 1, 1>>, 8, 1)}),
      GameCube(90, Nested \cup {SaveFile(<<3>>, 2)}),
      Wii({Game(1, 7, {Part(1, 0, 3), Part(2, 3, 4)}), Game(2, 3, {Part(1, 0, 3)})}),
      Wii({Game(1, 13, {Part(1, 0, 13)})}), Wii({Game(1, 4, {Part(1, 0, 3)})}), Wii({})>>
SmallReads == (0 .. 90) \X {3, 7}
SmallWrites == {<<78, 2>>, <<80, 3>>, <<83, 2>>}

=============================================================================
