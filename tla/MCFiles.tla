------------------------------ MODULE MCFiles -------------------------------
(* A directory to delete, two levels deep, with an entry that is neither    *)
(* file nor directory; and one with the folder for uploads and a file.      *)
EXTENDS FilesProperties

N(rest) == [nums |-> <<>>, rest |-> rest]

MCFolder    == <<N("up")>>
MCFilenames == {N("upload"), [nums |-> <<1>>, rest |-> "upload"]}

Disk(dirs, files, others) ==
  [p \in dirs \cup files \cup others |->
     [kind |-> IF p \in dirs THEN "dir" ELSE IF p \in files THEN "file" ELSE "other",
      content |-> 0, whole |-> TRUE]]

(* Two seconds with the same local time: the clock is put back.            *)
MCLocal   == <<1, 1>>
MCSeconds == DOMAIN MCLocal

In(name) == <<N("www"), N(name)>>
MCTrees  == {Disk({<<N("www")>>, In("a"), In("b")}, {Append(In("a"), N("f"))}, {In("link")}),
             Disk({MCFolder}, {<<N("keep")>>}, {})}
=============================================================================
