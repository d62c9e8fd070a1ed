-------------------------- MODULE FilesProperties ---------------------------
(* What uploads and deletions promise of the files on the disk.             *)
EXTENDS Files

(* Every variable has values of its kind; an open directory is one of a    *)
(* call under way, or was lost (Handler.cpp 360-363, 371, 377).            *)
TypeOK ==
  /\ old \in Seconds \cup {0} /\ count \in Nat /\ lost \in Nat
  /\ errno \in BOOLEAN /\ trouble \in BOOLEAN
  /\ reply \in {0, 201, 205, 403, 500} /\ asked \in Path /\ ofs \in Path
  /\ Tree(fs) /\ stamps \in Seq([text : Seq(Nat), second : Seconds, run : 1..run])
  /\ \A i \in DOMAIN stack : stack[i].path \in DOMAIN fs /\ stack[i].todo \subseteq DOMAIN fs
  /\ open = Len(stack) + lost

(* The uploads from one to the other are of one run of the program and of  *)
(* one second.                                                             *)
Together(i, j) ==
  \A k \in i..j : stamps[k].run = stamps[j].run /\ stamps[k].second = stamps[j].second

(* Two uploads with one time stamp are of seconds that have one local      *)
(* time; and the program was started again between them, or there was an   *)
(* upload in another second, as when the clock is set back or local time   *)
(* falls back (Handler.cpp 287-305).                                       *)
StampsApart ==
  \A i, j \in DOMAIN stamps :
    i < j /\ stamps[i].text = stamps[j].text =>
      Local[stamps[i].second] = Local[stamps[j].second] /\ ~Together(i, j)

(* The name begins with no number but those of the stamp it was given.     *)
Plain(file) ==
  LET path == file.path IN
  path # <<>> => path[Len(path)].nums = IF file.upload = 0 THEN <<>> ELSE stamps[file.upload].text

(* The local time of the upload came back in a later one.                  *)
Overtaken(file) ==
  \E j \in DOMAIN stamps :
    /\ file.upload # 0 /\ file.upload < j /\ ~Together(file.upload, j)
    /\ Local[stamps[file.upload].second] = Local[stamps[j].second]

(* A file nobody asked to delete stays as it was left when it was closed,  *)
(* or when the program was killed while it was written, whatever is        *)
(* uploaded and deleted beside it; unless its name begins with a number of *)
(* its own, which may be that of a later stamp, or its local time came     *)
(* back (Handler.cpp 252-264, 277-305, 344-384).                           *)
UploadsKept ==
  \A file \in kept : Plain(file) /\ ~Overtaken(file) =>
    file.path \in DOMAIN fs /\ fs[file.path] = file.node

(* A DELETE that succeeds leaves nothing, and one that fails leaves at     *)
(* least what was named, and fails only if a call did or the tree holds    *)
(* what is neither a file nor a directory (Handler.cpp 322-342, 344-384).  *)
DeleteLeaves ==
  asked # <<>> /\ stack = <<>> =>
    /\ reply = 205 => \A p \in DOMAIN fs : ~Below(asked, p)
    /\ reply = 500 => asked \in DOMAIN fs /\ trouble

(* When errno is not zero at the end of a directory, though readdir did    *)
(* not fail, something is left in it: the call that set it was not in vain *)
(* and rmdir would have failed (Handler.cpp 351, 368-375).                 *)
ErrnoTellsTruth ==
  stack # <<>> /\ Top.todo = {} /\ errno => Entries(Top.path) # {}

(* A DELETE ends (Handler.cpp 353-366).                                    *)
WalkEnds == stack # <<>> ~> stack = <<>>
=============================================================================
