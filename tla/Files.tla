------------------------------- MODULE Files --------------------------------
(***************************************************************************)
(* What the Handler does to files: uploadFile, which makes a name of the   *)
(* local time, a counter and the name the client gave, and                 *)
(* deleteRecursive, one system call at a time.  A name is the numbers it   *)
(* begins with, each followed by "_", and the rest; a path is a sequence   *)
(* of names.  Any call may fail; the program may be killed between any     *)
(* two of them and started again.                                          *)
(***************************************************************************)
EXTENDS Integers, Sequences, FiniteSets

CONSTANTS
  Trees,        \* bound: what is on the disk when the program starts
  Folder,       \* upload_folder of the location
  Filenames,    \* bound: the file names clients give
  Seconds,      \* bound: what time(0) may answer, in any order
  Local,        \* the local time of a second, as a number; it may come back
  MAX_DIRS,     \* how many directories the process can have open
  MAX_RUNS,     \* bound: how often the program is started
  MAX_UPLOADS   \* bound

Name == [nums : Seq(Nat), rest : STRING]
Path == Seq(Name)
Node == [kind : {"dir", "file", "other"}, content : Nat, whole : BOOLEAN]

(* A file system: the directories a path goes through are there.           *)
Tree(f) ==
  /\ DOMAIN f \subseteq Path /\ \A p \in DOMAIN f : f[p] \in Node
  /\ \A p \in DOMAIN f : \A k \in 1..(Len(p) - 1) :
       SubSeq(p, 1, k) \in DOMAIN f /\ f[SubSeq(p, 1, k)].kind = "dir"

ASSUME FilesAssumption ==
  /\ \A f \in Trees : Tree(f)
  /\ Folder \in Path /\ Filenames \subseteq Name
  /\ Seconds \subseteq Nat \ {0} /\ Local \in [Seconds -> Nat]
  /\ MAX_DIRS \in Nat /\ MAX_RUNS \in Nat /\ MAX_UPLOADS \in Nat

VARIABLES
  old,      \* static old of generateUniqueTimeStamp
  count,    \* static count
  fs,       \* what is on the disk
  stack,    \* the calls of deleteRecursive: the path, and the entries readdir has still to give
  errno,    \* whether it is not zero
  open,     \* directories that are open
  ofs,      \* the path of the upload that is being written, <<>> if none is
  reply,    \* the status of the last answer, 0 before it
  asked,    \* the url of the last DELETE, if it was not refused
  run,      \* history: how often the program was started
  stamps,   \* history: the time stamps of the uploads, their seconds and runs
  kept,     \* history: the files that nobody asked to delete, as they were left
  trouble,  \* history: a call failed in this DELETE, or an entry was passed over
  lost      \* history: how many unlinks failed in a directory

vars == <<old, count, fs, stack, errno, open, ofs, reply, asked, run, stamps, kept, trouble, lost>>

-----------------------------------------------------------------------------
(* Uploads.                                                                *)

(* The first upload of a second has no number, the others 1, 3, 5, ...     *)
(* The slip does not count what the first branch counts.                   *)
faulty_CountNow(now) == IF now = old THEN count ELSE 0
CountNow(now)        == IF now = old THEN count + 1 ELSE 0

Stamp(now)    == IF CountNow(now) > 0 THEN <<Local[now], CountNow(now)>> ELSE <<Local[now]>>
UseStamp(now) ==
  /\ old' = now
  /\ count' = IF CountNow(now) > 0 THEN CountNow(now) + 1 ELSE 0
  /\ stamps' = Append(stamps, [text |-> Stamp(now), second |-> now, run |-> run])

(* The slip trusts a name that was given.                                  *)
faulty_generateUniqueFilename(file, now) == file
generateUniqueFilename(file, now) == [nums |-> Stamp(now) \o file.nums, rest |-> file.rest]

(* To open a file that is there already truncates it; it is only in a      *)
(* directory, and not in the place of one, that a file can be opened.      *)
uploadFile(file, now) ==
  /\ stack = <<>> /\ ofs = <<>> /\ Len(stamps) < MAX_UPLOADS
  /\ asked' = <<>> /\ trouble' = FALSE /\ UNCHANGED <<stack, errno, open, run, kept, lost>>
  /\ \/ reply' = 403 /\ UNCHANGED <<old, count, ofs, stamps, fs>>
     \/ Folder \in DOMAIN fs /\ UseStamp(now) /\ reply' = 500 /\ UNCHANGED <<fs, ofs>>
     \/ /\ Folder \in DOMAIN fs /\ fs[Folder].kind = "dir" /\ UseStamp(now) /\ reply' = 0
        /\ ofs' = Append(Folder, generateUniqueFilename(file, now))
        /\ ofs' \in DOMAIN fs => fs[ofs'].kind = "file"
        /\ fs' = [p \in DOMAIN fs \cup {ofs'} |->
                    IF p = ofs'
                    THEN [kind |-> "file", content |-> Len(stamps) + 1, whole |-> FALSE]
                    ELSE fs[p]]

(* The system call of ofs.write or ofs.close that writes the last of the   *)
(* file; before it, or when it fails, there is a part or nothing.          *)
write ==
  /\ ofs # <<>> /\ fs' = [fs EXCEPT ![ofs].whole = TRUE]
  /\ UNCHANGED <<old, count, stack, errno, open, ofs, reply, asked, run, stamps, kept, trouble, lost>>

(* The file is left as it is: nobody looks at what write and close say.    *)
Leave ==
  /\ ofs' = <<>>
  /\ kept' = kept \cup {[path |-> p, node |-> fs[p], upload |-> Len(stamps)] : p \in {ofs} \ {<<>>}}

close_upload ==
  /\ ofs # <<>> /\ Leave /\ reply' = 201
  /\ UNCHANGED <<old, count, fs, stack, errno, open, asked, run, stamps, trouble, lost>>

-----------------------------------------------------------------------------
(* Deletions.                                                              *)

Below(path, p) == Len(p) >= Len(path) /\ SubSeq(p, 1, Len(path)) = path
Entries(path)  == {p \in DOMAIN fs : Len(p) = Len(path) + 1 /\ Below(path, p)}

unlink(path) == fs' = [p \in DOMAIN fs \ {path} |-> fs[p]]

Top     == stack[Len(stack)]
Callers == SubSeq(stack, 1, Len(stack) - 1)

(* Who called deleteRecursive ignores the result, but for deleteProcess.   *)
(* One slip is deaf as well, the other tries a directory again that could  *)
(* not be removed.                                                         *)
faulty_Return(callers, ok) ==
  stack' = callers /\ reply' = IF callers # <<>> THEN reply ELSE 205
faulty_Retry(callers, ok) ==
  /\ stack' = IF ok \/ callers = <<>> \/ Len(callers) = Len(stack) THEN callers
              ELSE [callers EXCEPT ![Len(callers)].todo = @ \cup {Top.path}]
  /\ reply' = IF callers # <<>> THEN reply ELSE IF ok THEN 205 ELSE 500
Return(callers, ok) ==
  /\ stack' = callers
  /\ reply' = IF callers # <<>> THEN reply ELSE IF ok THEN 205 ELSE 500

(* errno is reset when a directory has been opened; the slip does not.     *)
faulty_Reset == errno
Reset        == FALSE

opendir(path, callers) ==
  \/ /\ open < MAX_DIRS
     /\ open' = open + 1 /\ errno' = Reset
     /\ stack' = Append(callers, [path |-> path, todo |-> Entries(path)])
     /\ reply' = 0 /\ trouble' = (callers # <<>> /\ trouble)
  \/ /\ errno' = TRUE /\ trouble' = TRUE
     /\ Return(callers, FALSE) /\ UNCHANGED open

(* handleDelete and deleteProcess.                                         *)
Accept(path) ==
  /\ asked' = path
  /\ kept' = {file \in kept : ~Below(path, file.path)}

Delete(path) ==
  /\ stack = <<>> /\ ofs = <<>> /\ fs[path].kind # "other"
  /\ UNCHANGED <<old, count, ofs, run, stamps, lost>>
  /\ \/ /\ reply' = 403 /\ asked' = <<>> /\ trouble' = FALSE
        /\ UNCHANGED <<kept, fs, stack, errno, open>>
     \/ /\ fs[path].kind = "file" /\ Accept(path) /\ UNCHANGED <<stack, errno, open>>
        /\ \/ unlink(path) /\ reply' = 205 /\ trouble' = FALSE
           \/ reply' = 500 /\ trouble' = TRUE /\ UNCHANGED fs
     \/ fs[path].kind = "dir" /\ Accept(path) /\ opendir(path, <<>>) /\ UNCHANGED fs

(* One entry of the directory.  An unlink that fails returns without a     *)
(* closedir.                                                               *)
readdir(p) ==
  LET here == Append(Callers, [Top EXCEPT !.todo = @ \ {p}]) IN
  \/ fs[p].kind = "dir" /\ opendir(p, here) /\ UNCHANGED <<fs, lost>>
  \/ fs[p].kind = "file" /\ unlink(p) /\ stack' = here /\ UNCHANGED <<errno, open, reply, trouble, lost>>
  \/ /\ fs[p].kind = "file" /\ lost' = lost + 1
     /\ errno' = TRUE /\ trouble' = TRUE /\ Return(Callers, FALSE) /\ UNCHANGED <<fs, open>>
  \/ /\ fs[p].kind = "other" /\ stack' = here
     /\ trouble' = TRUE /\ UNCHANGED <<fs, errno, open, reply, lost>>

(* The slip forgets to.                                                    *)
faulty_closedir == open
closedir        == open - 1

readdir_fails ==
  /\ errno' = TRUE /\ trouble' = TRUE /\ open' = closedir
  /\ Return(Callers, FALSE) /\ UNCHANGED <<fs, lost>>

(* The loop has ended; an errno left by a call in it counts as readdir's.  *)
rmdir ==
  /\ Top.todo = {} /\ open' = closedir /\ UNCHANGED lost
  /\ \/ errno /\ Return(Callers, FALSE) /\ UNCHANGED <<fs, errno, trouble>>
     \/ /\ ~errno /\ Entries(Top.path) = {} /\ unlink(Top.path)
        /\ Return(Callers, TRUE) /\ UNCHANGED <<errno, trouble>>
     \/ /\ ~errno /\ errno' = TRUE
        /\ trouble' = (trouble \/ Entries(Top.path) = {})
        /\ Return(Callers, FALSE) /\ UNCHANGED fs

deleteRecursive ==
  /\ stack # <<>>
  /\ (\E p \in Top.todo : readdir(p)) \/ readdir_fails \/ rmdir
  /\ UNCHANGED <<old, count, ofs, asked, run, stamps, kept>>

-----------------------------------------------------------------------------

(* What the program does between two requests leaves anything in errno.    *)
Elsewhere ==
  /\ stack = <<>> /\ ofs = <<>> /\ errno' = ~errno
  /\ UNCHANGED <<old, count, fs, stack, open, ofs, reply, asked, run, stamps, kept, trouble, lost>>

(* The program is killed and started again, perhaps in the same second.    *)
Restart ==
  /\ run < MAX_RUNS /\ run' = run + 1 /\ Leave
  /\ old' = 0 /\ count' = 0 /\ stack' = <<>> /\ open' = 0 /\ lost' = 0
  /\ errno' = FALSE /\ trouble' = FALSE /\ reply' = 0 /\ asked' = <<>>
  /\ UNCHANGED <<fs, stamps>>

Init ==
  /\ old = 0 /\ count = 0 /\ run = 1
  /\ fs \in Trees /\ stack = <<>> /\ errno = FALSE /\ open = 0 /\ ofs = <<>>
  /\ reply = 0 /\ asked = <<>> /\ stamps = <<>> /\ trouble = FALSE /\ lost = 0
  /\ kept = {[path |-> p, node |-> fs[p], upload |-> 0] :
               p \in {q \in DOMAIN fs : fs[q].kind = "file"}}

Next ==
  \/ \E file \in Filenames, now \in Seconds : uploadFile(file, now)
  \/ write \/ close_upload
  \/ \E path \in DOMAIN fs : Delete(path)
  \/ deleteRecursive
  \/ Elsewhere \/ Restart

Spec     == Init /\ [][Next]_vars
FairSpec == Spec /\ WF_vars(deleteRecursive)
=============================================================================
