---------------------------- MODULE CompressCache ----------------------------
(***************************************************************************)
(* mod_compress.c: a compressed copy of a file is kept in                  *)
(* compress.cache-dir under a name that holds the file's ETag, and later   *)
(* requests are answered from it.  Several server processes                *)
(* (server.max-worker) share the directory; each has a stat cache and one  *)
(* thread that runs requests.  One file is modelled: version v of it has   *)
(* the ETag v and the copy v.                                              *)
(***************************************************************************)
EXTENDS Integers

CONSTANTS
  Procs,       \* server processes
  LastVersion, \* bound: the versions of the file are 1 .. LastVersion
  MaxFails,    \* bound: how often a system call fails
  MaxCrashes   \* bound: how often a process is killed

Versions == 1 .. LastVersion
Contents == {"empty", "part", "whole"}   \* what has been written to a copy
NoFile == "none"

CompressAssumption ==
  LastVersion \in Nat \ {0} /\ MaxFails \in Nat /\ MaxCrashes \in Nat

VARIABLES
  src,     \* the version of the file on the disk
  copy,    \* the copies in the cache directory
  seen,    \* of a process: the version in its stat cache, 0 for none
  sized,   \* of a process: the size of a copy in its stat cache
  pc,      \* where the handler of a process is
  job,     \* the version whose copy it is at
  answer,  \* what its last request was answered with
  fails, crashes,   \* what is left of the bounds
  left     \* the copies abandoned: their maker was killed, or could not unlink

vars == <<src, copy, seen, sized, pc, job, answer, fails, crashes, left>>

Places == {"idle", "stat", "create", "read", "write", "close", "unlink", "static", "plain"}
Unsized == [v \in Versions |-> NoFile]

TypeOK ==
  /\ src \in Versions /\ copy \in [Versions -> Contents \cup {NoFile}]
  /\ seen \in [Procs -> 0 .. LastVersion]
  /\ sized \in [Procs -> [Versions -> Contents \cup {NoFile}]]
  /\ pc \in [Procs -> Places] /\ job \in [Procs -> Versions]
  /\ answer \in [Procs -> Contents \cup {"none", "plain"}]
  /\ fails \in 0 .. MaxFails /\ crashes \in 0 .. MaxCrashes /\ left \subseteq Versions

Init ==
  /\ src = 1 /\ copy = [v \in Versions |-> NoFile]
  /\ seen = [p \in Procs |-> 0] /\ sized = [p \in Procs |-> Unsized]
  /\ pc = [p \in Procs |-> "idle"] /\ job = [p \in Procs |-> 1]
  /\ answer = [p \in Procs |-> "none"]
  /\ fails = MaxFails /\ crashes = MaxCrashes /\ left = {}

At(p, place) == pc[p] = place
Go(p, place) == pc' = [pc EXCEPT ![p] = place]
Fail == fails > 0 /\ fails' = fails - 1

\* mod_compress_physical: a request for the file that accepts a compressed
\* answer; the stat cache says which version it is
Request(p) ==
  /\ At(p, "idle")
  /\ LET v == IF seen[p] # 0 THEN seen[p] ELSE src IN
       seen' = [seen EXCEPT ![p] = v] /\ job' = [job EXCEPT ![p] = v]
  /\ answer' = [answer EXCEPT ![p] = "none"]
  /\ Go(p, "stat")
  /\ UNCHANGED <<src, copy, sized, fails, crashes, left>>

\* stat_cache_get_entry of a copy: its size, which may be some seconds old
Size(p, v) == IF sized[p][v] # NoFile THEN sized[p][v] ELSE copy[v]
Sees(p, v) == sized' = [sized EXCEPT ![p][v] = Size(p, v)]

\* deflate_file_to_file: is there a copy?  The size that the code compares with
\* zero is that of the file itself, which is at least 128
StatCopy(p) ==
  /\ At(p, "stat") /\ Sees(p, job[p])
  /\ Go(p, IF Size(p, job[p]) # NoFile THEN "static" ELSE "create")
  /\ UNCHANGED <<src, copy, seen, job, answer, fails, crashes, left>>

\* the average load is too high, or the directory cannot be made
Declined(p) ==
  /\ At(p, "create") /\ Fail /\ Go(p, "plain")
  /\ UNCHANGED <<src, copy, seen, sized, job, answer, crashes, left>>

\* open(O_CREAT | O_EXCL): only one process makes a copy
Create(p) ==
  /\ At(p, "create")
  /\ IF copy[job[p]] = NoFile
     THEN copy' = [copy EXCEPT ![job[p]] = "empty"] /\ Go(p, "read")
     ELSE UNCHANGED copy /\ Go(p, "plain")
  /\ UNCHANGED <<src, seen, sized, job, answer, fails, crashes, left>>

\* open, mmap or read of the file, and the compression in memory
ReadAndDeflate(p) ==
  /\ At(p, "read")
  /\ \/ Go(p, "write") /\ UNCHANGED fails
     \/ Fail /\ Go(p, "unlink")
  /\ UNCHANGED <<src, copy, seen, sized, job, answer, crashes, left>>

\* Mutant of Write: a short write counts as success.
WriteShort(p) ==
  /\ At(p, "write")
  /\ \/ copy' = [copy EXCEPT ![job[p]] = "whole"] /\ Go(p, "close") /\ UNCHANGED fails
     \/ Fail /\ copy' = [copy EXCEPT ![job[p]] = "part"] /\ Go(p, "close")
     \/ Fail /\ UNCHANGED copy /\ Go(p, "unlink")
  /\ UNCHANGED <<src, seen, sized, job, answer, crashes, left>>

\* one write: it takes everything, or less when the disk is full, or fails
Write(p) ==
  /\ At(p, "write")
  /\ \/ copy' = [copy EXCEPT ![job[p]] = "whole"] /\ Go(p, "close") /\ UNCHANGED fails
     \/ Fail /\ copy' = [copy EXCEPT ![job[p]] = "part"] /\ Go(p, "unlink")
     \/ Fail /\ UNCHANGED copy /\ Go(p, "unlink")
  /\ UNCHANGED <<src, seen, sized, job, answer, crashes, left>>

Close(p) ==
  /\ At(p, "close")
  /\ \/ Go(p, "static") /\ UNCHANGED fails
     \/ Fail /\ Go(p, "unlink")
  /\ UNCHANGED <<src, copy, seen, sized, job, answer, crashes, left>>

\* "Remove the incomplete cache file"; an error is only logged
Unlink(p) ==
  /\ At(p, "unlink") /\ Go(p, "plain")
  /\ \/ copy' = [copy EXCEPT ![job[p]] = NoFile] /\ UNCHANGED <<fails, left>>
     \/ Fail /\ left' = left \cup {job[p]} /\ UNCHANGED copy
  /\ UNCHANGED <<src, seen, sized, job, answer, crashes>>

\* mod_staticfile sends the copy with the size in the stat cache; a copy that
\* has gone is answered with an error
Static(p) ==
  /\ At(p, "static") /\ Go(p, "idle")
  /\ LET size == Size(p, job[p]) IN
       /\ answer' = [answer EXCEPT ![p] = IF size = NoFile \/ copy[job[p]] = NoFile THEN "none" ELSE size]
       /\ Sees(p, job[p])
  /\ UNCHANGED <<src, copy, seen, job, fails, crashes, left>>

\* HANDLER_GO_ON after a failure: the file itself is sent
Plain(p) ==
  /\ At(p, "plain") /\ Go(p, "idle") /\ answer' = [answer EXCEPT ![p] = "plain"]
  /\ UNCHANGED <<src, copy, seen, sized, job, fails, crashes, left>>

\* two seconds pass: entries of the stat cache are checked again
Expire(p) ==
  /\ seen' = [seen EXCEPT ![p] = 0] /\ sized' = [sized EXCEPT ![p] = Unsized]
  /\ UNCHANGED <<src, copy, pc, job, answer, fails, crashes, left>>

Change ==
  /\ src < LastVersion /\ src' = src + 1
  /\ UNCHANGED <<copy, seen, sized, pc, job, answer, fails, crashes, left>>

\* the states in which a process has a copy open for writing
Making(p) == pc[p] \in {"read", "write", "close", "unlink"}

\* a process is killed and another started in its place
Crash(p) ==
  /\ crashes > 0 /\ crashes' = crashes - 1
  /\ Go(p, "idle")
  /\ seen' = [seen EXCEPT ![p] = 0] /\ sized' = [sized EXCEPT ![p] = Unsized]
  /\ answer' = [answer EXCEPT ![p] = "none"]
  /\ left' = IF Making(p) THEN left \cup {job[p]} ELSE left
  /\ UNCHANGED <<src, copy, job, fails>>

Handler(p) ==
  \/ Request(p) \/ StatCopy(p) \/ Declined(p) \/ Create(p) \/ ReadAndDeflate(p)
  \/ Write(p) \/ Close(p) \/ Unlink(p) \/ Static(p) \/ Plain(p)

Next == Change \/ \E p \in Procs : Handler(p) \/ Expire(p) \/ Crash(p)

Spec == Init /\ [][Next]_vars

----------------------------------------------------------------------------
(* A copy that nobody is at is whole, whatever failed while it was made: a
   failed read, compression, write or close takes the file away again, and the
   O_EXCL of the creation keeps the processes from one another's files.  The
   exceptions are the files whose maker was killed or could not unlink.  Two
   processes never make the same copy. *)
LeftWhole ==
  /\ \A v \in Versions :
       copy[v] \in {"empty", "part"} => v \in left \/ \E p \in Procs : Making(p) /\ job[p] = v
  /\ \A p, q \in Procs : p # q /\ Making(p) /\ Making(q) => job[p] # job[q]

=============================================================================
