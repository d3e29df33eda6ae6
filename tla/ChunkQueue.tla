----------------------------- MODULE ChunkQueue -----------------------------
(***************************************************************************)
(* chunk.c and network_write.c: the bytes of a request body on their way   *)
(* from the client to a backend, through three chunk queues.  "read" is    *)
(* con->read_queue, "content" con->request_content_queue (which may move   *)
(* bytes to temporary files), "wb" the queue written to the backend.       *)
(*                                                                         *)
(* A queue belongs to one thread at a time; what is uncertain is what the  *)
(* system calls return, so an action is one turn of a loop around one.     *)
(* A byte is its place in the body.                                        *)
(***************************************************************************)
EXTENDS Integers, Sequences, FiniteSets, SequencesExt, TLC

CONSTANTS
  Total,      \* bound: bytes in a body
  TempSize,   \* upload_temp_file_size
  MaxIov,     \* MAX_CHUNKS: buffers in one writev
  MaxBytes,   \* max_bytes of one call of network_backend_write
  Setups,     \* the configurations to choose from: server.network-backend and the number of
              \* server.upload-dirs
  MaxFails,   \* bound: system calls that fail, in a run
  MaxNames    \* bound: temporary files made, in a run

ChunkQueueAssumption ==
  /\ {Total, MaxFails, MaxNames} \subseteq Nat
  /\ {TempSize, MaxIov, MaxBytes} \subseteq Nat \ {0}
  /\ Setups \subseteq [backend : {"write", "writev", "sendfile"}, dirs : Nat]

Queues == {"read", "content", "wb"}

VARIABLES
  q,       \* [Queues -> the chunkqueue]
  files,   \* [name of a temporary file -> its bytes, and whether it has a name still]
  pc,      \* the loop a thread is in: "idle" in none
  job,     \* its arguments
  fed,     \* bytes read from the client
  sent,    \* bytes the backend has got
  setup,   \* the configuration
  fails    \* system calls that failed

vars == <<q, files, pc, job, fed, sent, setup, fails>>

NoFile == 0
Backend == setup.backend
Dirs == setup.dirs
Mem(bytes) == [type |-> "mem", bytes |-> bytes, offset |-> 0, name |-> NoFile,
               start |-> 0, length |-> 0, open |-> FALSE, temp |-> FALSE]
File(name, start, length, open, temp) ==
  [type |-> "file", bytes |-> <<>>, offset |-> 0, name |-> name,
   start |-> start, length |-> length, open |-> open, temp |-> temp]

Empty == [chunks |-> <<>>, in |-> 0, out |-> 0, dir |-> 0]
NoJob == [src |-> "read", dest |-> "content", temp |-> FALSE, len |-> 0, rest |-> <<>>]

Init ==
  /\ q = [n \in Queues |-> Empty] /\ files = <<>>
  /\ pc = "idle" /\ job = NoJob /\ fed = 0 /\ sent = <<>> /\ fails = 0
  /\ setup \in Setups

-----------------------------------------------------------------------------
(* Chunks and queues *)

\* chunk_remaining_length
Remaining(c) == (IF c.type = "mem" THEN Len(c.bytes) ELSE c.length) - c.offset

\* The bytes that a chunk still holds.
Bytes(c) == IF c.type = "mem" THEN SubSeq(c.bytes, c.offset + 1, Len(c.bytes))
            ELSE SubSeq(files[c.name].bytes, c.start + c.offset + 1, c.start + c.length)
Content(n) == FlattenSeq([i \in DOMAIN q[n].chunks |-> Bytes(q[n].chunks[i])])

\* chunkqueue_append_chunk
Append1(cq, c) == [cq EXCEPT !.chunks = Append(@, c), !.in = @ + Remaining(c)]

\* chunk_reset: the file of a temporary chunk goes with it.
Unlinked(fs, cs) == [f \in DOMAIN fs |->
  IF \E c \in cs : c.temp /\ c.name = f
  THEN [fs[f] EXCEPT !.linked = FALSE] ELSE fs[f]]

\* The first k chunks are pushed to the unused ones, which are kept for the next use.
First(cq, k) == {cq.chunks[i] : i \in 1 .. k}
DropFirst(cq, k) == [cq EXCEPT !.chunks = SubSeq(@, k + 1, Len(@))]

\* chunkqueue_remove_finished_chunks: as many chunks at the head as are empty
Finished(cq) == CHOOSE k \in 0 .. Len(cq.chunks) :
  /\ \A i \in 1 .. k : Remaining(cq.chunks[i]) = 0
  /\ k = Len(cq.chunks) \/ Remaining(cq.chunks[k + 1]) # 0

LengthTo(cq, k) ==
  LET upto[i \in 0 .. k] == IF i = 0 THEN 0 ELSE upto[i - 1] + Remaining(cq.chunks[i]) IN upto[k]

\* The first chunk gives n bytes.
Advance(cs, n) == [cs EXCEPT ![1].offset = @ + n]

\* chunkqueue_mark_written: the chunks that len bytes finish, and the offset of the next one
Whole(cq, len) == CHOOSE k \in 0 .. Len(cq.chunks) :
  /\ LengthTo(cq, k) <= len
  /\ k = Len(cq.chunks) \/ LengthTo(cq, k + 1) > len

\* Mutant of MarkWritten: a chunk that was written in part begins again.
MarkWrittenForgets(cq, len) == [DropFirst(cq, Whole(cq, len)) EXCEPT !.out = @ + len]

MarkWritten(cq, len) ==
  LET k == Whole(cq, len)
      d == DropFirst(cq, k)
      part == len - LengthTo(cq, k)
  IN [d EXCEPT !.out = @ + len,
               !.chunks = IF part = 0 THEN @ ELSE Advance(@, part)]

-----------------------------------------------------------------------------
(* The client's bytes arrive *)

\* chunkqueue_get_memory and chunkqueue_use_memory: in the last chunk, which has room for them or
\* not, or in a new one, which stays empty when nothing could be read.
Read(n) ==
  /\ pc = "idle" /\ fed + n <= Total
  /\ LET new == [i \in 1 .. n |-> fed + i]
         cs == q["read"].chunks
         room == cs # <<>> /\ Last(cs).type = "mem"
     IN \/ /\ room
           /\ q' = [q EXCEPT !["read"].chunks[Len(cs)].bytes = @ \o new,
                             !["read"].in = @ + n]
        \/ /\ ~(room /\ Last(cs).bytes = <<>>)
           /\ q' = [q EXCEPT !["read"] = Append1(@, Mem(new))]
  /\ fed' = fed + n
  /\ UNCHANGED <<files, pc, job, sent, setup, fails>>

-----------------------------------------------------------------------------
(* chunkqueue_steal, chunkqueue_steal_with_tempfiles, chunkqueue_append_chunkqueue *)

\* connection_handle_read_post_state removes the finished chunks before it moves the others.
Trimmed(n) == IF n = "read" THEN DropFirst(q[n], Finished(q[n])) ELSE q[n]

\* The whole of the source is appended.
AppendQueue(src, dest) ==
  /\ pc = "idle" /\ <<src, dest>> \in {<<"read", "content">>, <<"content", "wb">>}
  /\ LET s == Trimmed(src)
     IN /\ s.chunks # <<>>
        /\ q' = [q EXCEPT ![dest].chunks = @ \o s.chunks, ![dest].in = @ + s.in - s.out,
                          ![src] = [s EXCEPT !.chunks = <<>>, !.out = s.in]]
  /\ UNCHANGED <<files, pc, job, fed, sent, setup, fails>>

\* Only the client's bytes are written to temporary files.
Steal(src, dest, len, temp) ==
  /\ pc = "idle" /\ len > 0
  /\ <<src, dest, temp>> \in {<<"read", "content", FALSE>>, <<"read", "content", TRUE>>,
                              <<"content", "wb", FALSE>>}
  /\ Trimmed(src).chunks # <<>> /\ q' = [q EXCEPT ![src] = Trimmed(src)]
  /\ pc' = "steal" /\ job' = [src |-> src, dest |-> dest, temp |-> temp, len |-> len, rest |-> <<>>]
  /\ UNCHANGED <<files, fed, sent, setup, fails>>

Source == q[job.src]
Head1 == Head(Source.chunks)
Use == IF job.len >= Remaining(Head1) THEN Remaining(Head1) ELSE job.len

StealEnds ==
  /\ pc = "steal" /\ (job.len = 0 \/ Source.chunks = <<>>)
  /\ pc' = "idle" /\ job' = NoJob
  /\ UNCHANGED <<q, files, fed, sent, setup, fails>>

\* the job is under way, on a chunk that has bytes
Stealing == pc = "steal" /\ job.len > 0 /\ Source.chunks # <<>> /\ Remaining(Head1) > 0

StealEmpty ==
  /\ pc = "steal" /\ job.len > 0 /\ Source.chunks # <<>> /\ Remaining(Head1) = 0
  /\ q' = [q EXCEPT ![job.src] = DropFirst(@, 1)]
  /\ files' = Unlinked(files, {Head1})
  /\ UNCHANGED <<pc, job, fed, sent, setup, fails>>

\* A chunk moves as it is.
StealWhole ==
  /\ Stealing /\ Use = Remaining(Head1) /\ ~(job.temp /\ Head1.type = "mem")
  /\ q' = [q EXCEPT ![job.src].chunks = Tail(@), ![job.src].out = @ + Use,
                    ![job.dest] = Append1(@, Head1)]
  /\ job' = [job EXCEPT !.len = @ - Use]
  /\ UNCHANGED <<files, pc, fed, sent, setup, fails>>

\* Mutant of SplitOff: the first part takes the temporary file with it.
SplitOffTemp(c, len) ==
  IF c.type = "mem" THEN Mem(SubSeq(c.bytes, c.offset + 1, c.offset + len))
  ELSE File(c.name, c.start + c.offset, len, FALSE, c.temp)

\* A part of it is copied, or names the same part of the file; the chunk that keeps the rest
\* keeps the temporary file.
SplitOff(c, len) ==
  IF c.type = "mem" THEN Mem(SubSeq(c.bytes, c.offset + 1, c.offset + len))
  ELSE File(c.name, c.start + c.offset, len, FALSE, FALSE)
StealPart ==
  /\ Stealing /\ Use < Remaining(Head1) /\ ~(job.temp /\ Head1.type = "mem")
  /\ q' = [q EXCEPT ![job.src].chunks = Advance(@, Use),
                    ![job.src].out = @ + Use,
                    ![job.dest] = Append1(@, SplitOff(Head1, Use))]
  /\ job' = [job EXCEPT !.len = @ - Use]
  /\ UNCHANGED <<files, pc, fed, sent, setup, fails>>

\* chunkqueue_append_mem_to_tempfile is called for the bytes of a memory chunk.
StealToFile ==
  /\ Stealing /\ job.temp /\ Head1.type = "mem"
  /\ pc' = "temp" /\ job' = [job EXCEPT !.rest = SubSeq(Bytes(Head1), 1, Use)]
  /\ UNCHANGED <<q, files, fed, sent, setup, fails>>

Dest == q[job.dest]
Target == Last(Dest.chunks)
\* the last chunk may be appended to, and is not too large
Appendable == /\ Dest.chunks # <<>> /\ Target.type = "file" /\ Target.temp /\ Target.open
              /\ Target.offset = 0
SetTarget(cq, c) == [cq EXCEPT !.chunks[Len(cq.chunks)] = c]

TempTooLarge ==
  /\ pc = "temp" /\ Appendable /\ Target.length >= TempSize
  /\ q' = [q EXCEPT ![job.dest] = SetTarget(@, [Target EXCEPT !.open = FALSE])]
  /\ \/ pc' = pc /\ fails' = fails
     \/ pc' = "failed" /\ fails < MaxFails /\ fails' = fails + 1   \* close() failed
  /\ UNCHANGED <<files, job, fed, sent, setup>>

\* chunkqueue_get_append_tempfile: in the first upload directory, from the current one on, where
\* a file can be made; without directories, in the default one.
GetTempfile ==
  /\ pc = "temp" /\ ~Appendable
  /\ \/ \E d \in (IF Dirs = 0 THEN {0} ELSE Dest.dir .. Dirs - 1) :
          /\ Len(files) < MaxNames /\ fails + d - Dest.dir <= MaxFails
          /\ fails' = fails + d - Dest.dir
          /\ files' = Append(files, [bytes |-> <<>>, linked |-> TRUE])
          /\ q' = [q EXCEPT ![job.dest] =
                     Append1([@ EXCEPT !.dir = d], File(Len(files) + 1, 0, 0, TRUE, TRUE))]
          /\ UNCHANGED <<pc, job>>
     \/ /\ fails < MaxFails \/ (Dirs # 0 /\ Dest.dir = Dirs)
        /\ fails' = IF fails < MaxFails THEN fails + 1 ELSE fails
        /\ q' = [q EXCEPT ![job.dest].dir = Dirs]
        /\ pc' = "failed" /\ UNCHANGED <<job, files>>
  /\ UNCHANGED <<fed, sent, setup>>

\* write() takes n of the bytes; when it took all of them the memory chunk gives them up.
WriteTemp(n) ==
  /\ pc = "temp" /\ Appendable /\ Target.length < TempSize /\ n \in 0 .. Len(job.rest)
  /\ n < Len(job.rest) => fails < MaxFails
  /\ fails' = IF n < Len(job.rest) THEN fails + 1 ELSE fails
  /\ files' = [files EXCEPT ![Target.name].bytes = @ \o SubSeq(job.rest, 1, n)]
  /\ LET d == [SetTarget(Dest, [Target EXCEPT !.length = @ + n]) EXCEPT !.in = @ + n]
         s == [Source EXCEPT !.out = @ + Use]
     IN IF n < Len(job.rest)
        THEN /\ q' = [q EXCEPT ![job.dest] = d]
             /\ job' = [job EXCEPT !.rest = SubSeq(@, n + 1, Len(@))] /\ pc' = pc
        ELSE /\ q' = [q EXCEPT ![job.dest] = d,
                        ![job.src] = IF Use = Remaining(Head1) THEN DropFirst(s, 1)
                                     ELSE [s EXCEPT !.chunks = Advance(@, Use)]]
             /\ job' = [job EXCEPT !.len = @ - Use, !.rest = <<>>] /\ pc' = "steal"
  /\ UNCHANGED <<fed, sent, setup>>

\* chunkqueue_remove_empty_chunks: the finished chunks, then the empty ones, but none that comes after
\* one that goes.
Goes(cq) == CHOOSE G \in SUBSET DOMAIN cq.chunks : \A i \in DOMAIN cq.chunks :
  i \in G <=> i <= Finished(cq) \/ (Remaining(cq.chunks[i]) = 0 /\ i - 1 \notin G)
NotEmpty(cq) ==
  [cq EXCEPT !.chunks = FlattenSeq([i \in DOMAIN @ |-> IF i \in Goes(cq) THEN <<>> ELSE <<@[i]>>])]

\* write() failed: another directory is tried when the disk is full and there is one, and the file
\* can be closed.
WriteTempFails(full) ==
  /\ pc = "temp" /\ Appendable /\ Target.length < TempSize
  /\ fails < MaxFails /\ fails' = fails + 1
  /\ LET dir == IF full /\ Dirs # 0 THEN Dest.dir + 1 ELSE Dest.dir
         retry == full /\ Dirs # 0 /\ dir < Dirs
         d == [Dest EXCEPT !.dir = dir]
     IN /\ IF Remaining(Target) = 0
           THEN /\ q' = [q EXCEPT ![job.dest] = NotEmpty(d)]
                /\ files' = Unlinked(files, {Dest.chunks[i] : i \in Goes(Dest)})
                /\ pc' = IF retry THEN pc ELSE "failed"
           ELSE /\ q' = [q EXCEPT ![job.dest] = SetTarget(d, [Target EXCEPT !.open = FALSE])]
                /\ files' = files
                /\ pc' \in (IF retry THEN {pc} ELSE {}) \cup {"failed"}
  /\ UNCHANGED <<job, fed, sent, setup>>

-----------------------------------------------------------------------------
(* network_write_chunkqueue_write, _writev, _sendfile *)

Send ==
  /\ pc = "idle" /\ q["wb"].chunks # <<>>
  /\ pc' = "send" /\ job' = [NoJob EXCEPT !.len = MaxBytes]
  /\ UNCHANGED <<q, files, fed, sent, setup, fails>>

Wb == q["wb"]
Sending(type) == pc = "send" /\ job.len > 0 /\ Wb.chunks # <<>> /\ Wb.chunks[1].type = type

\* The loop is over; its caller removes the chunks that are finished.
SendEnds ==
  /\ pc = "sent" \/ (pc = "send" /\ (job.len <= 0 \/ Wb.chunks = <<>>))
  /\ pc' = "idle" /\ job' = NoJob
  /\ q' = [q EXCEPT !["wb"] = DropFirst(@, Finished(@))]
  /\ files' = Unlinked(files, First(Wb, Finished(Wb)))
  /\ UNCHANGED <<fed, sent, setup, fails>>

\* A write of toSend bytes that the socket took wr of, 0 when it would block.
Wrote(cq, toSend, wr) ==
  /\ q' = [q EXCEPT !["wb"] = MarkWritten(cq, wr)]
  /\ files' = Unlinked(files, First(cq, Whole(cq, wr)))
  /\ sent' = sent \o SubSeq(Content("wb"), 1, wr)
  /\ job' = [job EXCEPT !.len = @ - wr]
  /\ pc' = IF wr = toSend THEN "send" ELSE "sent"
  /\ UNCHANGED <<fed, setup, fails>>

Removed == /\ q' = [q EXCEPT !["wb"] = DropFirst(@, Finished(@))]
           /\ files' = Unlinked(files, First(Wb, Finished(Wb)))
           /\ UNCHANGED <<pc, job, fed, sent, setup, fails>>

\* network_write_mem_chunk
SendMem(wr) ==
  /\ Backend = "write" /\ Sending("mem")
  /\ LET c == Wb.chunks[1]
         toSend == IF Remaining(c) > job.len THEN job.len ELSE Remaining(c)
     IN IF toSend = 0 THEN wr = 0 /\ Removed
        ELSE wr \in 0 .. toSend /\ Wrote(Wb, toSend, wr)

\* network_writev_mem_chunks: the memory chunks at the head until max_bytes are reached, the last
\* of them whole
Vector == CHOOSE k \in 1 .. Len(Wb.chunks) :
  LET used(n) == Cardinality({i \in 1 .. n : Remaining(Wb.chunks[i]) > 0})
      more(n) == /\ n < Len(Wb.chunks) /\ Wb.chunks[n + 1].type = "mem"
                 /\ used(n) < MaxIov /\ LengthTo(Wb, n) < job.len
  IN ~more(k) /\ \A n \in 1 .. k - 1 : more(n)
SendMems(wr) ==
  /\ Backend # "write" /\ Sending("mem")
  /\ LET toSend == LengthTo(Wb, Vector)
     IN IF toSend = 0 THEN wr = 0 /\ Removed
        ELSE wr \in 0 .. toSend /\ Wrote(Wb, toSend, wr)

\* chunkqueue_open_file_chunk, then sendfile, or read and write: the file is opened by its name
\* unless it is open.
SendFile(wr) ==
  /\ Sending("file")
  /\ LET c == Wb.chunks[1]
         toSend == IF Remaining(c) > job.len THEN job.len ELSE Remaining(c)
     IN IF toSend = 0 THEN wr = 0 /\ Removed
        ELSE /\ c.open \/ files[c.name].linked
             /\ wr \in 0 .. toSend
             /\ Wrote([Wb EXCEPT !.chunks[1].open = TRUE], toSend, wr)

-----------------------------------------------------------------------------
\* The request is over, or it failed: the queues are reset (chunkqueue_reset) for the next one.
\* Names of files that are gone are used again.
Reset ==
  /\ pc = "failed" \/ (pc = "idle" /\ fed > 0)
  /\ q' = [n \in Queues |-> Empty]
  /\ LET fs == Unlinked(files, UNION {First(q[n], Len(q[n].chunks)) : n \in Queues})
     IN files' = IF \E f \in DOMAIN fs : fs[f].linked THEN fs ELSE <<>>
  /\ pc' = "idle" /\ job' = NoJob /\ fed' = 0 /\ sent' = <<>>
  /\ UNCHANGED <<setup, fails>>

Next ==
  \/ \E n \in 0 .. Total : Read(n)
  \/ \E s, d \in Queues : AppendQueue(s, d) \/ \E len \in 1 .. Total, t \in BOOLEAN : Steal(s, d, len, t)
  \/ StealEnds \/ StealEmpty \/ StealWhole \/ StealPart \/ StealToFile
  \/ TempTooLarge \/ GetTempfile
  \/ \E n \in 0 .. Total : WriteTemp(n)
  \/ \E full \in BOOLEAN : WriteTempFails(full)
  \/ Send \/ SendEnds
  \/ \E wr \in 0 .. Total : SendMem(wr) \/ SendMems(wr) \/ SendFile(wr)
  \/ Reset

Spec == Init /\ [][Next]_vars

-----------------------------------------------------------------------------
(* Properties *)

\* However the bytes are cut into chunks, moved, copied to files and written in part, they arrive
\* in order, none is lost or doubled, and each queue's counters tell its length (chunk.c:393-460,
\* 589-650, 663-691; network_write.c:376-546).
InOrder ==
  /\ pc \notin {"temp", "failed"} =>
       sent \o Content("wb") \o Content("content") \o Content("read") = [i \in 1 .. fed |-> i]
  /\ \A n \in Queues : q[n].in - q[n].out = Len(Content(n))

\* A temporary file has exactly one chunk that deletes it, and keeps its name for as long as a
\* chunk has to open it: none is left behind, none is missing when its bytes are to be sent
\* (chunk.c:75-98, 442, 611).
FilesOwned ==
  LET all == q["read"].chunks \o q["content"].chunks \o q["wb"].chunks
      owners(f) == {i \in DOMAIN all : all[i].temp /\ all[i].name = f}
  IN /\ \A f \in DOMAIN files : Cardinality(owners(f)) = IF files[f].linked THEN 1 ELSE 0
     /\ \A i \in DOMAIN all : all[i].type = "file" /\ ~all[i].open => files[all[i].name].linked

\* What chunkqueue_steal, append_chunkqueue_to_tempfiles and mark_written keep, together: the
\* bytes in their order, and the files under them (chunk.c:393-691).
BytesKept == InOrder /\ FilesOwned
=============================================================================
