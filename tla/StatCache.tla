------------------------------ MODULE StatCache ------------------------------
(***************************************************************************)
(* The stat cache (stat_cache.c) and its main user, the handler of a       *)
(* static file (http_response_send_file).  Worker threads look a name up   *)
(* under the lock of the cache and go on to use the entry after they gave  *)
(* the lock up; the main thread removes old entries once a second; files   *)
(* change under all of them.                                               *)
(*                                                                         *)
(* A file is its history: version v of name n is disk[n][v], made in the   *)
(* second .born, and .here says whether the name existed then.  What       *)
(* stat() returns is the number of the version; an ETag is the number of   *)
(* the version it was made of (two versions differ in size, inode or       *)
(* mtime), and 0 is the empty one.                                         *)
(***************************************************************************)
EXTENDS Integers, Sequences, FiniteSets

CONSTANTS
  Workers,      \* worker threads
  Names,        \* paths, all of them in one directory
  Keys,         \* values of hashme()
  Configs,      \* the configurations looked at: see Init
  Ids,          \* memory for entries
  NoId,         \* the null pointer
  NoWorker,     \* nobody holds the lock
  MaxTime,      \* bound: seconds
  MaxUse,       \* bound: seconds a worker is busy with one request
  MaxChanges    \* bound: changes of files

ASSUME StatCacheAssumption ==
  /\ NoId \notin Ids /\ NoWorker \notin Workers /\ Names # {}
  /\ {MaxTime, MaxUse, MaxChanges} \subseteq Nat
  /\ \A c \in Configs : /\ c.engine \in {"simple", "none", "fam"}
                       /\ c.follow \in BOOLEAN /\ c.overlap \in BOOLEAN
                       /\ DOMAIN c.hash \subseteq Names
                       /\ \A n \in DOMAIN c.hash : c.hash[n] \in Keys

VARIABLES
  engine,    \* server.stat-cache-engine: "simple", "none", "fam"
  hash,      \* hashme(): the keys of the names that are asked for
  follow,    \* server.follow-symlink, a part of every hash key
  overlap,   \* TRUE: the requests of several workers interleave
  now,       \* server_get_cur_ts()
  swept,     \* the clean-up of this second has been done
  disk,      \* [Names -> the versions of the file]
  files,     \* sc->files: the tree of entries by key
  entry,     \* the memory of the entries
  lock,      \* the holder of the mutex
  watch,     \* scf->dirs: the version of the directory, 0 if not monitored
  events,    \* FAM events that were not read yet
  open,      \* the connection to FAM
  job        \* the request of each worker

config == <<engine, hash, follow, overlap>>
cache == <<files, entry>>
famvars == <<watch, events, open>>
vars == <<config, now, swept, disk, cache, lock, famvars, job>>

InvNone == -1   \* the request has no If-None-Match

NoJob == [pc |-> "idle", name |-> CHOOSE n \in Names : TRUE, again |-> FALSE,
          sce |-> NoId, st |-> 0, since |-> 0, cond |-> InvNone, etag |-> 0, body |-> 0,
          status |-> 0]

Blank == [live |-> FALSE, name |-> CHOOSE n \in Names : TRUE, st |-> 0, ts |-> 0,
          etag |-> 0, dirver |-> 0, watched |-> FALSE]

Version(n) == Len(disk[n])
Here(n) == disk[n][Version(n)].here

Init ==
  /\ \E c \in Configs : /\ engine = c.engine /\ hash = c.hash
                       /\ follow = c.follow /\ overlap = c.overlap
  /\ now = 0 /\ swept = TRUE
  /\ disk = [n \in Names |-> <<[born |-> 0, here |-> TRUE]>>]
  /\ files = [k \in Keys |-> NoId]
  /\ entry = [i \in Ids |-> Blank]
  /\ lock = NoWorker
  /\ watch = 0 /\ events = 0 /\ open = (engine = "fam")
  /\ job = [w \in Workers |-> NoJob]

-----------------------------------------------------------------------------
(* A request for a static file *)

Busy(w) == job[w].pc # "idle"
Turn(w) == overlap \/ \A v \in Workers \ {w} : ~Busy(v)
At(w, pc) == job[w].pc = pc /\ Turn(w)
Key(w) == hash[job[w].name]

\* A client asks for n, possibly with the ETag of a version it holds.
Request(w, n, c) ==
  /\ ~Busy(w) /\ Turn(w)
  /\ c # InvNone => disk[n][c].here
  /\ job' = [job EXCEPT ![w] = [NoJob EXCEPT !.pc = "lookup", !.name = n, !.since = now,
                                             !.cond = c]]
  /\ UNCHANGED <<config, now, swept, disk, cache, lock, famvars>>

\* Mutant: an entry of any age is good enough.
HitAnySecond(w) ==
  LET i == files[Key(w)] IN
  i # NoId /\ entry[i].name = job[w].name /\ engine # "none"

\* The entry in the tree is the one of this name and needs no new stat().
Hit(w) ==
  LET i == files[Key(w)] IN
  /\ i # NoId /\ entry[i].name = job[w].name
  /\ \/ engine = "simple" /\ entry[i].ts = now /\ follow
     \/ engine = "fam" /\ watch # 0 /\ entry[i].dirver = watch

\* The entry of another name with the same key is forgotten.
Found(w) ==
  LET i == files[Key(w)] IN
  IF i # NoId /\ entry[i].name = job[w].name THEN i ELSE NoId

\* What comes after stat_cache_get_entry: the headers, and on the second look
\* (http_chunk_append_file_open_fstat, without follow-symlink) the body.
Returns(w, i) ==
  job' = [job EXCEPT ![w].pc = IF job[w].again THEN "open" ELSE "etag",
                     ![w].sce = IF job[w].again THEN NoId ELSE i,
                     ![w].st = 0]

\* Under the lock: a hit ends here, a miss keeps the lock.
LookUp(w) ==
  /\ At(w, "lookup") /\ lock = NoWorker
  /\ \/ /\ Hit(w)
        /\ Returns(w, files[Key(w)])
        /\ UNCHANGED lock
     \/ /\ ~Hit(w)
        /\ lock' = w
        /\ job' = [job EXCEPT ![w].pc = "stat"]
  /\ UNCHANGED <<config, now, swept, disk, cache, famvars>>

\* stat() or open() failed: http_response_send_file answers 404, and a failure
\* of the second look makes http_chunk_append_file fail.
Fails(w) ==
  /\ lock' = NoWorker
  /\ job' = [job EXCEPT ![w].pc = "done", ![w].status = IF job[w].again THEN 403 ELSE 404]
  /\ UNCHANGED <<config, now, swept, disk, cache, famvars>>

\* stat() sees the file as it is now.
Stat(w) ==
  /\ At(w, "stat")
  /\ \/ ~Here(job[w].name) /\ Fails(w)
     \/ /\ Here(job[w].name)
        /\ job' = [job EXCEPT ![w].pc = "fill", ![w].st = Version(job[w].name)]
        /\ UNCHANGED <<config, now, swept, disk, cache, lock, famvars>>

\* stat_cache_fam_dir_monitor: the version of the directory goes with the entry.
\* When the directory cannot be monitored its record is freed and read after that.
Registers == engine = "fam" /\ watch = 0 /\ open
DirVersions ==
  CASE engine # "fam" -> {0}
    [] engine = "fam" /\ watch # 0 -> {watch}
    [] Registers -> {1}
    [] engine = "fam" /\ watch = 0 /\ ~open -> {0, 1}

Filled(w, dv) ==
  [live |-> TRUE, name |-> job[w].name, st |-> job[w].st, ts |-> now, etag |-> 0,
   dirver |-> dv, watched |-> engine = "fam" /\ watch # 0]

\* Mutant: the entry that had the key is not freed.
StoreLeaks(w, dv) ==
  \E i \in {j \in Ids : ~entry[j].live} :
    /\ entry' = [entry EXCEPT ![i] = Filled(w, dv)]
    /\ files' = [files EXCEPT ![Key(w)] = i]
    /\ Returns(w, i)

\* The readable file gets an entry of its own, or its old one anew.
Store(w, dv) ==
  IF Found(w) # NoId
  THEN /\ entry' = [entry EXCEPT ![Found(w)] = Filled(w, dv)]
       /\ UNCHANGED files
       /\ Returns(w, Found(w))
  ELSE \E i \in {j \in Ids : ~entry[j].live} :
         /\ entry' = [j \in Ids |-> CASE j = i -> Filled(w, dv)
                                      [] j # i /\ j = files[Key(w)] -> [entry[j] EXCEPT !.live = FALSE]
                                      [] j # i /\ j # files[Key(w)] -> entry[j]]
         /\ files' = [files EXCEPT ![Key(w)] = i]
         /\ Returns(w, i)

\* The second half of stat_cache_get_entry: open() once, store, unlock.
Fill(w) ==
  /\ At(w, "fill")
  /\ \/ ~Here(job[w].name) /\ Fails(w)
     \/ /\ Here(job[w].name)
        /\ \E dv \in DirVersions : Store(w, dv)
        /\ watch' = IF Registers THEN 1 ELSE watch
        /\ lock' = NoWorker
        /\ UNCHANGED <<config, now, swept, disk, events, open>>

\* stat_cache_etag_get, without the lock: an empty ETag is made from the entry's st ...
EtagGet(w) ==
  /\ At(w, "etag")
  /\ IF entry[job[w].sce].etag # 0
     THEN job' = [job EXCEPT ![w].pc = "copy"]
     ELSE job' = [job EXCEPT ![w].pc = "create", ![w].etag = entry[job[w].sce].st]
  /\ UNCHANGED <<config, now, swept, disk, cache, lock, famvars>>

\* ... and written into the entry, whatever has become of it.
EtagCreate(w) ==
  /\ At(w, "create")
  /\ entry' = [entry EXCEPT ![job[w].sce].etag = job[w].etag]
  /\ job' = [job EXCEPT ![w].pc = "copy"]
  /\ UNCHANGED <<config, now, swept, disk, files, lock, famvars>>

\* etag_mutate and http_response_handle_cachable: 304 if the client has this ETag.
EtagCopy(w) ==
  /\ At(w, "copy")
  /\ LET e == entry[job[w].sce].etag IN
     job' = [job EXCEPT
       ![w].etag = e,
       ![w].pc = IF job[w].cond = e THEN "done" ELSE IF follow THEN "open" ELSE "lookup",
       ![w].again = job[w].cond # e /\ ~follow,
       ![w].sce = NoId,
       ![w].cond = InvNone,
       ![w].status = IF job[w].cond = e THEN 304 ELSE 0]
  /\ UNCHANGED <<config, now, swept, disk, cache, lock, famvars>>

\* http_chunk_append_file: the body is the file as it is when it is opened here.
Open(w) ==
  /\ At(w, "open")
  /\ LET n == job[w].name IN
     job' = [job EXCEPT ![w].pc = "done",
                        ![w].body = IF Here(n) THEN Version(n) ELSE 0,
                        ![w].status = IF Here(n) THEN 200 ELSE 403]
  /\ UNCHANGED <<config, now, swept, disk, cache, lock, famvars>>

Finish(w) ==
  /\ job[w].pc = "done"
  /\ job' = [job EXCEPT ![w] = NoJob]
  /\ UNCHANGED <<config, now, swept, disk, cache, lock, famvars>>

-----------------------------------------------------------------------------
(* The main thread, and the file system *)

\* A new second, in which no request has been going on for too long.
Tick ==
  /\ now < MaxTime /\ swept
  /\ \A w \in Workers : Busy(w) => now < job[w].since + MaxUse
  /\ now' = now + 1 /\ swept' = FALSE
  /\ UNCHANGED <<config, disk, cache, lock, famvars, job>>

\* Mutant: the age is off by one.
OldSooner(k) == files[k] # NoId /\ now - entry[files[k]].ts > 1

\* stat_cache_tag_old_entries: not stat()ed for more than 2 seconds.
Old(k) == files[k] # NoId /\ now - entry[files[k]].ts > 2

\* stat_cache_trigger_cleanup.
Cleanup ==
  /\ ~swept /\ lock = NoWorker
  /\ swept' = TRUE
  /\ files' = [k \in Keys |-> IF Old(k) THEN NoId ELSE files[k]]
  /\ entry' = [i \in Ids |-> IF \E k \in Keys : Old(k) /\ files[k] = i
                             THEN [entry[i] EXCEPT !.live = FALSE] ELSE entry[i]]
  /\ UNCHANGED <<config, now, disk, lock, famvars, job>>

\* Mutant: the version of the directory is not incremented.
FamEventIgnored ==
  /\ open /\ lock = NoWorker /\ events > 0
  /\ events' = events - 1
  /\ UNCHANGED <<config, now, swept, disk, cache, lock, watch, open, job>>

\* stat_cache_handle_fdevent: one event of FAM about a file of the directory.
FamEvent ==
  /\ open /\ lock = NoWorker /\ events > 0
  /\ events' = events - 1
  /\ watch' = watch + 1
  /\ UNCHANGED <<config, now, swept, disk, cache, lock, open, job>>

\* FAM closed the connection.
FamHup ==
  /\ open /\ lock = NoWorker
  /\ open' = FALSE /\ events' = 0
  /\ UNCHANGED <<config, now, swept, disk, cache, lock, watch, job>>

\* Somebody writes, removes or creates a file; FAM tells of a monitored directory.
Changes == Cardinality({p \in Names \X (2 .. MaxChanges + 1) : p[2] <= Version(p[1])})
Change(n, here) ==
  /\ Changes < MaxChanges
  /\ here \/ Here(n)
  /\ disk' = [disk EXCEPT ![n] = Append(@, [born |-> now, here |-> here])]
  /\ events' = IF open /\ watch # 0 THEN events + 1 ELSE events
  /\ UNCHANGED <<config, now, swept, cache, lock, watch, open, job>>

Worker(w) ==
  \/ \E n \in DOMAIN hash : \E c \in {InvNone} \cup (1 .. Version(n)) : Request(w, n, c)
  \/ LookUp(w) \/ Stat(w) \/ Fill(w)
  \/ EtagGet(w) \/ EtagCreate(w) \/ EtagCopy(w) \/ Open(w) \/ Finish(w)

Next ==
  \/ \E w \in Workers : Worker(w)
  \/ Tick \/ Cleanup \/ FamHup \/ FamEvent
  \/ \E n \in DOMAIN hash, here \in BOOLEAN : Change(n, here)

Spec == Init /\ [][Next]_vars

-----------------------------------------------------------------------------
(* Properties *)

Using(w) == job[w].pc \in {"etag", "create", "copy"}

\* Entries, the tree, the lock and the requests have their types; the lock is
\* held exactly by the worker that is between stat() and the store.
TypeOK ==
  /\ engine \in {"simple", "none", "fam"} /\ overlap \in BOOLEAN
  /\ DOMAIN hash \subseteq Names /\ \A n \in DOMAIN hash : hash[n] \in Keys /\ follow \in BOOLEAN
  /\ now \in Nat /\ swept \in BOOLEAN /\ open \in BOOLEAN
  /\ disk \in [Names -> Seq([born : Nat, here : BOOLEAN])]
  /\ files \in [Keys -> Ids \cup {NoId}]
  /\ entry \in [Ids -> [live : BOOLEAN, name : Names, st : Nat, ts : Nat, etag : Nat,
                        dirver : Nat, watched : BOOLEAN]]
  /\ lock \in Workers \cup {NoWorker}
  /\ watch \in Nat /\ events \in Nat
  /\ job \in [Workers ->
       [pc : {"idle", "lookup", "stat", "fill", "etag", "create", "copy", "open", "done"},
        name : Names, again : BOOLEAN, sce : Ids \cup {NoId}, st : Nat,
        since : Nat, cond : Nat \cup {InvNone}, etag : Nat, body : Nat,
        status : {0, 200, 304, 403, 404}]]
  /\ \A w \in Workers : (lock = w) = (job[w].pc \in {"stat", "fill"})

\* stat_cache.c frees an entry when its key goes to another name and when it is
\* old, and nowhere else: the tree holds every live entry, once, and no freed one.
TreeOwns ==
  /\ \A k \in Keys : files[k] # NoId => entry[files[k]].live
  /\ \A k, l \in Keys : files[k] = files[l] /\ files[k] # NoId => k = l
  /\ \A i \in Ids : entry[i].live => \E k \in Keys : files[k] = i

Injective == \A a, b \in DOMAIN hash : hash[a] = hash[b] => a = b

\* The entry that stat_cache_get_entry returned is used without the lock.  With
\* the simple engine, or none, it is that of the name and still allocated as long
\* as names do not share a key and a request is done within two seconds, the age
\* at which the clean-up frees entries.
UsedLive ==
  engine # "fam" /\ Injective =>
    \A w \in Workers : Using(w) => entry[job[w].sce].live /\ entry[job[w].sce].name = job[w].name

\* What http_response_send_file promises with a validator, whatever other workers do to the
\* entry in between: it never sends the ETag of a newer version than the body it opens
\* afterwards (a cache keeps the body under it); and while requests do not overlap, 304 is
\* answered only for a version that was current when the request came, or as long before as a
\* worker may take between the stat() and the time stamp stat_cache_get_entry gives it.
ValidatorsHold ==
  engine # "fam" =>
    \A w \in Workers : job[w].pc = "done" =>
      /\ Injective /\ job[w].status = 200 => job[w].etag <= job[w].body
      /\ ~overlap /\ job[w].status = 304 =>
           LET d == disk[job[w].name] v == job[w].etag IN
           v < Len(d) => d[v + 1].born >= job[w].since - MaxUse

\* With FAM an entry that was filled while its directory was monitored is the
\* file's current state, or an event is on its way that will make it invalid, or
\* the directory's version has already moved on.
FamNotices ==
  open /\ ~(\E w \in Workers : lock = w) =>
    \A n \in DOMAIN hash :
      LET i == files[hash[n]] IN
      /\ i # NoId /\ entry[i].name = n /\ entry[i].watched
      /\ events = 0 /\ entry[i].dirver = watch
      => entry[i].st = Version(n)
=============================================================================
