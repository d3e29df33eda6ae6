--------------------------- MODULE StatCacheProofs ---------------------------
(***************************************************************************)
(* The stat cache, for any numbers of workers, names, keys and entries,    *)
(* any configuration and any history of the files.                         *)
(***************************************************************************)
EXTENDS StatCache, TLAPS

\* The configurations in which an entry in use is not freed: what UsedLive supposes.
Safe == MaxUse <= 2 /\ engine # "fam" /\ Injective

\* A stat() knows no version to come, and the next version after the one it saw came after it: an
\* entry has the time stamp of the store, the stat() before it may be as old as its request.
Stated(i) ==
  LET d == disk[entry[i].name] v == entry[i].st IN
  /\ entry[i].ts <= now /\ v <= Len(d)
  /\ v < Len(d) => d[v + 1].born >= entry[i].ts - MaxUse
\* What was seen of a monitored directory is current, or an event is on its way.
Watched(i) ==
  entry[i].watched =>
    /\ entry[i].dirver <= watch /\ watch # 0
    /\ open /\ entry[i].dirver = watch /\ entry[i].st # Version(entry[i].name) => events > 0
\* An ETag is that of a version that has been, and without overlap that of the stat().
Etagged(i) ==
  /\ ~overlap => entry[i].etag \in {0, entry[i].st}
  /\ Safe => entry[i].etag <= Version(entry[i].name)
EntrySound(i) == Stated(i) /\ Watched(i) /\ Etagged(i)

\* A request is for a name that has a key, and not older than MaxUse.
Timely(w) ==
  Busy(w) => /\ job[w].since <= now /\ now <= job[w].since + MaxUse
             /\ job[w].name \in DOMAIN hash
\* The entry in use: where its name is looked up, and too young to be freed; without overlap
\* nobody else writes to it, freed or not.
Held(w) ==
  Using(w) =>
    LET i == job[w].sce IN
    /\ i \in Ids
    /\ Safe => files[Key(w)] = i /\ entry[i].name = job[w].name /\ entry[i].ts >= job[w].since
    /\ ~overlap => /\ entry[i].name = job[w].name
                   /\ engine # "fam" => entry[i].ts >= job[w].since
                   /\ job[w].pc = "create" => job[w].etag = entry[i].st
                   /\ job[w].pc = "copy" => entry[i].etag = entry[i].st
\* Of a stat() that is not stored yet.
Seen(w) ==
  LET d == disk[job[w].name] v == job[w].st IN
  v <= Len(d) /\ (job[w].pc = "fill" /\ v < Len(d) => d[v + 1].born >= job[w].since)
Noted(w) ==
  job[w].pc = "fill" /\ open /\ watch # 0 /\ job[w].st # Version(job[w].name) => events > 0
Tagged(w) == Safe => job[w].etag <= Version(job[w].name)
\* ValidatorsHold for one worker.
Valid(w) ==
  engine # "fam" /\ job[w].pc = "done" =>
    /\ Safe /\ job[w].status = 200 => job[w].etag <= job[w].body
    /\ ~overlap /\ job[w].status = 304 =>
         LET d == disk[job[w].name] v == job[w].etag IN
         v < Len(d) => d[v + 1].born >= job[w].since - MaxUse
JobSound(w) == Timely(w) /\ Held(w) /\ Seen(w) /\ Noted(w) /\ Tagged(w) /\ Valid(w)

\* The tree has an entry under the key of its name.
Keyed ==
  \A k \in Keys : files[k] # NoId =>
    entry[files[k]].name \in DOMAIN hash /\ hash[entry[files[k]].name] = k
Alone == ~overlap => \A v, w \in Workers : Busy(v) /\ Busy(w) => v = w
Whole == TreeOwns /\ Keyed /\ Alone /\ (open => engine = "fam")

IInv == TypeOK /\ Whole /\ (\A i \in Ids : EntrySound(i)) /\ (\A w \in Workers : JobSound(w))

JobType ==
  [pc : {"idle", "lookup", "stat", "fill", "etag", "create", "copy", "open", "done"},
   name : Names, again : BOOLEAN, sce : Ids \cup {NoId}, st : Nat,
   since : Nat, cond : Nat \cup {InvNone}, etag : Nat, body : Nat, status : {0, 200, 304, 403, 404}]
EntryType == [live : BOOLEAN, name : Names, st : Nat, ts : Nat, etag : Nat, dirver : Nat, watched : BOOLEAN]

\* The conjuncts of TypeOK for what changes, and for what does not.
ConfigOK ==
  /\ engine \in {"simple", "none", "fam"} /\ overlap \in BOOLEAN
  /\ DOMAIN hash \subseteq Names /\ \A n \in DOMAIN hash : hash[n] \in Keys /\ follow \in BOOLEAN
LockOK == \A w \in Workers : (lock = w) = (job[w].pc \in {"stat", "fill"})
Types ==
  /\ ConfigOK
  /\ now \in Nat /\ swept \in BOOLEAN /\ open \in BOOLEAN
  /\ disk \in [Names -> Seq([born : Nat, here : BOOLEAN])]
  /\ files \in [Keys -> Ids \cup {NoId}]
  /\ entry \in [Ids -> EntryType]
  /\ lock \in Workers \cup {NoWorker}
  /\ watch \in Nat /\ events \in Nat
  /\ job \in [Workers -> JobType]
  /\ LockOK

-----------------------------------------------------------------------------
(* Types *)

LEMMA TypesAre == TypeOK <=> Types
BY DEF TypeOK, Types, ConfigOK, LockOK, JobType, EntryType

LEMMA Constants ==
  ASSUME StatCacheAssumption
  PROVE  /\ NoJob \in JobType /\ NoJob.pc = "idle" /\ NoJob.st = 0 /\ NoJob.etag = 0 /\ NoJob.sce = NoId
         /\ Blank \in EntryType /\ ~Blank.live /\ Blank.st = 0 /\ Blank.etag = 0 /\ Blank.ts = 0
         /\ ~Blank.watched
<1>1. (CHOOSE n \in Names : TRUE) \in Names
  BY DEF StatCacheAssumption
<1> QED BY <1>1 DEF NoJob, Blank, JobType, EntryType, InvNone

\* A request that goes on leaves those of the other workers alone.
LEMMA Touched ==
  ASSUME Types, NEW w \in Workers, NEW j \in JobType, job' = [job EXCEPT ![w] = j]
  PROVE  /\ job' \in [Workers -> JobType] /\ job'[w] = j
         /\ \A v \in Workers : v # w => job'[v] = job[v]
BY DEF Types

Pcs == {"idle", "lookup", "stat", "fill", "etag", "create", "copy", "open", "done"}
Statuses == {0, 200, 304, 403, 404}
Jobs == [Workers -> JobType]

\* A field of a request may be set to any value of its type.
LEMMA SetPc == \A w \in Workers, g \in Jobs, z \in Pcs : [g EXCEPT ![w].pc = z] \in Jobs
BY DEF Jobs, JobType, Pcs, Statuses
LEMMA SetAgain == \A w \in Workers, g \in Jobs, z \in BOOLEAN : [g EXCEPT ![w].again = z] \in Jobs
BY DEF Jobs, JobType, Pcs, Statuses
LEMMA SetSce == \A w \in Workers, g \in Jobs, z \in Ids \cup {NoId} : [g EXCEPT ![w].sce = z] \in Jobs
BY DEF Jobs, JobType, Pcs, Statuses
LEMMA SetSt == \A w \in Workers, g \in Jobs, z \in Nat : [g EXCEPT ![w].st = z] \in Jobs
BY DEF Jobs, JobType, Pcs, Statuses
LEMMA SetCond == \A w \in Workers, g \in Jobs, z \in Nat \cup {InvNone} : [g EXCEPT ![w].cond = z] \in Jobs
BY DEF Jobs, JobType, Pcs, Statuses
LEMMA SetEtag == \A w \in Workers, g \in Jobs, z \in Nat : [g EXCEPT ![w].etag = z] \in Jobs
BY DEF Jobs, JobType, Pcs, Statuses
LEMMA SetBody == \A w \in Workers, g \in Jobs, z \in Nat : [g EXCEPT ![w].body = z] \in Jobs
BY DEF Jobs, JobType, Pcs, Statuses
LEMMA SetStatus == \A w \in Workers, g \in Jobs, z \in Statuses : [g EXCEPT ![w].status = z] \in Jobs
BY DEF Jobs, JobType, Pcs, Statuses

\* The fields that no step after Request sets, and the requests of the others.
Same(w) ==
  /\ job'[w].name = job[w].name /\ job'[w].since = job[w].since
  /\ \A v \in Workers : v # w => job'[v] = job[v]

LEMMA RequestEffect ==
  ASSUME StatCacheAssumption, Types, NEW w \in Workers, NEW n \in Names,
         NEW c \in Nat \cup {InvNone}, Request(w, n, c)
  PROVE  /\ job' \in Jobs
         /\ job'[w].pc = "lookup" /\ job'[w].name = n /\ job'[w].since = now /\ job'[w].st = 0
         /\ job'[w].etag = 0
         /\ \A v \in Workers : v # w => job'[v] = job[v]
<1> DEFINE x == [NoJob EXCEPT !.pc = "lookup"]
           y == [x EXCEPT !.name = n]
           z == [y EXCEPT !.since = now]
           j == [z EXCEPT !.cond = c]
<1>1. job' = [job EXCEPT ![w] = j]
  BY DEF Request
<1>2. x \in JobType /\ x.pc = "lookup" /\ x.st = 0 /\ x.etag = 0
  BY Constants DEF JobType
<1> HIDE DEF x
<1>3. y \in JobType /\ y.pc = "lookup" /\ y.st = 0 /\ y.etag = 0 /\ y.name = n
  BY <1>2 DEF JobType
<1> HIDE DEF y
<1>4. z \in JobType /\ z.pc = "lookup" /\ z.st = 0 /\ z.etag = 0 /\ z.name = n /\ z.since = now
  <2>1. now \in Nat
    BY DEF Types
  <2> QED BY <1>3, <2>1 DEF JobType
<1> HIDE DEF z
<1>5. /\ j \in JobType /\ j.pc = "lookup" /\ j.st = 0 /\ j.etag = 0 /\ j.name = n
      /\ j.since = now
  BY <1>4 DEF JobType
<1> HIDE DEF j
<1> QED BY <1>1, <1>5, Touched DEF Jobs

LEMMA ReturnsEffect ==
  ASSUME Types, NEW w \in Workers, NEW i \in Ids, Returns(w, i)
  PROVE  /\ job' \in Jobs /\ Same(w)
         /\ job'[w].pc = IF job[w].again THEN "open" ELSE "etag"
         /\ job'[w].sce = IF job[w].again THEN NoId ELSE i
         /\ job'[w].st = 0 /\ job'[w].etag = job[w].etag
<1> DEFINE p == IF job[w].again THEN "open" ELSE "etag"
           e == IF job[w].again THEN NoId ELSE i
           g1 == [job EXCEPT ![w].pc = p]
           g2 == [g1 EXCEPT ![w].sce = e]
           g3 == [g2 EXCEPT ![w].st = 0]
<1>0. job \in Jobs
  BY DEF Types, Jobs
<1>1. job' = g3
  BY Zenon DEF Returns
<1>2. p \in Pcs /\ e \in Ids \cup {NoId}
  BY DEF Pcs
<1>m1. p \in Pcs
  BY <1>2 DEF Pcs, Statuses
<1>m2. e \in Ids \cup {NoId}
  BY <1>2 DEF Pcs, Statuses
<1>m3. 0 \in Nat
  BY <1>2 DEF Pcs, Statuses
<1> HIDE DEF p, e
<1>t1. g1 \in Jobs
  BY <1>0, <1>m1, SetPc
<1> HIDE DEF g1
<1>t2. g2 \in Jobs
  BY <1>m2, <1>t1, SetSce
<1> HIDE DEF g2
<1>t3. g3 \in Jobs
  BY <1>m3, <1>t2, SetSt
<1>3. /\ job'[w].pc = p /\ job'[w].sce = e /\ job'[w].st = 0 /\ job'[w].etag = job[w].etag
      /\ Same(w)
  BY <1>0, <1>1 DEF g1, g2, g3, Jobs, JobType, Same
<1> QED BY <1>1, <1>t3, <1>3, <1>2 DEF p, e

LEMMA FailsEffect ==
  ASSUME Types, NEW w \in Workers, Fails(w)
  PROVE  /\ job' \in Jobs /\ Same(w)
         /\ job'[w].pc = "done" /\ job'[w].status \in {403, 404}
         /\ job'[w].st = job[w].st /\ job'[w].etag = job[w].etag /\ job'[w].sce = job[w].sce
<1> DEFINE s == IF job[w].again THEN 403 ELSE 404
           g1 == [job EXCEPT ![w].pc = "done"]
           g2 == [g1 EXCEPT ![w].status = s]
<1>0. job \in Jobs
  BY DEF Types, Jobs
<1>1. job' = g2
  BY Zenon DEF Fails
<1>2. s \in {403, 404}
  OBVIOUS
<1>m1. "done" \in Pcs
  BY <1>2 DEF Pcs, Statuses
<1>m2. s \in Statuses
  BY <1>2 DEF Pcs, Statuses
<1> HIDE DEF s
<1>t1. g1 \in Jobs
  BY <1>0, <1>m1, SetPc
<1> HIDE DEF g1
<1>t2. g2 \in Jobs
  BY <1>m2, <1>t1, SetStatus
<1>3. /\ job'[w].pc = "done" /\ job'[w].status = s
      /\ job'[w].st = job[w].st /\ job'[w].etag = job[w].etag /\ job'[w].sce = job[w].sce
      /\ Same(w)
  BY <1>0, <1>1 DEF g1, g2, Jobs, JobType, Same
<1> QED BY <1>1, <1>t2, <1>3, <1>2 DEF s

\* A stat() that found the file.
LEMMA StatEffect ==
  ASSUME Types, NEW w \in Workers, job' = [job EXCEPT ![w].pc = "fill", ![w].st = Version(job[w].name)]
  PROVE  /\ job' \in Jobs /\ Same(w)
         /\ job'[w].pc = "fill" /\ job'[w].st = Version(job[w].name)
         /\ job'[w].etag = job[w].etag /\ job'[w].sce = job[w].sce
<1> DEFINE u == Version(job[w].name)
           g1 == [job EXCEPT ![w].pc = "fill"]
           g2 == [g1 EXCEPT ![w].st = u]
<1>0. job \in Jobs
  BY DEF Types, Jobs
<1>1. job' = g2
  BY Zenon
<1>2. u \in Nat
  BY DEF Version, Types, JobType
<1>m1. "fill" \in Pcs
  BY <1>2 DEF Pcs, Statuses
<1>m2. u \in Nat
  BY <1>2 DEF Pcs, Statuses
<1> HIDE DEF u
<1>t1. g1 \in Jobs
  BY <1>0, <1>m1, SetPc
<1> HIDE DEF g1
<1>t2. g2 \in Jobs
  BY <1>m2, <1>t1, SetSt
<1>3. /\ job'[w].pc = "fill" /\ job'[w].st = u
      /\ job'[w].etag = job[w].etag /\ job'[w].sce = job[w].sce
      /\ Same(w)
  BY <1>0, <1>1 DEF g1, g2, Jobs, JobType, Same
<1> QED BY <1>1, <1>t2, <1>3, <1>2 DEF u

\* A miss.
LEMMA LookUpEffect ==
  ASSUME Types, NEW w \in Workers, job' = [job EXCEPT ![w].pc = "stat"]
  PROVE  /\ job' \in Jobs /\ Same(w)
         /\ job'[w].pc = "stat" /\ job'[w].st = job[w].st
         /\ job'[w].etag = job[w].etag /\ job'[w].sce = job[w].sce
<1> DEFINE g1 == [job EXCEPT ![w].pc = "stat"]
<1>0. job \in Jobs
  BY DEF Types, Jobs
<1>1. job' = g1
  BY Zenon
<1>m1. "stat" \in Pcs
  BY DEF Pcs, Statuses
<1>t1. g1 \in Jobs
  BY <1>0, <1>m1, SetPc
<1>3. /\ job'[w].pc = "stat" /\ job'[w].st = job[w].st
      /\ job'[w].etag = job[w].etag /\ job'[w].sce = job[w].sce
      /\ Same(w)
  BY <1>0, <1>1 DEF g1, Jobs, JobType, Same
<1> QED BY <1>1, <1>t1, <1>3

LEMMA EtagGetEffect ==
  ASSUME Types, NEW w \in Workers, job[w].sce \in Ids, EtagGet(w)
  PROVE  /\ job' \in Jobs /\ Same(w)
         /\ job'[w].st = job[w].st /\ job'[w].sce = job[w].sce
         /\ \/ /\ entry[job[w].sce].etag # 0
               /\ job'[w].pc = "copy" /\ job'[w].etag = job[w].etag
            \/ /\ entry[job[w].sce].etag = 0
               /\ job'[w].pc = "create" /\ job'[w].etag = entry[job[w].sce].st
<1> DEFINE e == entry[job[w].sce].etag
           u == entry[job[w].sce].st
<1>1. u \in Nat /\ job \in Jobs
  BY DEF Types, EntryType, Jobs
<1>2. \/ e # 0 /\ job' = [job EXCEPT ![w].pc = "copy"]
      \/ e = 0 /\ job' = [job EXCEPT ![w].pc = "create", ![w].etag = u]
  BY DEF EtagGet
<1> HIDE DEF e, u
<1>3. CASE e # 0 /\ job' = [job EXCEPT ![w].pc = "copy"]
  <2>1. job' \in Jobs
    BY <1>1, <1>3, SetPc DEF Pcs
  <2>2. /\ job'[w].pc = "copy" /\ job'[w].etag = job[w].etag
        /\ job'[w].st = job[w].st /\ job'[w].sce = job[w].sce /\ Same(w)
    BY <1>1, <1>3 DEF Jobs, JobType, Same
  <2> QED BY <1>3, <2>1, <2>2 DEF e
<1>4. CASE e = 0 /\ job' = [job EXCEPT ![w].pc = "create", ![w].etag = u]
  <2> DEFINE g1 == [job EXCEPT ![w].pc = "create"]
  <2>1. g1 \in Jobs
    BY <1>1, SetPc DEF Pcs
  <2>2. job' = [g1 EXCEPT ![w].etag = u]
    BY <1>4
  <2>3. /\ job'[w].pc = "create" /\ job'[w].etag = u
        /\ job'[w].st = job[w].st /\ job'[w].sce = job[w].sce /\ Same(w)
    BY <1>1, <1>4 DEF Jobs, JobType, Same
  <2> HIDE DEF g1
  <2>4. job' \in Jobs
    BY <1>1, <2>1, <2>2, SetEtag
  <2> QED BY <1>4, <2>3, <2>4 DEF e, u
<1> QED BY <1>2, <1>3, <1>4

LEMMA EtagCreateEffect ==
  ASSUME Types, NEW w \in Workers, EtagCreate(w)
  PROVE  /\ job' \in Jobs /\ Same(w)
         /\ job'[w].pc = "copy" /\ job'[w].st = job[w].st
         /\ job'[w].etag = job[w].etag /\ job'[w].sce = job[w].sce
<1> DEFINE g1 == [job EXCEPT ![w].pc = "copy"]
<1>0. job \in Jobs
  BY DEF Types, Jobs
<1>1. job' = g1
  BY Zenon DEF EtagCreate
<1>m1. "copy" \in Pcs
  BY DEF Pcs, Statuses
<1>t1. g1 \in Jobs
  BY <1>0, <1>m1, SetPc
<1>3. /\ job'[w].pc = "copy" /\ job'[w].st = job[w].st
      /\ job'[w].etag = job[w].etag /\ job'[w].sce = job[w].sce
      /\ Same(w)
  BY <1>0, <1>1 DEF g1, Jobs, JobType, Same
<1> QED BY <1>1, <1>t1, <1>3

LEMMA EtagCopyEffect ==
  ASSUME StatCacheAssumption, Types, NEW w \in Workers, job[w].sce \in Ids, EtagCopy(w)
  PROVE  /\ job' \in Jobs /\ Same(w)
         /\ job'[w].st = job[w].st /\ job'[w].etag = entry[job[w].sce].etag
         /\ \/ job'[w].pc = "done" /\ job'[w].status = 304
            \/ job'[w].pc \in {"open", "lookup"}
<1> DEFINE e == entry[job[w].sce].etag
           p == IF job[w].cond = e THEN "done" ELSE IF follow THEN "open" ELSE "lookup"
           b == (job[w].cond # e /\ ~follow)
           s == IF job[w].cond = e THEN 304 ELSE 0
           g1 == [job EXCEPT ![w].etag = e]
           g2 == [g1 EXCEPT ![w].pc = p]
           g3 == [g2 EXCEPT ![w].again = b]
           g4 == [g3 EXCEPT ![w].sce = NoId]
           g5 == [g4 EXCEPT ![w].cond = InvNone]
           g6 == [g5 EXCEPT ![w].status = s]
<1>0. job \in Jobs
  BY DEF Types, Jobs
<1>1. job' = g6
  BY Zenon DEF EtagCopy
<1>2. /\ e \in Nat /\ p \in Pcs /\ b \in BOOLEAN /\ s \in Statuses
      /\ p \in {"open", "lookup"} \/ (p = "done" /\ s = 304)
  BY DEF Types, EntryType, Pcs, Statuses
<1>m1. e \in Nat
  BY <1>2 DEF Pcs, Statuses
<1>m2. p \in Pcs
  BY <1>2 DEF Pcs, Statuses
<1>m3. b \in BOOLEAN
  BY <1>2 DEF Pcs, Statuses
<1>m4. NoId \in Ids \cup {NoId}
  BY <1>2 DEF Pcs, Statuses
<1>m5. InvNone \in Nat \cup {InvNone}
  BY <1>2 DEF Pcs, Statuses
<1>m6. s \in Statuses
  BY <1>2 DEF Pcs, Statuses
<1> HIDE DEF e, p, b, s
<1>t1. g1 \in Jobs
  BY <1>0, <1>m1, SetEtag
<1> HIDE DEF g1
<1>t2. g2 \in Jobs
  BY <1>m2, <1>t1, SetPc
<1> HIDE DEF g2
<1>t3. g3 \in Jobs
  BY <1>m3, <1>t2, SetAgain
<1> HIDE DEF g3
<1>t4. g4 \in Jobs
  BY <1>m4, <1>t3, SetSce
<1> HIDE DEF g4
<1>t5. g5 \in Jobs
  BY <1>m5, <1>t4, SetCond
<1> HIDE DEF g5
<1>t6. g6 \in Jobs
  BY <1>m6, <1>t5, SetStatus
<1>3. /\ job'[w].etag = e /\ job'[w].pc = p /\ job'[w].status = s /\ job'[w].st = job[w].st
      /\ Same(w)
  BY <1>0, <1>1 DEF g1, g2, g3, g4, g5, g6, Jobs, JobType, Same
<1> QED BY <1>1, <1>t6, <1>3, <1>2 DEF e, p, b, s

LEMMA OpenEffect ==
  ASSUME Types, NEW w \in Workers, Open(w)
  PROVE  /\ job' \in Jobs /\ Same(w)
         /\ job'[w].pc = "done" /\ job'[w].status \in {200, 403}
         /\ job'[w].st = job[w].st /\ job'[w].etag = job[w].etag
         /\ job'[w].status = 200 => job'[w].body = Version(job[w].name)
<1> DEFINE b == IF Here(job[w].name) THEN Version(job[w].name) ELSE 0
           s == IF Here(job[w].name) THEN 200 ELSE 403
           g1 == [job EXCEPT ![w].pc = "done"]
           g2 == [g1 EXCEPT ![w].body = b]
           g3 == [g2 EXCEPT ![w].status = s]
<1>0. job \in Jobs
  BY DEF Types, Jobs
<1>1. job' = g3
  BY Zenon DEF Open
<1>2. b \in Nat /\ s \in {200, 403} /\ (s = 200 => b = Version(job[w].name))
  BY DEF Version, Types, JobType
<1>m1. "done" \in Pcs
  BY <1>2 DEF Pcs, Statuses
<1>m2. b \in Nat
  BY <1>2 DEF Pcs, Statuses
<1>m3. s \in Statuses
  BY <1>2 DEF Pcs, Statuses
<1> HIDE DEF b, s
<1>t1. g1 \in Jobs
  BY <1>0, <1>m1, SetPc
<1> HIDE DEF g1
<1>t2. g2 \in Jobs
  BY <1>m2, <1>t1, SetBody
<1> HIDE DEF g2
<1>t3. g3 \in Jobs
  BY <1>m3, <1>t2, SetStatus
<1>3. /\ job'[w].pc = "done" /\ job'[w].body = b /\ job'[w].status = s
      /\ job'[w].st = job[w].st /\ job'[w].etag = job[w].etag
      /\ Same(w)
  BY <1>0, <1>1 DEF g1, g2, g3, Jobs, JobType, Same
<1> QED BY <1>1, <1>t3, <1>3, <1>2 DEF b, s

LEMMA FinishEffect ==
  ASSUME StatCacheAssumption, Types, NEW w \in Workers, Finish(w)
  PROVE  /\ job' \in Jobs /\ job'[w] = NoJob
         /\ \A v \in Workers : v # w => job'[v] = job[v]
BY Constants, Touched DEF Finish, Jobs

-----------------------------------------------------------------------------
(* A step that changes nothing but a request and the lock *)

Quiet == UNCHANGED <<config, now, swept, disk, cache, famvars>>
Frame == UNCHANGED <<engine, hash, follow, overlap, now, swept, disk, files, entry, watch, events, open>>

LEMMA QuietFrame == Quiet <=> Frame
BY DEF Quiet, Frame, config, cache, famvars

LEMMA UnmovedSound ==
  ASSUME Frame, NEW v \in Workers, job'[v] = job[v], JobSound(v)
  PROVE  JobSound(v)'
BY DEF Frame, JobSound, Timely, Held, Seen, Noted, Tagged, Valid, Safe, Injective, Using, Busy, Key, Version

LEMMA EntriesUnmoved ==
  ASSUME Frame, \A i \in Ids : EntrySound(i)
  PROVE  \A i \in Ids : EntrySound(i)'
BY DEF Frame, EntrySound, Stated, Watched, Etagged, Safe, Injective, Version

LEMMA TypesQuiet ==
  ASSUME Types, Frame, job' \in Jobs, lock' \in Workers \cup {NoWorker}, LockOK'
  PROVE  Types'
BY DEF Types, Frame, Jobs, ConfigOK

\* A request that was under way, or is the only one, keeps requests apart.
LEMMA StaysAlone ==
  ASSUME NEW w \in Workers, Alone, UNCHANGED overlap,
         \A v \in Workers : v # w => job'[v] = job[v],
         Busy(w) \/ ~Busy(w)' \/ overlap \/ \A v \in Workers \ {w} : ~Busy(v)
  PROVE  Alone'
BY DEF Alone, Busy

LEMMA WholeQuiet ==
  ASSUME Frame, Whole, Alone'
  PROVE  Whole'
BY DEF Frame, Whole, TreeOwns, Keyed

\* What is left to show of a step of w.
LEMMA QuietStep ==
  ASSUME Types, Whole, \A i \in Ids : EntrySound(i), \A v \in Workers : JobSound(v),
         NEW w \in Workers, Frame, job' \in Jobs, lock' \in Workers \cup {NoWorker}, LockOK',
         \A v \in Workers : v # w => job'[v] = job[v],
         Busy(w) \/ ~Busy(w)' \/ overlap \/ \A v \in Workers \ {w} : ~Busy(v),
         JobSound(w)'
  PROVE  IInv'
<1>1. Types'
  BY TypesQuiet
<1>2. TypeOK'
  BY <1>1, TypesAre, PTL
<1>3. Alone'
  BY StaysAlone DEF Frame, Whole
<1>4. Whole'
  BY <1>3, WholeQuiet
<1>5. \A i \in Ids : EntrySound(i)'
  BY EntriesUnmoved
<1>6. \A v \in Workers : JobSound(v)'
  BY UnmovedSound
<1> QED BY <1>2, <1>4, <1>5, <1>6 DEF IInv

LEMMA RequestSound ==
  ASSUME StatCacheAssumption, Types, IInv, NEW w \in Workers, NEW n \in DOMAIN hash,
         NEW c \in {InvNone} \cup (1 .. Version(n)), Request(w, n, c)
  PROVE  IInv'
<1>1. n \in Names /\ c \in Nat \cup {InvNone} /\ MaxUse \in Nat /\ now \in Nat /\ Version(n) \in Nat
  BY DEF Types, ConfigOK, StatCacheAssumption, Version
<1>2. /\ job' \in Jobs
      /\ job'[w].pc = "lookup" /\ job'[w].name = n /\ job'[w].since = now /\ job'[w].st = 0
      /\ job'[w].etag = 0
      /\ \A v \in Workers : v # w => job'[v] = job[v]
  BY <1>1, RequestEffect
<1>3. Frame /\ lock' = lock /\ ~Busy(w) /\ Turn(w)
  BY QuietFrame DEF Request, Quiet
<1>4. LockOK'
  BY <1>2, <1>3 DEF LockOK, Types, Busy
<1>5. JobSound(w)'
  <2>1. Timely(w)'
    BY <1>1, <1>2, <1>3 DEF Timely, Frame
  <2>2. Seen(w)' /\ Tagged(w)'
    BY <1>1, <1>2, <1>3 DEF Seen, Tagged, Frame, Version
  <2>3. Held(w)' /\ Noted(w)' /\ Valid(w)'
    BY <1>2 DEF Held, Using, Noted, Valid
  <2> QED BY <2>1, <2>2, <2>3 DEF JobSound
<1>6. lock' \in Workers \cup {NoWorker}
  BY <1>3 DEF Types
<1> QED BY <1>2, <1>3, <1>4, <1>5, <1>6, QuietStep DEF IInv, Turn

\* What a request at work knows, unpacked.
LEMMA AtWork ==
  ASSUME StatCacheAssumption, Types, IInv, NEW w \in Workers, Busy(w)
  PROVE  /\ job[w].name \in Names /\ job[w].name \in DOMAIN hash /\ Key(w) \in Keys
         /\ job[w].since \in Nat /\ job[w].st \in Nat /\ job[w].etag \in Nat
         /\ now \in Nat /\ MaxUse \in Nat
         /\ job[w].since <= now /\ now <= job[w].since + MaxUse
         /\ disk[job[w].name] \in Seq([born : Nat, here : BOOLEAN])
         /\ Version(job[w].name) \in Nat
BY SMTT(25) DEF Types, ConfigOK, StatCacheAssumption, IInv, JobSound, Timely, JobType, Version, Key

\* The parts of JobSound that a step which sets neither st nor etag keeps.
LEMMA StillSound ==
  ASSUME NEW w \in Workers, Frame, Same(w), Busy(w), JobSound(w),
         job'[w].st = job[w].st, job'[w].etag = job[w].etag, job'[w].pc # "fill"
  PROVE  Timely(w)' /\ Seen(w)' /\ Noted(w)' /\ Tagged(w)'
BY DEF Frame, Same, JobSound, Timely, Seen, Noted, Tagged, Safe, Injective, Version, Busy

LEMMA LookUpSound ==
  ASSUME StatCacheAssumption, Types, IInv, NEW w \in Workers, LookUp(w)
  PROVE  IInv'
<1>1. Frame /\ Busy(w) /\ job[w].pc = "lookup" /\ lock = NoWorker
  BY QuietFrame DEF LookUp, Quiet, At, Busy
<1>2. JobSound(w) /\ Whole /\ NoWorker \notin Workers /\ NoId \notin Ids
  BY DEF IInv, StatCacheAssumption
<1>3. CASE Hit(w) /\ Returns(w, files[Key(w)]) /\ UNCHANGED lock
  <2>1. files[Key(w)] \in Ids /\ entry[files[Key(w)]].name = job[w].name
    <3>1. Key(w) \in Keys
      BY <1>1, AtWork
    <3> QED BY <1>3, <3>1 DEF Hit, Types
  <2>2. /\ job' \in Jobs /\ Same(w)
        /\ job'[w].pc = IF job[w].again THEN "open" ELSE "etag"
        /\ job'[w].sce = IF job[w].again THEN NoId ELSE files[Key(w)]
        /\ job'[w].st = 0 /\ job'[w].etag = job[w].etag
    BY <1>3, <2>1, ReturnsEffect
  <2>3. LockOK' /\ lock' \in Workers \cup {NoWorker}
    BY <1>1, <1>2, <1>3, <2>2 DEF LockOK, Types, Same
  <2>4. Held(w)'
    <3>1. SUFFICES ASSUME Using(w)' PROVE Held(w)'
      BY DEF Held
    <3>2. job'[w].pc = "etag" /\ job'[w].sce = files[Key(w)]
      BY <2>2, <3>1 DEF Using
    <3>3. Key(w)' = Key(w)
      BY <1>1, <2>2 DEF Key, Frame, Same
    <3>4. engine # "fam" => entry[files[Key(w)]].ts = now
      BY <1>3 DEF Hit
    <3>5. job[w].since <= now
      BY <1>1, AtWork
    <3> QED BY <1>1, <2>1, <2>2, <3>2, <3>3, <3>4, <3>5 DEF Held, Safe, Frame, Same
  <2>5. Timely(w)' /\ Tagged(w)'
    BY <1>1, <1>2, <2>2 DEF Timely, Tagged, JobSound, Frame, Same, Safe, Injective, Version, Busy
  <2>6. Seen(w)' /\ Noted(w)' /\ Valid(w)'
    <3>1. job'[w].st = 0 /\ job'[w].pc \notin {"fill", "done"}
      BY <2>2
    <3>2. Len(disk'[job'[w].name]) \in Nat
      BY <1>1, <2>2, AtWork DEF Frame, Same
    <3> QED BY <3>1, <3>2 DEF Seen, Noted, Valid
  <2> QED BY <1>1, <1>2, <2>2, <2>3, <2>4, <2>5, <2>6, QuietStep DEF IInv, JobSound, Same
<1>4. CASE lock' = w /\ job' = [job EXCEPT ![w].pc = "stat"]
  <2>1. /\ job' \in Jobs /\ Same(w)
        /\ job'[w].pc = "stat" /\ job'[w].st = job[w].st
        /\ job'[w].etag = job[w].etag /\ job'[w].sce = job[w].sce
    BY <1>4, LookUpEffect
  <2>2. LockOK' /\ lock' \in Workers \cup {NoWorker}
    BY <1>1, <1>2, <1>4, <2>1 DEF LockOK, Types, Same
  <2>3. Timely(w)' /\ Seen(w)' /\ Noted(w)' /\ Tagged(w)'
    BY <1>1, <1>2, <2>1, StillSound
  <2>4. Held(w)' /\ Valid(w)'
    BY <2>1 DEF Held, Using, Valid
  <2> QED BY <1>1, <1>2, <2>1, <2>2, <2>3, <2>4, QuietStep DEF IInv, JobSound, Same
<1> QED BY <1>3, <1>4 DEF LookUp

\* stat() or open() failed.
LEMMA FailsSound ==
  ASSUME StatCacheAssumption, Types, IInv, NEW w \in Workers, job[w].pc \in {"stat", "fill"}, Fails(w)
  PROVE  IInv'
<1>1. Frame /\ Busy(w) /\ lock' = NoWorker /\ JobSound(w) /\ NoWorker \notin Workers
  BY QuietFrame DEF Fails, Quiet, Busy, IInv, StatCacheAssumption
<1>2. /\ job' \in Jobs /\ Same(w)
      /\ job'[w].pc = "done" /\ job'[w].status \in {403, 404}
      /\ job'[w].st = job[w].st /\ job'[w].etag = job[w].etag /\ job'[w].sce = job[w].sce
  BY FailsEffect
<1>3. LockOK' /\ lock' \in Workers \cup {NoWorker}
  BY <1>1, <1>2 DEF LockOK, Types, Same
<1>4. Timely(w)' /\ Seen(w)' /\ Noted(w)' /\ Tagged(w)'
  BY <1>1, <1>2, StillSound
<1>5. Held(w)' /\ Valid(w)'
  BY <1>2 DEF Held, Using, Valid
<1> QED BY <1>1, <1>2, <1>3, <1>4, <1>5, QuietStep DEF IInv, JobSound, Same

LEMMA StatSound ==
  ASSUME StatCacheAssumption, Types, IInv, NEW w \in Workers, Stat(w)
  PROVE  IInv'
<1>1. Busy(w) /\ job[w].pc = "stat" /\ JobSound(w)
  BY DEF Stat, At, Busy, IInv
<1>2. CASE Fails(w)
  BY <1>1, <1>2, FailsSound
<1>3. CASE /\ job' = [job EXCEPT ![w].pc = "fill", ![w].st = Version(job[w].name)]
           /\ UNCHANGED <<config, now, swept, disk, cache, lock, famvars>>
  <2>1. Frame /\ lock' = lock
    BY <1>3, QuietFrame DEF Quiet
  <2>2. /\ job' \in Jobs /\ Same(w)
        /\ job'[w].pc = "fill" /\ job'[w].st = Version(job[w].name)
        /\ job'[w].etag = job[w].etag /\ job'[w].sce = job[w].sce
    BY <1>3, StatEffect
  <2>3. LockOK' /\ lock' \in Workers \cup {NoWorker}
    BY <1>1, <2>1, <2>2 DEF LockOK, Types, Same
  <2>4. Version(job[w].name)' = Version(job[w].name) /\ Version(job[w].name) \in Nat
    BY <1>1, <2>1, <2>2, AtWork DEF Version, Frame, Same
  <2>5. Seen(w)' /\ Noted(w)'
    BY <2>1, <2>2, <2>4 DEF Seen, Noted, Version
  <2>6. Timely(w)' /\ Tagged(w)'
    BY <1>1, <2>1, <2>2 DEF Timely, Tagged, JobSound, Frame, Same, Safe, Injective, Version, Busy
  <2>7. Held(w)' /\ Valid(w)'
    BY <2>2 DEF Held, Using, Valid
  <2> QED BY <1>1, <2>1, <2>2, <2>3, <2>5, <2>6, <2>7, QuietStep DEF IInv, JobSound, Same
<1> QED BY <1>2, <1>3 DEF Stat

LEMMA InSeq ==
  ASSUME NEW R, NEW d \in Seq(R), NEW j \in 1 .. Len(d)
  PROVE  d[j] \in R
OBVIOUS

LEMMA Born ==
  ASSUME NEW d \in Seq([born : Nat, here : BOOLEAN]), NEW v \in Nat, v < Len(d)
  PROVE  d[v + 1].born \in Nat
<1>1. v + 1 \in 1 .. Len(d)
  OBVIOUS
<1>2. d[v + 1] \in [born : Nat, here : BOOLEAN]
  BY <1>1, InSeq
<1> QED BY <1>2

\* What was born late enough for one moment was so for an earlier one.
LEMMA StillLater ==
  ASSUME NEW d \in Seq([born : Nat, here : BOOLEAN]), NEW v \in Nat, v < Len(d),
         NEW t \in Nat, NEW s \in Nat, NEW m \in Nat, t >= s, d[v + 1].born >= t - m
  PROVE  d[v + 1].born >= s - m
BY Born

LEMMA EtagGetSound ==
  ASSUME StatCacheAssumption, Types, IInv, NEW w \in Workers, EtagGet(w)
  PROVE  IInv'
<1> DEFINE i == job[w].sce
<1>1. Frame /\ lock' = lock /\ Busy(w) /\ Using(w) /\ job[w].pc = "etag" /\ JobSound(w)
  BY QuietFrame DEF EtagGet, Quiet, At, Busy, Using, IInv
<1>2. i \in Ids /\ EntrySound(i)
  BY <1>1 DEF JobSound, Held, IInv
<1>3. /\ job' \in Jobs /\ Same(w)
      /\ job'[w].st = job[w].st /\ job'[w].sce = i
      /\ \/ entry[i].etag # 0 /\ job'[w].pc = "copy" /\ job'[w].etag = job[w].etag
         \/ entry[i].etag = 0 /\ job'[w].pc = "create" /\ job'[w].etag = entry[i].st
  BY <1>2, EtagGetEffect
<1>4. LockOK' /\ lock' \in Workers \cup {NoWorker}
  BY <1>1, <1>3 DEF LockOK, Types, Same
<1>5. Held(w)'
  BY <1>1, <1>2, <1>3 DEF JobSound, EntrySound, Etagged, Held, Safe, Injective, Key, Using, Frame, Same
<1>6. Timely(w)' /\ Seen(w)' /\ Noted(w)' /\ Valid(w)'
  <2>1. job'[w].pc \in {"copy", "create"}
    BY <1>3
  <2> QED BY <1>1, <1>3, <2>1 DEF JobSound, Timely, Seen, Noted, Valid, Frame, Same, Version, Busy
<1>7. Tagged(w)'
  <2>1. CASE job'[w].etag = job[w].etag
    BY <1>1, <1>3, <2>1 DEF JobSound, Tagged, Safe, Injective, Version, Frame, Same
  <2>2. CASE job'[w].etag = entry[i].st
    <3>1. Safe => entry[i].st <= Version(job[w].name)
      BY <1>1, <1>2 DEF JobSound, Held, EntrySound, Stated, Version
    <3> QED BY <1>1, <1>3, <2>2, <3>1 DEF Tagged, Safe, Injective, Version, Frame, Same
  <2> QED BY <1>3, <2>1, <2>2
<1> QED BY <1>1, <1>3, <1>4, <1>5, <1>6, <1>7, QuietStep DEF IInv, JobSound, Same

LEMMA EtagCopySound ==
  ASSUME StatCacheAssumption, Types, IInv, NEW w \in Workers, EtagCopy(w)
  PROVE  IInv'
<1> DEFINE i == job[w].sce
<1>1. Frame /\ lock' = lock /\ Busy(w) /\ Using(w) /\ job[w].pc = "copy" /\ JobSound(w)
  BY QuietFrame DEF EtagCopy, Quiet, At, Busy, Using, IInv
<1>2. i \in Ids /\ EntrySound(i)
  BY <1>1 DEF JobSound, Held, IInv
<1>3. /\ job' \in Jobs /\ Same(w)
      /\ job'[w].st = job[w].st /\ job'[w].etag = entry[i].etag
      /\ \/ job'[w].pc = "done" /\ job'[w].status = 304
         \/ job'[w].pc \in {"open", "lookup"}
  BY <1>2, EtagCopyEffect
<1>4. LockOK' /\ lock' \in Workers \cup {NoWorker}
  BY <1>1, <1>3 DEF LockOK, Types, Same
<1>5. Timely(w)' /\ Seen(w)' /\ Noted(w)' /\ Held(w)'
  BY <1>1, <1>3 DEF JobSound, Timely, Seen, Noted, Held, Using, Frame, Same, Version, Busy
<1>6. Tagged(w)'
  <2>1. Safe => entry[i].etag <= Version(job[w].name)
    BY <1>1, <1>2 DEF JobSound, Held, EntrySound, Etagged
  <2> QED BY <1>1, <1>3, <2>1 DEF Tagged, Safe, Injective, Version, Frame, Same
<1>7. Valid(w)'
  <2>1. SUFFICES ASSUME (engine # "fam")', (job[w].pc = "done")' PROVE Valid(w)'
    BY DEF Valid
  <2>2. job'[w].status = 304 /\ engine # "fam"
    BY <1>1, <1>3, <2>1 DEF Frame
  <2> DEFINE d == disk[job[w].name]
             v == entry[i].etag
  <2>3. ASSUME ~overlap, v < Len(d) PROVE d[v + 1].born >= job[w].since - MaxUse
    <3>1. /\ v = entry[i].st /\ entry[i].name = job[w].name /\ entry[i].ts >= job[w].since
      BY <1>1, <2>2, <2>3 DEF JobSound, Held
    <3>2. d[v + 1].born >= entry[i].ts - MaxUse
      BY <1>2, <2>3, <3>1 DEF EntrySound, Stated
    <3>3. entry[i].ts \in Nat /\ v \in Nat
      BY <1>2 DEF Types, EntryType
    <3>4. d \in Seq([born : Nat, here : BOOLEAN]) /\ job[w].since \in Nat /\ MaxUse \in Nat
      BY <1>1, AtWork
    <3> HIDE DEF d, v
    <3> QED BY <2>3, <3>1, <3>2, <3>3, <3>4, StillLater
  <2> QED BY <1>1, <1>3, <2>2, <2>3 DEF Valid, Frame, Same
<1> QED BY <1>1, <1>3, <1>4, <1>5, <1>6, <1>7, QuietStep DEF IInv, JobSound, Same

LEMMA OpenSound ==
  ASSUME StatCacheAssumption, Types, IInv, NEW w \in Workers, Open(w)
  PROVE  IInv'
<1>1. Frame /\ lock' = lock /\ Busy(w) /\ job[w].pc = "open" /\ JobSound(w)
  BY QuietFrame DEF Open, Quiet, At, Busy, IInv
<1>2. /\ job' \in Jobs /\ Same(w)
      /\ job'[w].pc = "done" /\ job'[w].status \in {200, 403}
      /\ job'[w].st = job[w].st /\ job'[w].etag = job[w].etag
      /\ job'[w].status = 200 => job'[w].body = Version(job[w].name)
  BY OpenEffect
<1>3. LockOK' /\ lock' \in Workers \cup {NoWorker}
  <2>1. /\ job'[w].pc \notin {"stat", "fill"} /\ job[w].pc \notin {"stat", "fill"}
        /\ \A v \in Workers : v # w => job'[v] = job[v]
    BY <1>1, <1>2 DEF Same
  <2> QED BY <1>1, <2>1 DEF LockOK, Types
<1>4. Timely(w)' /\ Seen(w)' /\ Noted(w)' /\ Tagged(w)'
  BY <1>1, <1>2, StillSound
<1>5. Held(w)' /\ Valid(w)'
  BY <1>1, <1>2 DEF JobSound, Held, Using, Valid, Tagged, Safe, Injective, Frame
<1> QED BY <1>1, <1>2, <1>3, <1>4, <1>5, QuietStep DEF IInv, JobSound, Same

LEMMA FinishSound ==
  ASSUME StatCacheAssumption, Types, IInv, NEW w \in Workers, Finish(w)
  PROVE  IInv'
<1>1. Frame /\ lock' = lock /\ Busy(w) /\ job[w].pc = "done"
  BY QuietFrame DEF Finish, Quiet, Busy
<1>2. /\ job' \in Jobs /\ job'[w] = NoJob
      /\ \A v \in Workers : v # w => job'[v] = job[v]
  BY FinishEffect
<1>3. /\ job'[w].pc = "idle" /\ job'[w].st = 0 /\ job'[w].etag = 0 /\ job'[w].name \in Names
      /\ Len(disk'[job'[w].name]) \in Nat
  <2>1. job'[w].pc = "idle" /\ job'[w].st = 0 /\ job'[w].etag = 0
    BY <1>2, Constants
  <2>2. job'[w].name \in Names
    BY <1>2, Constants DEF JobType
  <2> QED BY <1>1, <2>1, <2>2 DEF Frame, Types
<1>4. LockOK' /\ lock' \in Workers \cup {NoWorker}
  <2>1. /\ job'[w].pc \notin {"stat", "fill"} /\ job[w].pc \notin {"stat", "fill"}
        /\ \A v \in Workers : v # w => job'[v] = job[v]
    BY <1>1, <1>2, <1>3
  <2> QED BY <1>1, <2>1 DEF LockOK, Types
<1>5. JobSound(w)'
  BY <1>3 DEF JobSound, Timely, Held, Seen, Noted, Tagged, Valid, Busy, Using, Version
<1> QED BY <1>1, <1>2, <1>4, <1>5, QuietStep DEF IInv

-----------------------------------------------------------------------------
(* Steps that change entries *)

\* Nothing of an entry that others look at, but what is given.
Alike(i) ==
  /\ entry'[i].name = entry[i].name /\ entry'[i].st = entry[i].st /\ entry'[i].ts = entry[i].ts
  /\ entry'[i].dirver = entry[i].dirver /\ entry'[i].watched = entry[i].watched

LEMMA EtagCreateSound ==
  ASSUME StatCacheAssumption, Types, IInv, NEW w \in Workers, EtagCreate(w)
  PROVE  IInv'
<1> DEFINE i == job[w].sce
<1>1. /\ UNCHANGED <<engine, hash, follow, overlap, now, swept, disk, files, watch, events, open, lock>>
      /\ entry' = [entry EXCEPT ![i].etag = job[w].etag]
      /\ Busy(w) /\ Using(w) /\ job[w].pc = "create" /\ JobSound(w)
  BY DEF EtagCreate, At, Busy, Using, IInv, config, famvars
<1>2. i \in Ids /\ job[w].etag \in Nat
  BY <1>1, AtWork DEF JobSound, Held
<1>3. /\ job' \in Jobs /\ Same(w)
      /\ job'[w].pc = "copy" /\ job'[w].st = job[w].st
      /\ job'[w].etag = job[w].etag /\ job'[w].sce = i
  BY EtagCreateEffect
<1>4. /\ entry' \in [Ids -> EntryType]
      /\ entry'[i].etag = job[w].etag
      /\ \A j \in Ids : Alike(j) /\ entry'[j].live = entry[j].live /\ (j # i => entry'[j] = entry[j])
  <2>1. entry \in [Ids -> EntryType]
    BY DEF Types
  <2>2. entry' \in [Ids -> EntryType]
    BY <1>1, <1>2, <2>1 DEF EntryType
  <2>3. entry'[i].etag = job[w].etag
    BY <1>1, <1>2, <2>1 DEF EntryType
  <2>4. \A j \in Ids : Alike(j) /\ entry'[j].live = entry[j].live /\ (j # i => entry'[j] = entry[j])
    BY <1>1, <1>2, <2>1 DEF EntryType, Alike
  <2> QED BY <2>2, <2>3, <2>4
<1> HIDE DEF i
<1>5. LockOK'
  <2>1. /\ job'[w].pc \notin {"stat", "fill"} /\ job[w].pc \notin {"stat", "fill"}
        /\ \A v \in Workers : v # w => job'[v] = job[v]
    BY <1>1, <1>3 DEF Same
  <2> QED BY <1>1, <2>1 DEF LockOK, Types
<1>6. Types'
  BY <1>1, <1>3, <1>4, <1>5 DEF Types, Jobs, ConfigOK
<1>7. TypeOK'
  BY <1>6, TypesAre, PTL
<1>8. Alone'
  BY <1>1, <1>3, StaysAlone DEF IInv, Whole, Same
<1>9. Whole'
  <2>1. TreeOwns'
    BY <1>1, <1>4 DEF Types, IInv, Whole, TreeOwns
  <2>2. Keyed'
    BY <1>1, <1>4 DEF Types, IInv, Whole, Keyed, Alike
  <2> QED BY <1>1, <1>8, <2>1, <2>2 DEF IInv, Whole
<1>10. ASSUME NEW j \in Ids PROVE EntrySound(j)'
  <2>1. Stated(j)' /\ Watched(j)'
    BY <1>1, <1>4 DEF IInv, EntrySound, Stated, Watched, Version, Alike
  <2>2. Etagged(j)'
    <3>1. CASE j = i
      <4>1. ~overlap => job[w].etag = entry[i].st
        BY <1>1 DEF JobSound, Held, i
      <4>2. Safe => entry[i].name = job[w].name /\ job[w].etag <= Version(job[w].name)
        BY <1>1 DEF JobSound, Held, Tagged, i
      <4> QED BY <1>1, <1>2, <1>4, <3>1, <4>1, <4>2 DEF Etagged, Safe, Injective, Version, Alike
    <3>2. CASE j # i
      BY <1>1, <1>4, <3>2 DEF IInv, EntrySound, Etagged, Safe, Injective, Version
    <3> QED BY <3>1, <3>2
  <2> QED BY <2>1, <2>2 DEF EntrySound
<1>11. ASSUME NEW v \in Workers PROVE JobSound(v)'
  <2>1. JobSound(v)
    BY DEF IInv
  <2>2. CASE v = w
    <3>1. Timely(w)' /\ Seen(w)' /\ Noted(w)' /\ Tagged(w)' /\ Valid(w)'
      BY <1>1, <1>3 DEF JobSound, Timely, Seen, Noted, Tagged, Valid, Safe, Injective, Same, Version, Busy
    <3>2. Held(w)'
      BY <1>1, <1>2, <1>3, <1>4 DEF JobSound, Held, Safe, Injective, Same, Using, Key, Alike, i
    <3> QED BY <2>2, <3>1, <3>2 DEF JobSound
  <2>3. CASE v # w
    <3>1. job'[v] = job[v]
      BY <1>3, <2>3 DEF Same
    <3>2. Timely(v)' /\ Seen(v)' /\ Noted(v)' /\ Tagged(v)' /\ Valid(v)'
      BY <1>1, <2>1, <3>1 DEF JobSound, Timely, Seen, Noted, Tagged, Valid, Safe, Injective, Version, Busy
    <3>3. Held(v)'
      <4>1. ~overlap => ~Using(v)
        BY <1>1, <2>3 DEF IInv, Whole, Alone, Busy, Using
      <4> QED BY <1>1, <1>4, <2>1, <3>1, <4>1 DEF JobSound, Held, Safe, Injective, Using, Key, Alike
    <3> QED BY <3>2, <3>3 DEF JobSound
  <2> QED BY <2>2, <2>3
<1> QED BY <1>7, <1>9, <1>10, <1>11 DEF IInv

\* What is stored, and where: the entry of this name anew, or a free one in the place of the
\* entry that had the key.
LEMMA StoreEffect ==
  ASSUME StatCacheAssumption, Types, IInv, NEW w \in Workers, job[w].pc = "fill",
         NEW dv \in DirVersions, Store(w, dv)
  PROVE  \E i \in Ids :
    /\ entry' \in [Ids -> EntryType] /\ files' \in [Keys -> Ids \cup {NoId}]
    /\ entry'[i] = Filled(w, dv) /\ files'[Key(w)] = i /\ Returns(w, i)
    /\ \A k \in Keys : k # Key(w) => files'[k] = files[k]
    /\ \A j \in Ids : j # i => /\ Alike(j) /\ entry'[j].etag = entry[j].etag
                               /\ entry'[j].live = (entry[j].live /\ j # files[Key(w)])
    /\ \/ i = files[Key(w)] /\ entry[i].name = job[w].name
       \/ ~entry[i].live /\ (files[Key(w)] # NoId => entry[files[Key(w)]].name # job[w].name)
<1>1. Key(w) \in Keys /\ NoId \notin Ids /\ entry \in [Ids -> EntryType]
  BY AtWork DEF Busy, Types, StatCacheAssumption
<1>2. files \in [Keys -> Ids \cup {NoId}]
  BY DEF Types
<1>3. Filled(w, dv) \in EntryType
  <2>1. job[w].name \in Names /\ job[w].st \in Nat /\ now \in Nat
    BY AtWork DEF Busy
  <2>2. dv \in Nat
    BY DEF DirVersions, Registers, Types, ConfigOK
  <2>3. (engine = "fam" /\ watch # 0) \in BOOLEAN
    OBVIOUS
  <2> QED BY <2>1, <2>2, <2>3 DEF Filled, EntryType
<1> DEFINE f == Filled(w, dv)
<1>4. CASE Found(w) # NoId
  <2>1. files[Key(w)] \in Ids /\ entry[files[Key(w)]].name = job[w].name /\ Found(w) = files[Key(w)]
    BY <1>1, <1>2, <1>4 DEF Found
  <2>2. entry[files[Key(w)]].live
    BY <1>1, <2>1 DEF IInv, Whole, TreeOwns
  <2>3. entry' = [entry EXCEPT ![files[Key(w)]] = f] /\ files' = files /\ Returns(w, files[Key(w)])
    BY <1>4, <2>1 DEF Store
  <2> HIDE DEF f
  <2>4. entry' \in [Ids -> EntryType] /\ entry'[files[Key(w)]] = f
    BY <1>1, <1>3, <2>1, <2>3 DEF f
  <2>5. \A j \in Ids : j # files[Key(w)] => Alike(j) /\ entry'[j].etag = entry[j].etag
                         /\ entry'[j].live = (entry[j].live /\ j # files[Key(w)])
    BY <1>1, <2>1, <2>3 DEF Alike, EntryType
  <2> QED BY <1>2, <2>1, <2>3, <2>4, <2>5 DEF f
<1>5. CASE Found(w) = NoId
  <2>1. files[Key(w)] # NoId => entry[files[Key(w)]].name # job[w].name
    BY <1>5 DEF Found
  <2>2. PICK i \in Ids :
          /\ ~entry[i].live
          /\ entry' = [j \in Ids |-> CASE j = i -> f
                                       [] j # i /\ j = files[Key(w)] -> [entry[j] EXCEPT !.live = FALSE]
                                       [] j # i /\ j # files[Key(w)] -> entry[j]]
          /\ files' = [files EXCEPT ![Key(w)] = i]
          /\ Returns(w, i)
    BY <1>5 DEF Store
  <2> HIDE DEF f
  <2>3. \A j \in Ids : entry'[j] = IF j = i THEN f ELSE IF j = files[Key(w)] THEN [entry[j] EXCEPT !.live = FALSE]
                                   ELSE entry[j]
    BY <2>2
  <2>4. \A j \in Ids : /\ [entry[j] EXCEPT !.live = FALSE] \in EntryType /\ entry[j] \in EntryType
                       /\ [entry[j] EXCEPT !.live = FALSE].live = FALSE
    BY <1>1 DEF EntryType
  <2>5. entry' \in [Ids -> EntryType]
    BY <1>3, <2>2, <2>3, <2>4 DEF f
  <2>6. \A j \in Ids : j # i => Alike(j) /\ entry'[j].etag = entry[j].etag
    BY <1>1, <2>3, ZenonT(40) DEF Alike, EntryType
  <2>7. ASSUME NEW j \in Ids, j # i PROVE entry'[j].live = (entry[j].live /\ j # files[Key(w)])
    <3>1. CASE j = files[Key(w)]
      BY <2>3, <2>4, <2>7, <3>1
    <3>2. CASE j # files[Key(w)]
      <4>1. entry[j].live \in BOOLEAN
        BY <1>1 DEF EntryType
      <4>2. entry'[j] = entry[j]
        BY <2>3, <2>7, <3>2
      <4> QED BY <3>2, <4>1, <4>2, Zenon
    <3> QED BY <3>1, <3>2
  <2>8. files' \in [Keys -> Ids \cup {NoId}] /\ files'[Key(w)] = i
        /\ \A k \in Keys : k # Key(w) => files'[k] = files[k]
    BY <1>1, <1>2, <2>2
  <2> QED BY <2>1, <2>2, <2>3, <2>5, <2>6, <2>7, <2>8 DEF f
<1> QED BY <1>4, <1>5

LEMMA FillSound ==
  ASSUME StatCacheAssumption, Types, IInv, NEW w \in Workers, Fill(w)
  PROVE  IInv'
<1>1. Busy(w) /\ job[w].pc = "fill" /\ JobSound(w)
  BY DEF Fill, At, Busy, IInv
<1>2. CASE Fails(w)
  BY <1>1, <1>2, FailsSound
<1>3. ASSUME NEW dv \in DirVersions, Store(w, dv), watch' = IF Registers THEN 1 ELSE watch,
             lock' = NoWorker, UNCHANGED <<config, now, swept, disk, events, open>>
      PROVE  IInv'
  <2>1. /\ UNCHANGED <<engine, hash, follow, overlap, now, swept, disk, events, open>>
        /\ lock = w /\ lock' = NoWorker /\ NoWorker \notin Workers /\ NoId \notin Ids
        /\ Key(w) \in Keys /\ job[w].name \in DOMAIN hash /\ job[w].since <= now
        /\ job[w].since \in Nat /\ now \in Nat /\ MaxUse \in Nat /\ job[w].st \in Nat
    BY <1>1, <1>3, AtWork DEF config, Types, LockOK, StatCacheAssumption
  <2>2. PICK i \in Ids :
    /\ entry' \in [Ids -> EntryType] /\ files' \in [Keys -> Ids \cup {NoId}]
    /\ entry'[i] = Filled(w, dv) /\ files'[Key(w)] = i /\ Returns(w, i)
    /\ \A k \in Keys : k # Key(w) => files'[k] = files[k]
    /\ \A j \in Ids : j # i => /\ Alike(j) /\ entry'[j].etag = entry[j].etag
                               /\ entry'[j].live = (entry[j].live /\ j # files[Key(w)])
    /\ \/ i = files[Key(w)] /\ entry[i].name = job[w].name
       \/ ~entry[i].live /\ (files[Key(w)] # NoId => entry[files[Key(w)]].name # job[w].name)
    BY <1>1, <1>3, StoreEffect
  <2>3. /\ entry'[i].live /\ entry'[i].name = job[w].name /\ entry'[i].st = job[w].st
        /\ entry'[i].ts = now /\ entry'[i].etag = 0 /\ entry'[i].dirver = dv
        /\ entry'[i].watched = (engine = "fam" /\ watch # 0)
    BY <2>2 DEF Filled
  <2>4. /\ job' \in Jobs /\ Same(w)
        /\ job'[w].pc = IF job[w].again THEN "open" ELSE "etag"
        /\ job'[w].sce = IF job[w].again THEN NoId ELSE i
        /\ job'[w].st = 0 /\ job'[w].etag = job[w].etag
    BY <2>2, ReturnsEffect
  <2>5. watch' \in Nat /\ (watch # 0 => watch' = watch)
    BY <1>3 DEF Registers, Types
  <2>6. LockOK'
    <3>1. \A v \in Workers : job'[v].pc \notin {"stat", "fill"}
      BY <2>1, <2>4 DEF LockOK, Types, Same
    <3> QED BY <2>1, <3>1 DEF LockOK
  <2>7. Types'
    BY <2>1, <2>2, <2>4, <2>5, <2>6 DEF Types, Jobs, ConfigOK
  <2>8. TypeOK'
    BY <2>7, TypesAre, PTL
  <2>9. Alone'
    BY <1>1, <2>1, <2>4, StaysAlone DEF IInv, Whole, Same
  <2>10. Whole'
    <3>1. \A k \in Keys : k # Key(w) /\ files[k] # NoId => files[k] # i /\ files[k] # files[Key(w)]
      BY <2>1, <2>2 DEF IInv, Whole, TreeOwns, Types
    <3>2. TreeOwns'
      <4>1. ASSUME NEW k \in Keys, files'[k] # NoId PROVE entry'[files'[k]].live
        <5>1. CASE k = Key(w)
          BY <2>2, <2>3, <5>1
        <5>2. CASE k # Key(w)
          <6>1. files'[k] = files[k] /\ files[k] \in Ids /\ entry[files[k]].live
            BY <2>2, <4>1, <5>2 DEF IInv, Whole, TreeOwns, Types
          <6> QED BY <2>2, <3>1, <4>1, <5>2, <6>1
        <5> QED BY <5>1, <5>2
      <4>2. \A k, l \in Keys : files'[k] = files'[l] /\ files'[k] # NoId => k = l
        BY <2>1, <2>2, <3>1 DEF IInv, Whole, TreeOwns
      <4>3. ASSUME NEW j \in Ids, entry'[j].live PROVE \E k \in Keys : files'[k] = j
        <5>1. CASE j = i
          BY <2>1, <2>2, <5>1
        <5>2. CASE j # i
          <6>1. entry[j].live /\ j # files[Key(w)]
            BY <2>2, <4>3, <5>2
          <6>2. PICK k \in Keys : files[k] = j
            BY <6>1 DEF IInv, Whole, TreeOwns
          <6> QED BY <2>2, <6>1, <6>2
        <5> QED BY <5>1, <5>2
      <4> QED BY <4>1, <4>2, <4>3 DEF TreeOwns
    <3>3. Keyed'
      <4>1. hash[job[w].name] = Key(w)
        BY DEF Key
      <4>2. ASSUME NEW k \in Keys, files'[k] # NoId
            PROVE  entry'[files'[k]].name \in DOMAIN hash /\ hash[entry'[files'[k]].name] = k
        <5>1. CASE k = Key(w)
          BY <2>1, <2>2, <2>3, <4>1, <5>1
        <5>2. CASE k # Key(w)
          BY <2>2, <3>1, <4>2, <5>2 DEF IInv, Whole, Keyed, Types, Alike
        <5> QED BY <5>1, <5>2
      <4> QED BY <2>1, <4>2 DEF Keyed
    <3> QED BY <2>1, <2>9, <3>2, <3>3 DEF IInv, Whole
  <2>11. ASSUME NEW j \in Ids PROVE EntrySound(j)'
    <3>1. CASE j # i
      <4>1. EntrySound(j)
        BY DEF IInv
      <4>2. Stated(j)' /\ Etagged(j)'
        BY <2>1, <2>2, <3>1, <4>1 DEF EntrySound, Stated, Etagged, Safe, Injective, Version, Alike
      <4>3. Watched(j)'
        BY <2>1, <2>2, <2>5, <3>1, <4>1 DEF EntrySound, Watched, Version, Alike
      <4> QED BY <4>2, <4>3 DEF EntrySound
    <3>2. CASE j = i
      <4> DEFINE d == disk[job[w].name]
      <4>1. d \in Seq([born : Nat, here : BOOLEAN]) /\ Len(d) \in Nat
        BY <1>1, AtWork
      <4>2. /\ job[w].st <= Len(d)
            /\ job[w].st < Len(d) => d[job[w].st + 1].born >= job[w].since
        BY <1>1 DEF JobSound, Seen
      <4>3. now <= job[w].since + MaxUse
        BY <1>1, AtWork
      <4> HIDE DEF d
      <4>4. job[w].st < Len(d) => d[job[w].st + 1].born >= now - MaxUse
        <5>1. ASSUME job[w].st < Len(d) PROVE d[job[w].st + 1].born >= now - MaxUse
          <6>1. d[job[w].st + 1].born \in Nat
            BY <2>1, <4>1, <5>1, Born
          <6>2. d[job[w].st + 1].born >= job[w].since
            BY <4>2, <5>1
          <6>3. \A b, c, n, m \in Nat : b >= c /\ n <= c + m => b >= n - m
            OBVIOUS
          <6> QED BY <2>1, <4>3, <6>1, <6>2, <6>3
        <5> QED BY <5>1
      <4>5. Stated(i)'
        BY <2>1, <2>3, <4>2, <4>4 DEF Stated, d
      <4>6. Etagged(i)'
        <5>1. Len(disk'[entry'[i].name]) >= 0
          BY <2>1, <2>3, <4>1 DEF d
        <5> QED BY <2>3, <5>1 DEF Etagged, Version
      <4>7. Watched(i)'
        <5>1. ASSUME engine = "fam", watch # 0 PROVE dv = watch
          BY <5>1 DEF DirVersions, Registers
        <5>2. ASSUME engine = "fam", watch # 0, open, job[w].st # Version(job[w].name) PROVE events > 0
          BY <1>1, <5>2 DEF JobSound, Noted
        <5>3. watch \in Nat
          BY DEF Types
        <5>4. SUFFICES ASSUME entry'[i].watched PROVE Watched(i)'
          BY DEF Watched
        <5>5. engine = "fam" /\ watch # 0
          BY <2>3, <5>4
        <5>6. watch' = watch /\ entry'[i].dirver = watch
          BY <2>3, <2>5, <5>1, <5>5
        <5> QED BY <2>1, <2>3, <5>2, <5>3, <5>5, <5>6 DEF Watched, Version
      <4> QED BY <3>2, <4>5, <4>6, <4>7 DEF EntrySound
    <3> QED BY <3>1, <3>2
  <2>12. ASSUME NEW v \in Workers PROVE JobSound(v)'
    <3>1. JobSound(v)
      BY DEF IInv
    <3>2. CASE v = w
      <4>1. Timely(w)' /\ Tagged(w)'
        BY <1>1, <2>1, <2>4 DEF JobSound, Timely, Tagged, Safe, Injective, Same, Version, Busy
      <4>2. Seen(w)' /\ Noted(w)' /\ Valid(w)'
        <5>1. Len(disk'[job'[w].name]) \in Nat
          BY <1>1, <2>1, <2>4, AtWork DEF Same
        <5>2. job'[w].st = 0 /\ job'[w].pc \notin {"fill", "done"}
          BY <2>4
        <5> QED BY <5>1, <5>2 DEF Seen, Noted, Valid
      <4>3. Held(w)'
        <5>1. SUFFICES ASSUME Using(w)' PROVE Held(w)'
          BY DEF Held
        <5>2. job'[w].pc = "etag" /\ job'[w].sce = i
          BY <2>4, <5>1 DEF Using
        <5>3. Key(w)' = Key(w)
          BY <2>1, <2>4 DEF Key, Same
        <5> QED BY <2>1, <2>2, <2>3, <2>4, <5>2, <5>3 DEF Held, Safe, Same
      <4> QED BY <3>2, <4>1, <4>2, <4>3 DEF JobSound
    <3>3. CASE v # w
      <4>1. job'[v] = job[v] /\ job[v].pc # "fill"
        BY <2>1, <2>4, <3>3 DEF Same, Types, LockOK
      <4>2. Timely(v)' /\ Seen(v)' /\ Noted(v)' /\ Tagged(v)' /\ Valid(v)'
        BY <2>1, <3>1, <4>1 DEF JobSound, Timely, Seen, Noted, Tagged, Valid, Safe, Injective, Version, Busy
      <4>3. Held(v)'
        <5>1. SUFFICES ASSUME Using(v) PROVE Held(v)'
          BY <4>1 DEF Held, Using
        <5>2. overlap
          BY <1>1, <3>3, <5>1 DEF IInv, Whole, Alone, Busy, Using
        <5> DEFINE e == job[v].sce
        <5>3. e \in Ids
          BY <3>1, <5>1 DEF JobSound, Held
        <5>4. ASSUME Safe
              PROVE  files'[Key(v)] = e /\ entry'[e].name = job[v].name /\ entry'[e].ts >= job[v].since
          <6>1. files[Key(v)] = e /\ entry[e].name = job[v].name /\ entry[e].ts >= job[v].since
            BY <3>1, <5>1, <5>4 DEF JobSound, Held
          <6>2. /\ Key(v) \in Keys /\ job[v].name \in DOMAIN hash /\ job[v].since <= now
                /\ Injective /\ entry[e].live
            <7>1. Busy(v)
              BY <5>1 DEF Using, Busy
            <7>2. Key(v) \in Keys /\ job[v].name \in DOMAIN hash /\ job[v].since <= now
              BY <7>1, AtWork
            <7> QED BY <2>1, <5>3, <5>4, <6>1, <7>2 DEF Safe, IInv, Whole, TreeOwns
          <6>3. CASE Key(v) = Key(w)
            <7>1. job[v].name = job[w].name
              BY <2>1, <6>2, <6>3 DEF Injective, Key
            <7>2. i = e
              BY <2>1, <2>2, <5>3, <6>1, <6>3, <7>1
            <7> QED BY <2>2, <2>3, <6>2, <6>3, <7>1, <7>2
          <6>4. CASE Key(v) # Key(w)
            <7>1. e # i
              BY <2>1, <2>2, <5>3, <6>1, <6>2, <6>4 DEF IInv, Whole, TreeOwns
            <7> QED BY <2>2, <5>3, <6>1, <6>2, <6>4, <7>1 DEF Alike
          <6> QED BY <6>3, <6>4
        <5> HIDE DEF e
        <5>5. Safe' = Safe /\ Key(v)' = Key(v)
          BY <2>1, <4>1 DEF Safe, Injective, Key
        <5> QED BY <2>1, <4>1, <5>2, <5>3, <5>4, <5>5 DEF Held, e
      <4> QED BY <4>2, <4>3 DEF JobSound
    <3> QED BY <3>2, <3>3
  <2> QED BY <2>8, <2>10, <2>11, <2>12 DEF IInv
<1> QED BY <1>2, <1>3 DEF Fill

-----------------------------------------------------------------------------
(* The main thread and the file system *)

LEMMA TickSound ==
  ASSUME StatCacheAssumption, Types, IInv, Tick
  PROVE  IInv'
<1>1. /\ UNCHANGED <<engine, hash, follow, overlap, disk, files, entry, lock, watch, events, open, job>>
      /\ now' = now + 1 /\ swept' = FALSE /\ now \in Nat /\ MaxUse \in Nat
      /\ \A w \in Workers : Busy(w) => now < job[w].since + MaxUse
  BY DEF Tick, config, cache, famvars, Types, StatCacheAssumption
<1>2. TypeOK'
  <2>1. Types'
    <3>1. LockOK' /\ ConfigOK'
      BY <1>1 DEF Types, LockOK, ConfigOK
    <3>2. now' \in Nat
      BY <1>1
    <3>3. swept' \in BOOLEAN
      BY <1>1, Zenon
    <3> QED BY <1>1, <3>1, <3>2, <3>3 DEF Types
  <2> QED BY <2>1, TypesAre, PTL
<1>3. Whole'
  BY <1>1 DEF IInv, Whole, TreeOwns, Keyed, Alone, Busy
<1>4. ASSUME NEW i \in Ids PROVE EntrySound(i)'
  <2>1. entry[i].ts \in Nat
    BY DEF Types, EntryType
  <2>2. EntrySound(i)
    BY DEF IInv
  <2>3. Stated(i)'
    BY <1>1, <2>1, <2>2 DEF EntrySound, Stated
  <2>4. Watched(i)' /\ Etagged(i)'
    BY <1>1, <2>2 DEF EntrySound, Watched, Etagged, Safe, Injective, Version
  <2> QED BY <2>3, <2>4 DEF EntrySound
<1>5. ASSUME NEW w \in Workers PROVE JobSound(w)'
  <2>1. JobSound(w)
    BY DEF IInv
  <2>2. Timely(w)'
    <3>1. SUFFICES ASSUME Busy(w) PROVE Timely(w)'
      BY <1>1 DEF Timely, Busy
    <3>2. job[w].since \in Nat /\ job[w].since <= now /\ job[w].name \in DOMAIN hash
      BY <3>1, AtWork
    <3> QED BY <1>1, <3>1, <3>2 DEF Timely
  <2> QED BY <1>1, <2>1, <2>2 DEF JobSound, Held, Seen, Noted, Tagged, Valid, Safe, Injective,
                                  Using, Key, Version
<1> QED BY <1>2, <1>3, <1>4, <1>5 DEF IInv

LEMMA CleanupSound ==
  ASSUME StatCacheAssumption, Types, IInv, Cleanup
  PROVE  IInv'
<1>1. /\ UNCHANGED <<engine, hash, follow, overlap, now, disk, lock, watch, events, open, job>>
      /\ swept' = TRUE /\ NoId \notin Ids
      /\ files' = [k \in Keys |-> IF Old(k) THEN NoId ELSE files[k]]
      /\ entry' = [i \in Ids |-> IF \E k \in Keys : Old(k) /\ files[k] = i
                                 THEN [entry[i] EXCEPT !.live = FALSE] ELSE entry[i]]
  BY DEF Cleanup, config, famvars, StatCacheAssumption
<1> DEFINE Gone(i) == \E k \in Keys : Old(k) /\ files[k] = i
<1>2. \A i \in Ids : entry[i] \in EntryType
  BY DEF Types
<1>3. \A i \in Ids : /\ Gone(i) => entry'[i] = [entry[i] EXCEPT !.live = FALSE]
                     /\ ~Gone(i) => entry'[i] = entry[i]
  BY <1>1
<1>4. \A i \in Ids : [entry[i] EXCEPT !.live = FALSE] \in EntryType
  BY <1>2 DEF EntryType
<1>5. entry' \in [Ids -> EntryType]
  BY <1>1, <1>2, <1>4
<1>6. \A i \in Ids : Alike(i) /\ entry'[i].etag = entry[i].etag
  BY <1>2, <1>3 DEF Alike, EntryType
<1>7. \A i \in Ids : /\ Gone(i) => ~entry'[i].live
                     /\ ~Gone(i) => entry'[i].live = entry[i].live
  BY <1>2, <1>3, ZenonT(40) DEF EntryType
<1>8. \A k \in Keys : files'[k] = IF Old(k) THEN NoId ELSE files[k]
  BY <1>1
<1> HIDE DEF Gone
<1>9. Types'
  <2>1. files' \in [Keys -> Ids \cup {NoId}]
    BY <1>1 DEF Types
  <2> QED BY <1>1, <1>5, <2>1 DEF Types, LockOK, ConfigOK
<1>10. TypeOK'
  BY <1>9, TypesAre, PTL
<1>11. Whole'
  <2>1. ASSUME NEW k \in Keys, files'[k] # NoId
        PROVE  ~Old(k) /\ files'[k] = files[k] /\ files[k] \in Ids /\ ~Gone(files[k]) /\ entry[files[k]].live
    <3>1. ~Old(k) /\ files'[k] = files[k] /\ files[k] \in Ids
      BY <1>8, <2>1 DEF Types
    <3>2. entry[files[k]].live /\ \A l \in Keys : files[l] = files[k] => l = k
      BY <1>1, <3>1 DEF IInv, Whole, TreeOwns
    <3> QED BY <3>1, <3>2 DEF Gone
  <2>2. \A k \in Keys : files'[k] # NoId => entry'[files'[k]].live
    BY <1>7, <2>1
  <2>3. \A k, l \in Keys : files'[k] = files'[l] /\ files'[k] # NoId => k = l
    BY <2>1 DEF IInv, Whole, TreeOwns
  <2>4. ASSUME NEW i \in Ids, entry'[i].live PROVE \E k \in Keys : files'[k] = i
    <3>1. ~Gone(i) /\ entry[i].live
      BY <1>7, <2>4
    <3>2. PICK k \in Keys : files[k] = i
      BY <3>1 DEF IInv, Whole, TreeOwns
    <3>3. ~Old(k)
      BY <3>1, <3>2 DEF Gone
    <3> QED BY <1>8, <3>2, <3>3
  <2>5. Keyed'
    BY <1>1, <1>6, <2>1 DEF IInv, Whole, Keyed, Alike
  <2> QED BY <1>1, <2>2, <2>3, <2>4, <2>5 DEF IInv, Whole, TreeOwns, Alone, Busy
<1>12. ASSUME NEW i \in Ids PROVE EntrySound(i)'
  <2>1. EntrySound(i)
    BY DEF IInv
  <2> QED BY <1>1, <1>6, <2>1 DEF EntrySound, Stated, Watched, Etagged, Safe, Injective, Version, Alike
<1>13. ASSUME NEW w \in Workers PROVE JobSound(w)'
  <2>1. JobSound(w)
    BY DEF IInv
  <2>2. Timely(w)' /\ Seen(w)' /\ Noted(w)' /\ Tagged(w)' /\ Valid(w)'
    BY <1>1, <2>1 DEF JobSound, Timely, Seen, Noted, Tagged, Valid, Safe, Injective, Version, Busy
  <2>3. Held(w)'
    <3>1. SUFFICES ASSUME Using(w) PROVE Held(w)'
      BY <1>1 DEF Held, Using
    <3> DEFINE e == job[w].sce
    <3>2. e \in Ids
      BY <2>1, <3>1 DEF JobSound, Held
    <3>3. ASSUME Safe PROVE files'[Key(w)] = e
      <4>1. files[Key(w)] = e /\ entry[e].ts >= job[w].since /\ MaxUse <= 2
        BY <2>1, <3>1, <3>3 DEF JobSound, Held, Safe
      <4>2. /\ Key(w) \in Keys /\ now <= job[w].since + MaxUse /\ job[w].since \in Nat /\ now \in Nat
            /\ MaxUse \in Nat
        BY <3>1, AtWork DEF Using, Busy
      <4>3. entry[e].ts \in Nat
        BY <1>2, <3>2 DEF EntryType
      <4>4. ~Old(Key(w))
        <5> HIDE DEF e
        <5>1. ~(now - entry[e].ts > 2)
          BY <4>1, <4>2, <4>3
        <5> QED BY <4>1, <5>1 DEF Old
      <4> QED BY <1>8, <4>1, <4>2, <4>4
    <3>4. Key(w)' = Key(w) /\ Safe' = Safe
      BY <1>1 DEF Key, Safe, Injective
    <3> HIDE DEF e
    <3> QED BY <1>1, <1>6, <2>1, <3>1, <3>2, <3>3, <3>4 DEF JobSound, Held, Alike, Using, e
  <2> QED BY <2>2, <2>3 DEF JobSound
<1> QED BY <1>10, <1>11, <1>12, <1>13 DEF IInv

LEMMA FamSound ==
  ASSUME StatCacheAssumption, Types, IInv, FamEvent \/ FamHup
  PROVE  IInv'
<1>1. /\ UNCHANGED <<engine, hash, follow, overlap, now, swept, disk, files, entry, lock, job>>
      /\ lock = NoWorker /\ NoWorker \notin Workers /\ watch \in Nat /\ events \in Nat /\ open
      /\ \/ watch' = watch + 1 /\ open' = open /\ events > 0 /\ events' = events - 1
         \/ watch' = watch /\ open' = FALSE /\ events' = 0
  BY DEF FamEvent, FamHup, config, cache, famvars, Types, StatCacheAssumption
<1>2. watch' \in Nat /\ events' \in Nat /\ open' \in BOOLEAN
  <2>1. watch' \in Nat /\ events' \in Nat
    <3>1. watch' \in {watch, watch + 1} /\ (events' = 0 \/ (events > 0 /\ events' = events - 1))
      BY <1>1, Zenon
    <3> QED BY <1>1, <3>1
  <2>2. open \in BOOLEAN /\ FALSE \in BOOLEAN
    BY DEF Types
  <2>3. open' \in BOOLEAN
    BY <1>1, <2>2, Zenon
  <2> QED BY <2>1, <2>3
<1>3. TypeOK'
  <2>1. LockOK' /\ ConfigOK'
    BY <1>1 DEF Types, LockOK, ConfigOK
  <2>2. Types'
    BY <1>1, <1>2, <2>1 DEF Types
  <2> QED BY <2>2, TypesAre, PTL
<1>4. Whole'
  BY <1>1 DEF IInv, Whole, TreeOwns, Keyed, Alone, Busy
<1>5. ASSUME NEW i \in Ids PROVE EntrySound(i)'
  <2>1. EntrySound(i) /\ entry[i].dirver \in Nat
    BY DEF IInv, Types, EntryType
  <2>2. Stated(i)' /\ Etagged(i)'
    BY <1>1, <2>1 DEF EntrySound, Stated, Etagged, Safe, Injective, Version
  <2>3. Watched(i)'
    <3>1. CASE watch' = watch + 1
      BY <1>1, <2>1, <3>1 DEF EntrySound, Watched, Version
    <3>2. CASE watch' = watch /\ ~open'
      BY <1>1, <2>1, <3>2 DEF EntrySound, Watched, Version
    <3> QED BY <1>1, <3>1, <3>2
  <2> QED BY <2>2, <2>3 DEF EntrySound
<1>6. ASSUME NEW w \in Workers PROVE JobSound(w)'
  <2>1. JobSound(w) /\ job[w].pc # "fill"
    BY <1>1 DEF IInv, Types, LockOK
  <2> QED BY <1>1, <2>1 DEF JobSound, Timely, Held, Seen, Noted, Tagged, Valid, Safe, Injective,
                            Using, Busy, Key, Version
<1> QED BY <1>3, <1>4, <1>5, <1>6 DEF IInv

\* A file has one version more, born now; its earlier ones stay.
LEMMA ChangeEffect ==
  ASSUME Types, NEW n \in Names, NEW here \in BOOLEAN, Change(n, here)
  PROVE  /\ disk' \in [Names -> Seq([born : Nat, here : BOOLEAN])]
         /\ \A m \in Names : /\ Len(disk[m]) \in Nat /\ Len(disk'[m]) >= Len(disk[m])
                             /\ Len(disk'[m]) \in Nat
                             /\ \A v \in 1 .. Len(disk[m]) : disk'[m][v] = disk[m][v]
                             /\ \A v \in Nat : v > Len(disk[m]) /\ v <= Len(disk'[m]) => disk'[m][v].born = now
                             /\ m # n => disk'[m] = disk[m]
<1> DEFINE R == [born : Nat, here : BOOLEAN]
           r == [born |-> now, here |-> here]
<1>1. r \in R
  BY DEF Types
<1>2. disk \in [Names -> Seq(R)] /\ disk' = [disk EXCEPT ![n] = Append(disk[n], r)] /\ r.born = now
  BY DEF Types, Change
<1> HIDE DEF R, r
<1>3. /\ Append(disk[n], r) \in Seq(R) /\ Len(Append(disk[n], r)) = Len(disk[n]) + 1 /\ Len(disk[n]) \in Nat
      /\ \A v \in 1 .. Len(disk[n]) : Append(disk[n], r)[v] = disk[n][v]
      /\ Append(disk[n], r)[Len(disk[n]) + 1] = r
  BY <1>1, <1>2
<1>4. disk' \in [Names -> Seq(R)] /\ disk'[n] = Append(disk[n], r) /\ \A m \in Names : m # n => disk'[m] = disk[m]
  BY <1>2, <1>3
<1>5. \A v \in Nat : v > Len(disk[n]) /\ v <= Len(disk'[n]) => v = Len(disk[n]) + 1
  BY <1>3, <1>4
<1>6. ASSUME NEW m \in Names
      PROVE  /\ Len(disk[m]) \in Nat /\ Len(disk'[m]) >= Len(disk[m]) /\ Len(disk'[m]) \in Nat
             /\ \A v \in 1 .. Len(disk[m]) : disk'[m][v] = disk[m][v]
             /\ \A v \in Nat : v > Len(disk[m]) /\ v <= Len(disk'[m]) => disk'[m][v].born = now
             /\ m # n => disk'[m] = disk[m]
  <2>1. CASE m = n
    BY <1>2, <1>3, <1>4, <1>5, <2>1
  <2>2. CASE m # n
    <3>1. disk'[m] = disk[m] /\ Len(disk[m]) \in Nat
      BY <1>2, <1>4, <2>2
    <3> QED BY <3>1, <2>2
  <2> QED BY <2>1, <2>2
<1> QED BY <1>4, <1>6 DEF R

\* So what was said of a version and its successor still holds.
LEMMA Successor ==
  ASSUME Types, NEW n \in Names, NEW here \in BOOLEAN, Change(n, here),
         NEW m \in Names, NEW v \in Nat, NEW t \in Int, t <= now,
         v < Len(disk[m]) => disk[m][v + 1].born >= t, v < Len(disk'[m])
  PROVE  disk'[m][v + 1].born >= t
<1>1. now \in Nat
  BY DEF Types
<1>2. CASE v < Len(disk[m])
  <2>1. v + 1 \in 1 .. Len(disk[m])
    BY <1>2, ChangeEffect
  <2> QED BY <1>2, <2>1, ChangeEffect
<1>3. CASE ~(v < Len(disk[m]))
  <2>1. v + 1 \in Nat /\ v + 1 > Len(disk[m]) /\ v + 1 <= Len(disk'[m])
    BY <1>3, ChangeEffect
  <2> QED BY <1>1, <2>1, ChangeEffect
<1> QED BY <1>2, <1>3

LEMMA ChangeSound ==
  ASSUME StatCacheAssumption, Types, IInv, NEW n \in DOMAIN hash, NEW here \in BOOLEAN, Change(n, here)
  PROVE  IInv'
<1>1. /\ UNCHANGED <<engine, hash, follow, overlap, now, swept, files, entry, lock, watch, open, job>>
      /\ events' = (IF open /\ watch # 0 THEN events + 1 ELSE events) /\ events \in Nat
      /\ n \in Names /\ now \in Nat /\ MaxUse \in Nat
  BY DEF Change, config, cache, Types, ConfigOK, StatCacheAssumption
<1>2. /\ disk' \in [Names -> Seq([born : Nat, here : BOOLEAN])]
      /\ \A m \in Names : /\ Len(disk[m]) \in Nat /\ Len(disk'[m]) \in Nat /\ Len(disk'[m]) >= Len(disk[m])
                          /\ m # n => disk'[m] = disk[m]
  BY <1>1, ChangeEffect
<1>3. events' \in Nat /\ events' >= events /\ (open /\ watch # 0 => events' > 0)
  BY <1>1
<1>4. TypeOK'
  <2>1. LockOK' /\ ConfigOK'
    BY <1>1 DEF Types, LockOK, ConfigOK
  <2>2. Types'
    BY <1>1, <1>2, <1>3, <2>1 DEF Types
  <2> QED BY <2>2, TypesAre, PTL
<1>5. Whole'
  BY <1>1 DEF IInv, Whole, TreeOwns, Keyed, Alone, Busy
<1>6. \A m \in Names, v \in Nat, t \in Int :
        t <= now /\ (v < Len(disk[m]) => disk[m][v + 1].born >= t) /\ v < Len(disk'[m])
        => disk'[m][v + 1].born >= t
  BY <1>1, Successor
<1>7. ASSUME NEW i \in Ids PROVE EntrySound(i)'
  <2> DEFINE m == entry[i].name
             v == entry[i].st
             t == entry[i].ts - MaxUse
  <2>1. EntrySound(i) /\ m \in Names /\ v \in Nat /\ entry[i].ts \in Nat /\ entry[i].etag \in Nat
    BY DEF IInv, Types, EntryType
  <2>2. entry[i].ts <= now /\ v <= Len(disk[m]) /\ (v < Len(disk[m]) => disk[m][v + 1].born >= t)
    BY <2>1 DEF EntrySound, Stated
  <2>3. t \in Int /\ t <= now
    BY <1>1, <2>1, <2>2
  <2> HIDE DEF t
  <2>4. Stated(i)'
    <3>1. v <= Len(disk'[m]) /\ (v < Len(disk'[m]) => disk'[m][v + 1].born >= t)
      <4> HIDE DEF m, v
      <4>1. v <= Len(disk'[m])
        BY <1>2, <2>1, <2>2
      <4>2. ASSUME v < Len(disk'[m]) PROVE disk'[m][v + 1].born >= t
        BY <1>6, <2>1, <2>2, <2>3, <4>2
      <4> QED BY <4>1, <4>2
    <3> QED BY <1>1, <2>2, <3>1 DEF Stated, t
  <2>5. Watched(i)'
    BY <1>1, <1>3, <2>1 DEF EntrySound, Watched, Version
  <2>6. Etagged(i)'
    <3>1. Safe => entry[i].etag <= Len(disk'[m])
      <4>1. Safe => entry[i].etag <= Len(disk[m])
        BY <2>1 DEF EntrySound, Etagged, Version
      <4> HIDE DEF m
      <4> QED BY <1>2, <2>1, <4>1
    <3> QED BY <1>1, <2>1, <3>1 DEF EntrySound, Etagged, Safe, Injective, Version
  <2> QED BY <2>4, <2>5, <2>6 DEF EntrySound
<1>8. ASSUME NEW w \in Workers PROVE JobSound(w)'
  <2> DEFINE m == job[w].name
             v == job[w].st
             u == job[w].etag
             s == job[w].since
  <2>1. JobSound(w) /\ m \in Names /\ v \in Nat /\ u \in Nat /\ s \in Nat
    BY SMTT(25) DEF IInv, Types, JobType
  <2>2. Timely(w)' /\ Held(w)'
    BY <1>1, <2>1 DEF JobSound, Timely, Held, Safe, Injective, Using, Busy, Key
  <2>3. Seen(w)'
    <3>1. v <= Len(disk[m]) /\ (job[w].pc = "fill" /\ v < Len(disk[m]) => disk[m][v + 1].born >= s)
      BY <2>1 DEF JobSound, Seen
    <3>2. job[w].pc = "fill" => s <= now
      BY <2>1 DEF JobSound, Timely, Busy
    <3> HIDE DEF m, v, s
    <3>3. v <= Len(disk'[m]) /\ (job[w].pc = "fill" /\ v < Len(disk'[m]) => disk'[m][v + 1].born >= s)
      <4>1. v <= Len(disk'[m])
        BY <1>2, <2>1, <3>1
      <4>2. ASSUME job[w].pc = "fill", v < Len(disk'[m]) PROVE disk'[m][v + 1].born >= s
        BY <1>6, <2>1, <3>1, <3>2, <4>2
      <4> QED BY <4>1, <4>2
    <3> QED BY <1>1, <3>3 DEF Seen, m, v, s
  <2>4. Noted(w)'
    BY <1>1, <1>3 DEF Noted
  <2>5. Tagged(w)'
    <3>1. Safe => u <= Len(disk'[m])
      <4>1. Safe => u <= Len(disk[m])
        BY <2>1 DEF JobSound, Tagged, Version
      <4> HIDE DEF m, u
      <4> QED BY <1>2, <2>1, <4>1
    <3> QED BY <1>1, <3>1 DEF Tagged, Safe, Injective, Version
  <2>6. Valid(w)'
    <3>1. SUFFICES ASSUME engine # "fam", job[w].pc = "done", ~overlap, job[w].status = 304,
                          u < Len(disk'[m])
                   PROVE  disk'[m][u + 1].born >= s - MaxUse
      BY <1>1, <2>1 DEF JobSound, Valid, Safe, Injective
    <3>2. u < Len(disk[m]) => disk[m][u + 1].born >= s - MaxUse
      BY <2>1, <3>1 DEF JobSound, Valid
    <3>3. s - MaxUse \in Int /\ s - MaxUse <= now
      <4>1. s <= now
        BY <2>1, <3>1 DEF JobSound, Timely, Busy
      <4> HIDE DEF s
      <4> QED BY <1>1, <2>1, <4>1
    <3> QED BY <1>6, <2>1, <3>1, <3>2, <3>3
  <2> QED BY <2>2, <2>3, <2>4, <2>5, <2>6 DEF JobSound
<1> QED BY <1>4, <1>5, <1>7, <1>8 DEF IInv

LEMMA InitSound ==
  ASSUME StatCacheAssumption, Init
  PROVE  IInv
<1>1. PICK c \in Configs : engine = c.engine /\ hash = c.hash /\ follow = c.follow /\ overlap = c.overlap
  BY DEF Init
<1>2. ConfigOK
  BY <1>1 DEF ConfigOK, StatCacheAssumption
<1>3. /\ disk = [m \in Names |-> <<[born |-> 0, here |-> TRUE]>>]
      /\ \A i \in Ids : entry[i] = Blank
      /\ \A k \in Keys : files[k] = NoId
      /\ \A w \in Workers : job[w] = NoJob
      /\ now = 0 /\ watch = 0 /\ events = 0 /\ swept = TRUE /\ open = (engine = "fam") /\ lock = NoWorker
      /\ NoWorker \notin Workers /\ NoId \notin Ids /\ MaxUse \in Nat
  BY DEF Init, StatCacheAssumption
<1>4. \A m \in Names : Len(disk[m]) = 1 /\ disk[m][1].born = 0
  BY <1>3
<1>5. Types
  <2>1. LockOK
    BY <1>3, Constants DEF LockOK
  <2>2. disk \in [Names -> Seq([born : Nat, here : BOOLEAN])]
    BY <1>3
  <2>3. entry \in [Ids -> EntryType] /\ files \in [Keys -> Ids \cup {NoId}] /\ job \in [Workers -> JobType]
    BY Constants DEF Init
  <2> QED BY <1>2, <1>3, <2>1, <2>2, <2>3 DEF Types
<1>6. TypeOK
  BY <1>5, TypesAre
<1>7. Whole
  BY <1>3, Constants DEF Whole, TreeOwns, Keyed, Alone, Busy
<1>8. ASSUME NEW i \in Ids PROVE EntrySound(i)
  <2>1. /\ entry[i].st = 0 /\ entry[i].ts = 0 /\ entry[i].etag = 0 /\ ~entry[i].watched
        /\ entry[i].name \in Names
    BY <1>3, Constants DEF EntryType
  <2> QED BY <1>3, <1>4, <2>1 DEF EntrySound, Stated, Watched, Etagged, Version
<1>9. ASSUME NEW w \in Workers PROVE JobSound(w)
  <2>1. job[w].pc = "idle" /\ job[w].st = 0 /\ job[w].etag = 0 /\ job[w].name \in Names
    BY <1>3, Constants DEF JobType
  <2> QED BY <1>4, <2>1 DEF JobSound, Timely, Held, Seen, Noted, Tagged, Valid, Busy, Using, Version
<1> QED BY <1>6, <1>7, <1>8, <1>9 DEF IInv

-----------------------------------------------------------------------------
(* The theorems *)

LEMMA NextSound ==
  ASSUME StatCacheAssumption, IInv, [Next]_vars
  PROVE  IInv'
<1>1. Types
  BY TypesAre DEF IInv
<1>2. CASE Next
  <2>1. ASSUME NEW w \in Workers, NEW n \in DOMAIN hash, NEW c \in {InvNone} \cup (1 .. Version(n)),
               Request(w, n, c)
        PROVE  IInv'
    BY <1>1, <2>1, RequestSound
  <2>2. ASSUME NEW w \in Workers,
               \/ LookUp(w) \/ Stat(w) \/ Fill(w) \/ EtagGet(w) \/ EtagCreate(w) \/ EtagCopy(w)
               \/ Open(w) \/ Finish(w)
        PROVE  IInv'
    BY <1>1, <2>2, LookUpSound, StatSound, FillSound, EtagGetSound, EtagCreateSound, EtagCopySound,
       OpenSound, FinishSound
  <2>3. CASE Tick
    BY <1>1, <2>3, TickSound
  <2>4. CASE Cleanup
    BY <1>1, <2>4, CleanupSound
  <2>5. CASE FamHup \/ FamEvent
    BY <1>1, <2>5, FamSound
  <2>6. ASSUME NEW n \in DOMAIN hash, NEW here \in BOOLEAN, Change(n, here) PROVE IInv'
    BY <1>1, <2>6, ChangeSound
  <2> QED BY <1>2, <2>1, <2>2, <2>3, <2>4, <2>5, <2>6 DEF Next, Worker
<1>3. CASE UNCHANGED vars
  <2>1. Frame /\ job' = job /\ lock' = lock
    BY <1>3 DEF vars, Frame, config, cache, famvars
  <2>2. Types'
    BY <1>1, <2>1, TypesQuiet DEF Types, LockOK, Jobs
  <2>3. TypeOK'
    BY <2>2, TypesAre, PTL
  <2>4. Whole'
    BY <2>1, WholeQuiet DEF IInv, Whole, Alone, Busy, Frame
  <2> QED BY <2>1, <2>3, <2>4, EntriesUnmoved, UnmovedSound DEF IInv
<1> QED BY <1>2, <1>3

LEMMA Sound == ASSUME StatCacheAssumption PROVE Spec => []IInv
<1>1. Init => IInv
  BY InitSound
<1>2. IInv /\ [Next]_vars => IInv'
  BY NextSound
<1> QED BY <1>1, <1>2, PTL DEF Spec

\* Whatever workers, the clean-up and FAM do between the looks of others, the tree of stat_cache.c
\* holds every entry that is allocated, once, and none that was freed.
THEOREM TreeComplete == Spec => []TreeOwns
<1>1. IInv => TreeOwns
  BY DEF IInv, Whole
<1> QED BY <1>1, Sound, StatCacheAssumption, PTL

\* The entry that stat_cache_get_entry returned is used after the lock was given up.  It is not
\* freed meanwhile, if a request takes no longer than the two seconds that
\* stat_cache_tag_old_entries gives an entry, and no two names have the same key.
THEOREM InUseLive == ASSUME MaxUse <= 2 PROVE Spec => []UsedLive
<1>1. IInv => UsedLive
  <2>1. SUFFICES ASSUME IInv, engine # "fam", Injective, NEW w \in Workers, Using(w)
                 PROVE  entry[job[w].sce].live /\ entry[job[w].sce].name = job[w].name
    BY DEF UsedLive
  <2>2. Safe /\ JobSound(w) /\ TreeOwns
    BY <2>1 DEF Safe, IInv, Whole
  <2>3. job[w].sce \in Ids /\ files[Key(w)] = job[w].sce /\ entry[job[w].sce].name = job[w].name
    BY <2>1, <2>2 DEF JobSound, Held
  <2>4. Key(w) \in Keys /\ NoId \notin Ids
    BY <2>1, StatCacheAssumption, TypesAre, AtWork DEF Using, Busy, IInv, StatCacheAssumption
  <2> QED BY <2>2, <2>3, <2>4 DEF TreeOwns
<1> QED BY <1>1, Sound, StatCacheAssumption, PTL

\* http_response_send_file never sends the ETag of a version newer than the body, and answers 304
\* only for a version that was current when the request came, or a request's time before it.
THEOREM ValidatorsTrue == ASSUME MaxUse <= 2 PROVE Spec => []ValidatorsHold
<1>1. IInv => ValidatorsHold
  BY DEF IInv, JobSound, Valid, Safe, ValidatorsHold
<1> QED BY <1>1, Sound, StatCacheAssumption, PTL

\* An entry of a directory that FAM monitors is the file's state, or an event is on its way, or
\* stat_cache_handle_fdevent has made it invalid.
THEOREM EventsSuffice == Spec => []FamNotices
<1>1. IInv => FamNotices
  <2>1. SUFFICES ASSUME IInv, open, NEW n \in DOMAIN hash, files[hash[n]] # NoId,
                        entry[files[hash[n]]].name = n, entry[files[hash[n]]].watched, events = 0,
                        entry[files[hash[n]]].dirver = watch
                 PROVE  entry[files[hash[n]]].st = Version(n)
    BY DEF FamNotices
  <2>2. files[hash[n]] \in Ids
    BY <2>1 DEF IInv, TypeOK
  <2> QED BY <2>1, <2>2 DEF IInv, EntrySound, Watched
<1> QED BY <1>1, Sound, StatCacheAssumption, PTL

=============================================================================
