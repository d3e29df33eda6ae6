-------------------------------- MODULE Webdav --------------------------------
(***************************************************************************)
(* mod_webdav.c: the requests that change files, the dead properties and   *)
(* the locks kept with them in an SQLite database.  Requests are served    *)
(* one at a time.  The tree is small, and a path that is not in it stands  *)
(* for a name that is too long; directories are read in any order.  How    *)
(* much of a property is stored, and the texts of the answers, are left    *)
(* out.                                                                    *)
(***************************************************************************)
EXTENDS Integers, FiniteSets, Sequences

CONSTANTS
  Tops, Names,  \* the names at the first and at the second level
  Paths,        \* the resources: <<top>> and <<top, name>>
  Data,         \* the contents that a PUT may bring
  Lockable,     \* bound: the resources that clients lock
  MaxLocks,     \* bound: rows of the table of locks
  MaxProps,     \* bound: resources given properties at a time
  MaxFails      \* bound: how often a system call fails

Cut == "cut"    \* the content of a file whose writing was interrupted
NoPath == <<>>

WebdavAssumption ==
  /\ Paths \subseteq {<<t>> : t \in Tops} \cup (Tops \X Names)
  /\ \A p \in Paths : SubSeq(p, 1, 1) \in Paths
  /\ {"none", "dir", Cut} \cap Data = {} /\ {MaxLocks, MaxProps, MaxFails} \subseteq Nat

VARIABLES
  fs,       \* "none", "dir" or the content of a file
  props,    \* the resources that have rows in the table of properties
  locks,    \* the rows of the table of locks: token, resource, scope
  lastdst,  \* p->uri.path: the Destination of the last COPY or MOVE
  req,      \* the last request that was served: [op, src, dst, over]
  status,   \* its status
  fails     \* what is left of the bound

vars == <<fs, props, locks, lastdst, req, status, fails>>

IsFile(f, p) == f[p] \notin {"none", "dir"}
ParentOf(p) == SubSeq(p, 1, Len(p) - 1)
HasParent(f, p) == Len(p) > 1 => f[ParentOf(p)] = "dir"
ParentIsFile(f, p) == Len(p) > 1 /\ IsFile(f, ParentOf(p))
Entries(f, p) == {q \in Paths : Len(q) = Len(p) + 1 /\ ParentOf(q) = p /\ f[q] # "none"}
Within(p, q) == Len(q) <= Len(p) /\ SubSeq(p, 1, Len(q)) = q
Moved(e, s, d) == d \o SubSeq(e, Len(s) + 1, Len(e))

TypeOK ==
  /\ fs \in [Paths -> {"none", "dir", Cut} \cup Data]
  /\ \A p \in Paths : fs[p] # "none" => HasParent(fs, p)
  /\ props \subseteq Paths /\ lastdst \in Paths \cup {NoPath} /\ fails \in 0 .. MaxFails
  /\ locks \subseteq [token : 1 .. MaxLocks, path : Paths, scope : {"exclusive", "shared"}]

Init ==
  /\ fs = [p \in Paths |-> "none"] /\ props = {} /\ locks = {} /\ lastdst = NoPath
  /\ req = NoPath /\ status = 0 /\ fails = MaxFails

----------------------------------------------------------------------------
(* The helpers.  Each gives the set of the worlds it may end in, since the *)
(* order of a directory and the failures of system calls are open.         *)

World(r) == [fs |-> fs, props |-> props, fails |-> fails, status |-> r]
Failed(w, r) == IF w.fails > 0 THEN {[w EXCEPT !.fails = @ - 1, !.status = r]} ELSE {}
Gone(w, p) == [w EXCEPT !.fs[p] = "none", !.props = @ \ {p}]

\* webdav_copy_file.  A file copied onto itself is truncated before it is read;
\* properties are inserted, which fails when the target has some already
CopyFile(w, s, d, over) ==
  IF d \notin Paths \/ ParentIsFile(w.fs, d) THEN {[w EXCEPT !.status = 403]}
  ELSE IF ~HasParent(w.fs, d) THEN {[w EXCEPT !.status = 409]}
  ELSE IF w.fs[d] # "none" /\ ~over THEN {[w EXCEPT !.status = 412]}
  ELSE IF w.fs[d] = "dir" THEN {[w EXCEPT !.status = 409]}
  ELSE {[w EXCEPT !.fs[d] = IF s = d THEN Cut ELSE w.fs[s],
                  !.props = IF s \in @ THEN @ \cup {d} ELSE @]}
       \cup Failed(w, 403) \cup Failed([w EXCEPT !.fs[d] = Cut], 507)

\* webdav_delete_file
DeleteFile(w, p) == {[Gone(w, p) EXCEPT !.status = 0]} \cup Failed(w, 207)

\* webdav_delete_dir: the entries one after another; what is said of an entry
\* hides what was said of the ones before it
RECURSIVE DeleteEntries(_, _)
DeleteEntry(w, e) ==
  IF w.fs[e] # "dir" THEN DeleteFile(w, e)
  ELSE UNION {IF Entries(v.fs, e) = {}
              THEN {[Gone(v, e) EXCEPT !.status = v.status]} \cup Failed(v, 207)
              ELSE {[v EXCEPT !.status = 207]} : v \in DeleteEntries([w EXCEPT !.status = 0], Entries(w.fs, e))}
DeleteEntries(w, es) ==
  IF es = {} THEN {w}
  ELSE UNION {UNION {DeleteEntries(v, es \ {e}) : v \in DeleteEntry(w, e)} : e \in es}
DeleteDir(w, p) == DeleteEntries([w EXCEPT !.status = 0], Entries(w.fs, p))

\* webdav_copy_dir: it stops at the first entry that fails, except at a
\* directory that cannot be made, which is passed over
RECURSIVE CopyEntries(_, _, _, _, _)
CopyEntry(w, e, s, d, over) ==
  LET t == Moved(e, s, d) IN
  IF w.fs[e] # "dir" THEN CopyFile(w, e, t, over)
  ELSE IF t \notin Paths \/ ~HasParent(w.fs, t) THEN {w}
  ELSE {v \in Failed(w, 0) : w.fs[t] = "none"} \cup
       {IF v.status = 0 /\ e \in v.props THEN [v EXCEPT !.props = @ \cup {t}] ELSE v :
         v \in CopyEntries(IF w.fs[t] = "none" THEN [w EXCEPT !.fs[t] = "dir"] ELSE w,
                           Entries(w.fs, e), e, t, over)}
CopyEntries(w, es, s, d, over) ==
  IF es = {} \/ w.status # 0 THEN {w}
  ELSE UNION {UNION {CopyEntries(v, es \ {e}, s, d, over) : v \in CopyEntry(w, e, s, d, over)} : e \in es}
CopyDir(w, s, d, over) == CopyEntries(w, Entries(w.fs, s), s, d, over)


----------------------------------------------------------------------------
(* mod_webdav_subrequest_handler_huge, a method each. *)

Served(op, s, d, over) == req' = [op |-> op, src |-> s, dst |-> d, over |-> over]
Answer(r) == status' = r /\ UNCHANGED <<fs, props, fails>>
Becomes(w) == fs' = w.fs /\ props' = w.props /\ fails' = w.fails /\ status' = w.status

\* webdav_has_lock: a client that sends an If header is believed, whatever it
\* says, and a PUT looks only before its body is read; so a lock may, but need
\* not, keep a request off
Refused(p) == (\E l \in locks : l.path = p) /\ Answer(423)

Mkcol(p) ==
  /\ Served("MKCOL", p, p, TRUE)
  /\ IF ~HasParent(fs, p) THEN Answer(409)
     ELSE IF fs[p] # "none" THEN Answer(405)
     ELSE Becomes([World(201) EXCEPT !.fs[p] = "dir"])
  /\ UNCHANGED <<locks, lastdst>>

\* the properties of a single file stay behind
Delete(p) ==
  /\ Served("DELETE", p, p, TRUE)
  /\ \/ Refused(p)
     \/ fs[p] = "none" /\ Answer(404)
     \/ IsFile(fs, p)
        /\ \E w \in {[World(204) EXCEPT !.fs[p] = "none"]} \cup Failed(World(0), 403) : Becomes(w)
     \/ fs[p] = "dir"
        /\ \E w \in DeleteDir(World(0), p) :
             IF w.status # 0 THEN Becomes(w)
             ELSE IF Entries(w.fs, p) # {} THEN Becomes([w EXCEPT !.status = 501])
             ELSE \E v \in {[w EXCEPT !.fs[p] = "none", !.status = 204]} \cup Failed(w, 501) : Becomes(v)
  /\ UNCHANGED <<locks, lastdst>>

\* PUT: the file is truncated when it is opened; with a Content-Range an
\* existing file is written from an offset instead
Put(p, data, ranged) ==
  /\ Served("PUT", p, p, TRUE)
  /\ \/ Refused(p)
     \/ IF ranged /\ fs[p] = "none" THEN Answer(404)
          ELSE IF ~HasParent(fs, p) \/ fs[p] = "dir" THEN Answer(403)
          ELSE \E w \in {[World(200) EXCEPT !.fs[p] = data]}
                        \cup Failed([World(0) EXCEPT !.fs[p] = Cut], 507) \cup Failed(World(0), 403) :
                 Becomes(w)
  /\ UNCHANGED <<locks, lastdst>>

\* LOCK with a body.  It makes the file if there is none, and looks for the
\* locks of the path in p->uri.path, the last Destination
Lock(p, scope) ==
  /\ LET others == {l \in locks : l.path = lastdst}
         f == IF fs[p] = "none" THEN [fs EXCEPT ![p] = Cut] ELSE fs
     IN /\ Served("LOCK", p, p, TRUE) /\ UNCHANGED <<props, fails, lastdst>>
        /\ IF ~HasParent(fs, p) THEN status' = 403 /\ UNCHANGED <<fs, locks>>
           ELSE IF fs[p] = "dir" THEN status' = 409 /\ UNCHANGED <<fs, locks>>
           ELSE IF \E l \in others : l.scope # "exclusive" \/ scope = "exclusive"
           THEN fs' = f /\ status' = 423 /\ UNCHANGED locks
           ELSE \E token \in 1 .. MaxLocks :
                  /\ \A l \in locks : l.token # token
                  /\ locks' = locks \cup {[token |-> token, path |-> p, scope |-> scope]}
                  /\ fs' = f /\ status' = IF fs[p] = "none" THEN 201 ELSE 200

\* UNLOCK: whoever names the token removes the lock
Unlock(token) ==
  /\ locks' = {l \in locks : l.token # token}
  /\ status' = IF locks' = locks THEN 401 ELSE 204
  /\ Served("UNLOCK", NoPath, NoPath, TRUE)
  /\ UNCHANGED <<fs, props, fails, lastdst>>

\* PROPPATCH: properties set or removed; the missing resource is not an error
Proppatch(p, set) ==
  /\ set => Cardinality(props \cup {p}) <= MaxProps
  /\ Served("PROPPATCH", p, p, TRUE)
  /\ \/ Refused(p)
     \/ /\ status' = 200 /\ UNCHANGED <<fs, fails>>
        /\ props' = IF set THEN props \cup {p} ELSE props \ {p}
  /\ UNCHANGED <<locks, lastdst>>

\* a directory is copied entry by entry into the destination, and for a MOVE
\* what can be deleted of the source is deleted
TransferDir(op, s, d, over) ==
  /\ fs[s] = "dir"
  /\ IF fs[d] = "none" /\ ~HasParent(fs, d) THEN Answer(403)
     ELSE IF IsFile(fs, d) /\ ~over THEN Answer(409)
     ELSE LET made == IF fs[d] = "dir" THEN World(0) ELSE [World(0) EXCEPT !.fs[d] = "dir"]
              done == IF fs[d] = "dir" THEN 204 ELSE 201
          IN \E w \in CopyDir(made, s, d, over) :
               IF w.status # 0 THEN Becomes(w)
               ELSE IF op = "COPY" THEN Becomes([w EXCEPT !.status = done])
               ELSE \E v \in DeleteDir(w, s) :
                      Becomes([v EXCEPT !.fs[s] = IF Entries(v.fs, s) = {} THEN "none" ELSE "dir",
                                        !.status = done])

\* Mutant of Target: a directory is written into without another look.
TargetSeen(s, d) == [path |-> IF fs[d] = "dir" THEN Append(d, s[Len(s)]) ELSE d, exists |-> IsFile(fs, d)]

\* where a file goes: into a directory under its own name
Target(s, d) ==
  LET t == IF fs[d] = "dir" THEN Append(d, s[Len(s)]) ELSE d
  IN [path |-> t, exists |-> t \in Paths /\ fs[t] # "none"]

\* rename, or a copy and a deletion where rename fails: the names at the first
\* level may be mounted file systems
TransferFile(op, s, d, over) ==
  /\ fs[s] # "dir"
  /\ LET t == Target(s, d).path
         w == World(IF Target(s, d).exists THEN 204 ELSE 201)
         copied == {[v EXCEPT !.status = IF @ = 0 THEN w.status ELSE @] :
                      v \in CopyFile(World(0), s, t, over)}
         bad(v) == v.status \in {403, 409, 412, 507}
         renames == t \in Paths /\ HasParent(fs, t) /\ fs[t] # "dir"
     IN \/ Refused(d)
        \/ ParentIsFile(fs, t) /\ Answer(409)
        \/ Target(s, d).exists /\ ~over /\ Answer(412)
        \/ /\ ~ParentIsFile(fs, t) /\ (Target(s, d).exists => over)
           /\ IF op = "COPY" THEN \E v \in copied : Becomes(v)
              ELSE \/ /\ renames
                      /\ Becomes(IF t = s THEN w
                                 ELSE [w EXCEPT !.fs[t] = fs[s], !.fs[s] = "none",
                                                !.props = IF s \in @ THEN (@ \ {s}) \cup {d} ELSE @])
                   \/ \E v \in copied :
                        /\ renames => s[1] # t[1]
                        /\ IF bad(v) THEN Becomes(v)
                           ELSE \E u \in DeleteFile(v, s) : Becomes([u EXCEPT !.status = v.status])

Transfer(op, s, d, over) ==
  /\ Served(op, s, d, over)
  /\ \/ op = "MOVE" /\ Refused(s) /\ UNCHANGED lastdst
     \/ /\ lastdst' = d
        /\ IF Within(d, s) THEN Answer(403)
           ELSE IF fs[s] = "none" THEN Answer(404)
           ELSE TransferDir(op, s, d, over) \/ TransferFile(op, s, d, over)
  /\ UNCHANGED locks

Next ==
  \/ \E p \in Paths :
       \/ Mkcol(p) \/ Delete(p)
       \/ \E data \in Data, ranged \in BOOLEAN : Put(p, data, ranged)
       \/ \E set \in BOOLEAN : Proppatch(p, set)
       \/ \E d \in Paths, op \in {"COPY", "MOVE"}, over \in BOOLEAN : Transfer(op, p, d, over)
  \/ \E p \in Lockable, scope \in {"exclusive", "shared"} : Lock(p, scope)
  \/ \E token \in 1 .. MaxLocks : Unlock(token)

Spec == Init /\ [][Next]_vars

----------------------------------------------------------------------------
(* A request changes nothing but the resource it names, what is in it, and
   what is at its Destination; with "Overwrite: F" nothing that is there
   already, in whatever directory, is lost at the destination, however the
   request ends. *)
ChangesNamed ==
  [][\A q \in Paths : fs'[q] # fs[q] =>
       /\ Within(q, req'.src) \/ Within(q, req'.dst)
       /\ req'.op = "COPY" => Within(q, req'.dst)
       /\ ~req'.over /\ ~(req'.op = "MOVE" /\ Within(q, req'.src)) => fs[q] = "none"]_vars
=============================================================================
