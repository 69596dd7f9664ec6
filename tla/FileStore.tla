------------------------------ MODULE FileStore ------------------------------
(***************************************************************************)
(* The two file stores a deployment chooses from (m2_storage/file_store):  *)
(* LocalFS, a directory in which a file may have a sidecar with its        *)
(* metadata, and MinIO, a server that keeps an object and its metadata     *)
(* together. Each session makes one call of its manager's store.           *)
(*                                                                         *)
(* A path is a file of LocalFS or an object of MinIO, and what is there is *)
(* the session whose put() wrote it, or Part: nothing yet, the first bytes *)
(* of one, or the bytes of several. The name of a sidecar is a key like    *)
(* any other, and so is that of the health check's probe. Between two      *)
(* calls of aiofiles others run, any of these calls can fail, and who has  *)
(* a file open goes on writing to it when it is removed.                   *)
(***************************************************************************)
EXTENDS Managers, FiniteSets

CONSTANTS Keys,     \* the keys that callers use
          Sidecar,  \* the path of the metadata of each key
          Probe,    \* the path of the file that LocalFS's health_check() writes
          Rejected, \* the keys that _require_safe_key turns down, by backend
          Part,     \* a file that no put() has written whole
          Unknown   \* nothing is promised of a file

FileOps == {"put", "describe", "get", "remove", "list", "link", "probe"}
Paths   == Keys \union {Sidecar[k] : k \in Keys} \union {Probe}

ASSUME FilesAssumption == /\ Rejected \in [{"local", "minio"} -> SUBSET Keys]
                          /\ {Part, Unknown, None} \intersect Sessions = {}
                          /\ Part /= None
                          /\ None \notin Keys
                          /\ \A k \in Keys : Sidecar[k] /= k

VARIABLES
  fb,      \* the backend: "local" or "minio"
  fopen,   \* the sessions whose store is initialised and not closed
  bucket,  \* MinIO has the bucket
  disk,    \* what is at each path
  at,      \* where the call of each session is
  path,    \* the path that it has open, or removes
  under,   \* the paths that it is about, if it changes any
  settled, \* history: what the last call about a path, if it had it for itself, left there
  alone,   \* history: sessions about whose paths no other call has been meanwhile
  refused  \* history: sessions to whose health check the file system refused something

fcalls == <<disk, at, path, under, settled, alone, refused>>
fvars  == <<fb, fopen, bucket, fcalls>>
fwhere == <<fb, fopen, bucket>>

\* "sick" is an answer of health_check(); a thread is "late" whose caller has been
\* told of a timeout.
Ended    == {"no", "done", "sick", "raised"}
Changing == {"write", "lost", "next", "unlink", "probing", "send", "late"}

FTypeOK ==
  /\ fb \in {"local", "minio"} /\ fopen \subseteq Sessions /\ bucket \in BOOLEAN
  /\ disk \in [Paths -> Sessions \union {None, Part}]
  /\ settled \in [Paths -> Sessions \union {None, Unknown}]
  /\ at \in [Sessions -> Ended \union Changing \union {"read"}]
  /\ path \in [Sessions -> Paths] /\ under \in [Sessions -> SUBSET Paths]
  /\ alone \subseteq Sessions /\ refused \subseteq Sessions

FInit(b) == /\ fb = b
            /\ fopen = {} /\ bucket = FALSE
            /\ disk = [p \in Paths |-> None] /\ settled = [p \in Paths |-> None]
            /\ at = [s \in Sessions |-> "no"]
            /\ path = [s \in Sessions |-> Probe] /\ under = [s \in Sessions |-> {}]
            /\ alone = {} /\ refused = {}

(***************************************************************************)
(* A call of a session, from its beginning to its end.                     *)
(***************************************************************************)
AtWork(p) == {s \in Sessions : p \in under[s] /\ at[s] \in Changing}
Comes(s, a) == at' = [at EXCEPT ![s] = a]
Turns(s, p) == path' = [path EXCEPT ![s] = p]
Holds(p, v) == disk' = [disk EXCEPT ![p] = v]

\* A call that changes paths: it has them for itself so long as nobody else is at
\* work on one of them.
Enters(s, P) ==
  /\ under' = [under EXCEPT ![s] = P]
  /\ LET rivals == UNION {AtWork(p) : p \in P} IN
       alone' = IF rivals = {} THEN alone \union {s} ELSE alone \ rivals
  /\ UNCHANGED <<settled, refused>>

GoesOn   == UNCHANGED <<under, settled, alone, refused>>
Owned    == UNCHANGED <<path, under, alone>>
Leaves(s, left) ==
  settled' = [p \in Paths |-> IF p \notin under[s] THEN settled[p]
                              ELSE IF s \in alone THEN left ELSE Unknown]

\* A call that changes nothing: it answers, or raises.
Looks(s, from, a) ==
  at[s] = from /\ Comes(s, a) /\ UNCHANGED <<disk, path, under, settled, alone, refused>>
Answers(s) == Looks(s, "no", "done")
Raises(s)  == Looks(s, "no", "raised")

Unsafe(s, k) == k \in Rejected[fb] /\ Raises(s)

(***************************************************************************)
(* LocalFS.                                                                *)
(***************************************************************************)
LocalOpen(s) == fb = "local" /\ fopen' = fopen \union {s} /\ UNCHANGED bucket
Safe(k)      == fb = "local" /\ k \notin Rejected[fb]
Pair(k)      == {k, Sidecar[k]}

\* put(): the directory is made and the file opened, which empties it.
PutOpens(s, k, op) ==
  /\ Safe(k) /\ at[s] = "no"
  /\ Enters(s, IF op = "describe" THEN Pair(k) ELSE {k})
  /\ Comes(s, "write") /\ Turns(s, k) /\ Holds(k, Part)
OpenFails(s, k) == Safe(k) /\ Raises(s)

\* What a write makes of a file: two calls on one path may mix their bytes.
Bytes(s) == IF s \in alone THEN {s} ELSE {s, Part}

\* Without metadata put() ends with the file, and a sidecar there may be stays.
PutWrites(s, k, op) ==
  /\ at[s] \in {"write", "lost"}
  /\ \/ at[s] = "write" /\ \E v \in Bytes(s) : Holds(path[s], v)
     \/ at[s] = "lost" /\ UNCHANGED disk
  /\ UNCHANGED path
  /\ IF op = "describe" /\ path[s] = k THEN Comes(s, "next") /\ GoesOn
     ELSE Comes(s, "done") /\ Leaves(s, s) /\ Owned /\ UNCHANGED refused

SidecarOpens(s, k) ==
  /\ at[s] = "next"
  /\ Comes(s, "write") /\ Turns(s, Sidecar[k]) /\ Holds(Sidecar[k], Part)
  /\ GoesOn

\* A full disk, a permission, a name that is too long: what is written stays.
WriteFails(s) ==
  /\ at[s] \in {"write", "lost", "next"}
  /\ Comes(s, "raised") /\ Leaves(s, Unknown)
  /\ \/ at[s] = "write" /\ Holds(path[s], Part)
     \/ UNCHANGED disk
  /\ Owned /\ UNCHANGED refused

\* get(): a file that is there may be gone when it is opened.
GetStarts(s, k) == Safe(k) /\ Looks(s, "no", IF disk[k] = None THEN "done" ELSE "read")
GetReads(s, k)  == \/ disk[k] /= None /\ Looks(s, "read", "done")
                   \/ Looks(s, "read", "raised")

\* delete(): the file, if it is there, and then the sidecar, if it is there then.
RemoveStarts(s, k) ==
  /\ Safe(k) /\ at[s] = "no"
  /\ \E p \in Pair(k) : /\ disk[p] /= None /\ (p /= k => disk[k] = None)
                        /\ Turns(s, p)
  /\ Enters(s, Pair(k)) /\ Comes(s, "unlink")
  /\ UNCHANGED disk
RemoveNothing(s, k) == Safe(k) /\ (\A p \in Pair(k) : disk[p] = None) /\ Answers(s)

\* Who has the file open is left with one that nobody finds.
Cuts(s, a) ==
  at' = [t \in Sessions |-> IF t = s THEN a
                            ELSE IF path[t] = path[s] /\ at[t] = "write" THEN "lost" ELSE at[t]]

\* (mutation) the sidecar is left where it is.
UnlinksOnly(s, k) ==
  /\ at[s] = "unlink" /\ disk[path[s]] /= None
  /\ Holds(path[s], None)
  /\ Cuts(s, "done") /\ Leaves(s, None) /\ Owned /\ UNCHANGED refused

Unlinks(s, k) ==
  /\ at[s] = "unlink" /\ disk[path[s]] /= None
  /\ Holds(path[s], None) /\ UNCHANGED path
  /\ IF path[s] = k THEN Cuts(s, "next") /\ GoesOn
     ELSE Cuts(s, "done") /\ Leaves(s, None) /\ Owned /\ UNCHANGED refused

UnlinksNext(s, k) ==
  /\ at[s] = "next" /\ UNCHANGED disk
  /\ IF disk[Sidecar[k]] = None
       THEN Comes(s, "done") /\ Leaves(s, None) /\ Owned /\ UNCHANGED refused
       ELSE Comes(s, "unlink") /\ Turns(s, Sidecar[k]) /\ GoesOn

\* Another delete() was quicker, or the file system does not let it go.
UnlinkFails(s) ==
  /\ at[s] = "unlink"
  /\ Comes(s, "raised") /\ Leaves(s, Unknown) /\ UNCHANGED disk
  /\ Owned /\ UNCHANGED refused

\* list() and get_url() look at the directory at once.
LocalList(s)    == fb = "local" /\ Answers(s)
LocalLink(s, k) == Safe(k) /\ Answers(s)

\* health_check() writes a file, the same for everybody, and removes it.
\* (mutation) the file must be a new one.
ProbeCreates(s) ==
  /\ fb = "local" /\ at[s] = "no"
  /\ Enters(s, {Probe}) /\ Turns(s, Probe) /\ Holds(Probe, Part)
  /\ Comes(s, IF disk[Probe] /= None THEN "sick" ELSE "probing")
ProbeWrites(s) ==
  /\ fb = "local" /\ at[s] = "no"
  /\ Enters(s, {Probe}) /\ Turns(s, Probe) /\ Holds(Probe, Part)
  /\ Comes(s, "probing")

ProbeRemoves(s) ==
  /\ at[s] = "probing"
  /\ IF disk[Probe] /= None THEN Cuts(s, "done") ELSE Comes(s, "sick")
  /\ Holds(Probe, None) /\ Leaves(s, None)
  /\ Owned /\ UNCHANGED refused

\* An OSError of its open, its write or its removal: a file that is there stays.
ProbeFails(s) ==
  /\ fb = "local" /\ at[s] \in {"no", "probing"}
  /\ Comes(s, "sick") /\ UNCHANGED disk
  /\ settled' = [settled EXCEPT ![Probe] = IF at[s] = "no" THEN @ ELSE Unknown]
  /\ refused' = refused \union {s}
  /\ Owned

LocalClose(s) == fb = "local" /\ fopen' = fopen \ {s} /\ UNCHANGED bucket

Local(s, k, op) ==
  \/ op \in {"put", "describe"} /\ \/ PutOpens(s, k, op) \/ OpenFails(s, k)
                                   \/ PutWrites(s, k, op) \/ SidecarOpens(s, k) \/ WriteFails(s)
  \/ op = "get" /\ (GetStarts(s, k) \/ GetReads(s, k))
  \/ op = "remove" /\ \/ RemoveStarts(s, k) \/ RemoveNothing(s, k) \/ Unlinks(s, k)
                      \/ UnlinksNext(s, k) \/ UnlinkFails(s)
  \/ op = "list" /\ LocalList(s)
  \/ op = "link" /\ LocalLink(s, k)
  \/ op = "probe" /\ (ProbeWrites(s) \/ ProbeRemoves(s) \/ ProbeFails(s))

(***************************************************************************)
(* MinIO.                                                                  *)
(***************************************************************************)
\* bucket_exists() and make_bucket(), each with three attempts: the client is there
\* even if the server is not.
Attempted    == {bucket, TRUE}
MinioOpen(s) == fb = "minio" /\ fopen' = fopen \union {s} /\ bucket' \in Attempted
Taken(k)     == fb = "minio" /\ k \notin Rejected[fb]

PutSends(s, k) ==
  /\ Taken(k) /\ at[s] = "no"
  /\ Enters(s, {k}) /\ Comes(s, "send") /\ Turns(s, k) /\ UNCHANGED disk

\* The object and its metadata come together: one that is put again without
\* metadata loses what it had.
Lands(s) == bucket /\ Holds(path[s], s)

PutLands(s) ==
  /\ at[s] = "send" /\ Lands(s)
  /\ Comes(s, "done") /\ Leaves(s, s) /\ Owned /\ UNCHANGED refused

\* An error, of the server or on the way back, or a timeout, which ends the wait and
\* not the thread.
PutFails(s) ==
  /\ at[s] = "send"
  /\ \/ Comes(s, "raised") /\ (Lands(s) \/ UNCHANGED disk)
     \/ Comes(s, "late") /\ UNCHANGED disk
  /\ Leaves(s, Unknown) /\ Owned /\ UNCHANGED refused

LateLands(s) ==
  /\ at[s] = "late"
  /\ Lands(s) \/ UNCHANGED disk
  /\ Comes(s, "raised")
  /\ Leaves(s, Unknown) /\ Owned /\ UNCHANGED <<fwhere, refused>>

\* get(), delete() and list() hand _retry_sync arguments by name that it does not
\* take: a TypeError before the server is asked.
MinioGet(s, k)    == Taken(k) /\ Raises(s)
MinioRemove(s, k) == Taken(k) /\ Raises(s)
MinioList(s)      == fb = "minio" /\ Raises(s)
\* An object that stat_object() does not find has no URL, whatever the reason.
MinioLink(s, k)   == Taken(k) /\ Answers(s)

\* bucket_exists(): sick without a bucket, or without an answer.
MinioHealth(s) ==
  /\ fb = "minio"
  /\ \/ bucket /\ Looks(s, "no", "done")
     \/ Looks(s, "no", "sick")

MinioClose(s) == fb = "minio" /\ fopen' = fopen \ {s} /\ UNCHANGED bucket

Minio(s, k, op) ==
  \/ op \in {"put", "describe"} /\ (PutSends(s, k) \/ PutLands(s) \/ PutFails(s))
  \/ op = "get" /\ MinioGet(s, k)
  \/ op = "remove" /\ MinioRemove(s, k)
  \/ op = "list" /\ MinioList(s)
  \/ op = "link" /\ MinioLink(s, k)
  \/ op = "probe" /\ MinioHealth(s)

(***************************************************************************)
(* Either of them.                                                         *)
(***************************************************************************)
FOpen(s)  == (LocalOpen(s) \/ MinioOpen(s)) /\ UNCHANGED <<fb, fcalls>>
FClose(s) == (LocalClose(s) \/ MinioClose(s)) /\ UNCHANGED <<fb, fcalls>>

FCall(s, k, op) ==
  /\ s \in fopen
  /\ \/ Local(s, k, op) \/ Minio(s, k, op)
     \/ op \notin {"list", "probe"} /\ Unsafe(s, k)
  /\ UNCHANGED fwhere

FCrash ==
  /\ fopen' = {}
  /\ at' = [s \in Sessions |-> IF at[s] \in Ended THEN at[s] ELSE "raised"]
  /\ settled' = [p \in Paths |-> IF AtWork(p) = {} THEN settled[p] ELSE Unknown]
  /\ UNCHANGED <<fb, bucket, disk, path, under, alone, refused>>

(***************************************************************************)
(* Properties.                                                             *)
(***************************************************************************)

\* At a path that nobody is at work on there is what the last call that was about
\* it left: the whole bytes of its put(), or nothing. That is promised if the call
\* had its paths for itself, succeeded, and was not cut by a crash. A put() without
\* metadata is not about the sidecar. It is promised of paths, not of keys: a key
\* that is the name of a sidecar is written over like any other file.
FileIsLastPut ==
  \A p \in Paths : AtWork(p) = {} => settled[p] \in {Unknown, disk[p]}

\* LocalFS calls itself sick only when its health check met another call at the
\* probe's file, or the file system refused it something.
SickForReason ==
  \A s \in Sessions : fb = "local" /\ at[s] = "sick" => s \notin alone \/ s \in refused
=============================================================================
