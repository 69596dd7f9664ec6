------------------------------- MODULE Storage -------------------------------
(***************************************************************************)
(* The storage layer as its callers use it (m2_storage/manager.py,         *)
(* factory.py, and the block of M1's web server that stores a parsed       *)
(* document): a session makes a StorageManager of the deployment's         *)
(* backends, initialises them, inserts the chunks of a document into the   *)
(* vector store and then into the full-text index, or deletes what a name  *)
(* stands for from both, and closes the manager.                           *)
(*                                                                         *)
(* Sessions are coroutines of one process. What they do between two calls  *)
(* of a backend is one action; the servers of the index run by themselves, *)
(* and the process can end at any time. What calls the file store is       *)
(* any caller of its operations. The relational database hands out         *)
(* sessions of SQLAlchemy, of which nothing in the repository takes one.   *)
(***************************************************************************)
EXTENDS DocumentIndex, FileStore

CONSTANTS Deployments, \* the backends that deployments configure, and what they are for
          MaxDeletes,  \* bound: sessions that delete documents
          MaxCrashes   \* bound: ends of the process

ASSUME BoundsAssumption == MaxDeletes \in Nat /\ MaxCrashes \in Nat

VARIABLES
  phase,    \* where each session is
  jobs,     \* the operations that the deployment is used for
  job,      \* [op, arg]: the file it stores, the name it deletes, the key of its call
  crashes,  \* ends of the process so far
  stored,   \* history: files whose caller was told that they are stored
  excused,  \* history: why one of them need not be there, see below
  unread,   \* history: what was written to FAISS's files since each session read them
  overtaken,\* history: sessions that do not know the files of FAISS: another wrote them
            \*          meanwhile, or the index could not be read
  cutOver,  \* history: the close of one of those was cut between the two files
  erased,   \* history: files deleted from the full-text index, and not indexed since
  missed    \* history: files of which Elasticsearch had not seen all when they were deleted

shist       == <<stored, excused, unread, overtaken, cutOver, erased, missed>>
svars       == <<jobs, phase, job, crashes, shist>>
storageVars == <<vvars, ivars, fvars, svars>>

Phases   == {"idle", "open", "half", "both", "done", "failed"}
JobKinds == {"store", "delete"} \union FileOps
Job      == [op : JobKinds \union {"none"}, arg : {None} \union DocNames \union Keys]

ASSUME DeploymentsAssumption ==
  Deployments \subseteq [vector : {"chromadb", "qdrant", "milvus", "flat", "ivf"},
                         index : {"meilisearch", "elasticsearch"},
                         files : {"local", "minio"}, jobs : SUBSET JobKinds]

StorageTypeOK ==
  /\ VTypeOK /\ ITypeOK /\ FTypeOK /\ jobs \subseteq JobKinds
  /\ phase \in [Sessions -> Phases] /\ job \in [Sessions -> Job]
  /\ crashes \in 0..MaxCrashes
  /\ stored \subseteq Files /\ excused \subseteq Files
  /\ erased \subseteq Files /\ missed \subseteq Files
  /\ unread \in [Sessions -> SUBSET Files]
  /\ overtaken \subseteq Sessions /\ cutOver \in BOOLEAN

StorageInit ==
  /\ \E d \in Deployments : VInit(d.vector) /\ IInit(d.index) /\ FInit(d.files) /\ jobs = d.jobs
  /\ phase = [s \in Sessions |-> "idle"]
  /\ job = [s \in Sessions |-> [op |-> "none", arg |-> None]]
  /\ crashes = 0 /\ stored = {} /\ excused = {} /\ cutOver = FALSE
  /\ unread = [s \in Sessions |-> {}]
  /\ overtaken = {} /\ erased = {} /\ missed = {}

Active     == {s \in Sessions : phase[s] \in {"open", "half", "both"}}
Goes(s, t) == phase' = [phase EXCEPT ![s] = t]
Stores(s, f)  == job[s] = [op |-> "store", arg |-> f]
Deletes(s, n) == job[s] = [op |-> "delete", arg |-> n]

\* The file whose chunks the session has stored.
Written(s) == {f \in Files : Stores(s, f)}

\* The files that a vector store takes a name for; Milvus deletes none of them.
Deleted(n) == IF vb = "chromadb" THEN Stemmed(n) ELSE {n} \cap Files

\* Files that have a line in common: two rows for one chunk only Milvus keeps.
Shared(f) == vb /= "milvus" /\ \E g \in Files \ {f} : Content[g] \cap Content[f] /= {}

(***************************************************************************)
(* A session. initialize() of the manager starts every backend and only    *)
(* logs the failures.                                                      *)
(***************************************************************************)
Assigned(s, op, arg) == op \in jobs /\ job' = [job EXCEPT ![s] = [op |-> op, arg |-> arg]]

Open(s) ==
  /\ phase[s] = "idle"
  /\ \/ \E f \in Files : Assigned(s, "store", f)
     \/ /\ Cardinality({t \in Sessions : job[t].op = "delete"}) < MaxDeletes
        /\ \E n \in DocNames : Assigned(s, "delete", n)
     \/ \E op \in FileOps \ {"list", "probe"}, k \in Keys : Assigned(s, op, k)
     \/ \E op \in {"list", "probe"} : Assigned(s, op, None)
  /\ VOpen(s) /\ IOpen(s) /\ FOpen(s)
  /\ Goes(s, "open")
  /\ overtaken' = overtaken \union IF Faiss /\ file.vectors = Torn THEN {s} ELSE {}
  /\ UNCHANGED <<jobs, crashes, stored, excused, unread, cutOver, erased, missed>>

\* A call of the file store, up to its next await: it goes on, answers or raises.
\* A put() that is late has raised, and its thread lands by itself.
FileCall(s) ==
  /\ phase[s] = "open" /\ job[s].op \in FileOps
  /\ FCall(s, job[s].arg, job[s].op)
  /\ Goes(s, IF at'[s] \in {"raised", "late"} THEN "failed"
             ELSE IF at'[s] \in Ended THEN "both" ELSE "open")
  /\ UNCHANGED <<vvars, ivars, jobs, job, crashes, shist>>

\* Only ChromaDB can get here without health, and then it has dropped the document;
\* one that a server has taken makes up for an earlier loss.
Insert(s) ==
  /\ phase[s] = "open"
  /\ \E f \in Files :
       /\ Stores(s, f) /\ VInsert(s, f)
       /\ excused' = IF ~VHealthy(s) THEN excused \union {f}
                     ELSE IF Faiss THEN excused ELSE excused \ {f}
  /\ Goes(s, "half")
  /\ UNCHANGED <<ivars, fvars, jobs, job, crashes, stored, unread, cutOver, overtaken, erased, missed>>

\* The exception leaves the block, and the manager is not closed.
InsertRaises(s) ==
  /\ phase[s] = "open"
  /\ \E f \in Files : Stores(s, f) /\ Refused(s, f)
  /\ Goes(s, "failed")
  /\ UNCHANGED <<vvars, ivars, fvars, jobs, job, crashes, shist>>

\* An exception of the index is passed over.
IndexIt(s) ==
  /\ phase[s] = "half"
  /\ \E f \in Files :
       /\ Stores(s, f)
       /\ IIndex(s, f) \/ UNCHANGED ivars
       /\ erased' = erased \ {f} /\ missed' = missed \ {f}
  /\ Goes(s, "both")
  /\ UNCHANGED <<vvars, fvars, jobs, job, crashes, stored, excused, unread, cutOver, overtaken>>

DeleteVectors(s) ==
  /\ phase[s] = "open"
  /\ \E n \in DocNames : /\ Deletes(s, n) /\ VDelete(s, n)
                      /\ excused' = excused \union Deleted(n)
  /\ Goes(s, "half")
  /\ UNCHANGED <<ivars, fvars, jobs, job, crashes, stored, unread, cutOver, overtaken, erased, missed>>

\* A deletion that found the index closed has not been made.
DeleteHits(s) ==
  /\ phase[s] = "half"
  /\ \E n \in DocNames :
       /\ Deletes(s, n) /\ IDelete(s, n)
       /\ LET made == ib = "elasticsearch" \/ iopen[s] = "index" IN
            erased' = IF made THEN erased \union Stemmed(n) ELSE erased
       /\ missed' = missed \union {f \in Stemmed(n) : \E i \in DOMAIN unseen : unseen[i] = f}
  /\ Goes(s, "both")
  /\ UNCHANGED <<vvars, fvars, jobs, job, crashes, stored, excused, unread, cutOver, overtaken>>

DeleteRaises(s) ==
  /\ phase[s] = "half"
  /\ \E n \in DocNames : Deletes(s, n) /\ IDeleteFails(s, n)
  /\ Goes(s, "failed")
  /\ UNCHANGED <<vvars, ivars, fvars, jobs, job, crashes, shist>>

\* Its backends are closed; what the caller is told is the same if one fails.
Closing(s) ==
  /\ phase[s] = "both"
  /\ IClose(s) /\ FClose(s)
  /\ stored' = stored \union Written(s)
  /\ overtaken' = (overtaken \union IF Faiss /\ Saves(s) THEN Active ELSE {}) \ {s}
  /\ job' = [job EXCEPT ![s].arg = None]
  /\ Goes(s, "done")
  /\ UNCHANGED <<jobs, crashes, erased, missed>>

\* FAISS's files are written as the session has them: what was written to them
\* since it read them is lost.
Close(s) ==
  /\ VClose(s) /\ Closing(s)
  /\ unread' = [t \in Sessions |-> IF t = s \/ ~Faiss THEN {}
                                   ELSE IF t \in Active THEN unread[t] \union Written(s)
                                   ELSE unread[t]]
  /\ excused' = IF Faiss /\ Saves(s) THEN (excused \union unread[s]) \ Written(s) ELSE excused
  /\ UNCHANGED cutOver

\* What is in FAISS's files when one of them is torn is lost.
TornAway == IF Torn \in {file'.vectors, file'.texts} THEN stored ELSE {}
CutOver(s) == cutOver \/ (s \in overtaken /\ file' = SavesIndex(s))

CloseFails(s) ==
  /\ VCloseFails(s) /\ Closing(s)
  /\ unread' = [unread EXCEPT ![s] = {}]
  /\ excused' = excused \union Written(s) \union TornAway
  /\ cutOver' = CutOver(s)

(***************************************************************************)
(* The process ends, maybe while FAISS writes; what was going on fails.    *)
(***************************************************************************)
Crash ==
  /\ crashes < MaxCrashes
  /\ \E cut \in {None} \union {s \in Active : Faiss /\ phase[s] = "both" /\ Saves(s)} :
       /\ VCrash(cut)
       /\ cutOver' = IF cut = None THEN cutOver ELSE CutOver(cut)
  /\ excused' = excused \union TornAway
  /\ ICrash /\ FCrash
  /\ phase' = [s \in Sessions |-> IF s \in Active THEN "failed" ELSE phase[s]]
  /\ crashes' = crashes + 1 /\ overtaken' = {} /\ unread' = [s \in Sessions |-> {}]
  /\ job' = [s \in Sessions |-> [job[s] EXCEPT !.arg = None]]
  /\ UNCHANGED <<jobs, stored, erased, missed>>

Server == (WorkOff \/ Refresh) /\ UNCHANGED <<vvars, fvars, svars>>

Late(s) == LateLands(s) /\ UNCHANGED <<vvars, ivars, svars>>

Session(s) == \/ Open(s) \/ Insert(s) \/ InsertRaises(s) \/ IndexIt(s)
              \/ DeleteVectors(s) \/ DeleteHits(s) \/ DeleteRaises(s)
              \/ FileCall(s) \/ Close(s) \/ CloseFails(s)

StorageNext == (\E s \in Sessions : Session(s) \/ Late(s)) \/ Server \/ Crash
StorageSpec == StorageInit /\ [][StorageNext]_storageVars

(***************************************************************************)
(* Properties.                                                             *)
(***************************************************************************)

\* A document that its caller was told is stored is stored whole, and every open
\* session of a server finds it, unless it was deleted, shares a line with another
\* document (the store has one row for it), or was silently dropped by a ChromaDB
\* that health_check() calls unhealthy. Of FAISS it is lost only when a session
\* wrote the files that had read them before it was in them, when the write that
\* was to store it failed, or when a write was cut in one of the files.
StoredUnlessExcused ==
  \A f \in stored \ excused :
    \/ Shared(f)
    \/ IF Faiss THEN RowsOf(f) \subseteq Loaded.texts
       ELSE RowsOf(f) \subseteq rows /\ \A s \in vopen : RowsOf(f) \subseteq Found(s)

\* What initialize() reads of FAISS's files has a vector for every text, wherever
\* in its writes the process ended: the index is written before the texts, and a
\* torn file is not read. Only a session that did not know the files and is cut
\* between the two can leave more texts than vectors.
TextsHaveVectors ==
  cutOver \/ Loaded.vectors = None \/ Cardinality(Kept(Loaded.texts)) <= Loaded.vectors

\* Once the index's server has caught up, nothing is found of a document whose
\* deletion was made and that was not indexed again: Meilisearch works a deletion
\* off behind the writes before it, and Elasticsearch lets through only what it
\* had not seen yet when it counted.
DeletedStaysDeleted ==
  tasks = <<>> /\ unseen = <<>> =>
    \A r \in hits : r[2] \notin erased \ missed
=============================================================================
