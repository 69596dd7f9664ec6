---------------------------- MODULE DocumentIndex ----------------------------
(***************************************************************************)
(* The two full-text indexes a deployment chooses from (m2_storage/        *)
(* document_index): Meilisearch, whose server answers a write with a task  *)
(* that it works off later, in order; Elasticsearch, where a write is      *)
(* stored at once and found after the next refresh.                        *)
(*                                                                         *)
(* The sessions, files and chunks are those of VectorStore. Queries,       *)
(* scores and mappings are left out.                                       *)
(***************************************************************************)
EXTENDS VectorStore

VARIABLES
  ib,       \* the backend: "meilisearch" or "elasticsearch"
  iopen,    \* what each session has: "no", a "client", or the "index" as well
  exists,   \* Meilisearch: the index was created
  fields,   \* Meilisearch: the filterable attributes were set
  tasks,    \* Meilisearch: the tasks the server has not worked off
  unseen,   \* Elasticsearch: files indexed since the last refresh, in order
  hits      \* the rows a search looks through

ivars == <<ib, iopen, exists, fields, tasks, unseen, hits>>

Create == [op |-> "create", arg |-> None]
Fields == [op |-> "fields", arg |-> None]
Task   == [op : {"add"}, arg : Files] \union [op : {"drop"}, arg : DocNames] \union {Create, Fields}

ITypeOK ==
  /\ ib \in {"meilisearch", "elasticsearch"}
  /\ iopen \in [Sessions -> {"no", "client", "index"}]
  /\ exists \in BOOLEAN /\ fields \in BOOLEAN
  /\ tasks \in Seq(Task)
  /\ unseen \in Seq(Files)
  /\ hits \subseteq Row

IInit(b) == /\ ib = b
            /\ iopen = [s \in Sessions |-> "no"]
            /\ exists = FALSE /\ fields = FALSE
            /\ tasks = <<>> /\ unseen = <<>> /\ hits = {}

\* Both compare delete()'s argument with the name without suffix.
Except(R, n) == R \ Of(R, Stemmed(n))

\* An id is indexed once, whichever file it came from last.
Latest(queue, i)    == {r \in RowsOf(queue[i]) :
                          \A j \in DOMAIN queue : r[1] \in Content[queue[j]] => j <= i}
Refreshed(R, queue) ==
  {r \in R : \A i \in DOMAIN queue : r[1] \notin Content[queue[i]]}
    \union UNION {Latest(queue, i) : i \in DOMAIN queue}

\* A hit to delete has been indexed again since the last refresh.
Conflicts(n) == \E r \in hits \ Except(hits, n) : \E i \in DOMAIN unseen : r[1] \in Content[unseen[i]]

(***************************************************************************)
(* initialize(). Meilisearch: an index that is not there yet is asked for  *)
(* and read back at once; unless the server has worked the task off by     *)
(* then, the session is left with a client and no index. Elasticsearch:    *)
(* the client is set before the server is asked.                           *)
(***************************************************************************)
MeiliOpen(s) ==
  /\ ib = "meilisearch"
  /\ \/ exists /\ iopen' = [iopen EXCEPT ![s] = "index"]
               /\ tasks' = Append(tasks, Fields)
               /\ UNCHANGED exists
     \/ ~exists /\ tasks = <<>>   \* the server is quick
                /\ iopen' = [iopen EXCEPT ![s] = "index"]
                /\ exists' = TRUE /\ tasks' = <<Fields>>
     \/ ~exists /\ iopen' = [iopen EXCEPT ![s] = "client"]
                /\ tasks' = Append(tasks, Create)
                /\ UNCHANGED exists
     \/ iopen' = [iopen EXCEPT ![s] = "client"] /\ UNCHANGED <<exists, tasks>>  \* no server
  /\ UNCHANGED <<ib, fields, unseen, hits>>

ElasticOpen(s) ==
  /\ ib = "elasticsearch"
  /\ iopen' = [iopen EXCEPT ![s] = "client"]
  /\ UNCHANGED <<ib, exists, fields, tasks, unseen, hits>>

IOpen(s) == MeiliOpen(s) \/ ElasticOpen(s)

(***************************************************************************)
(* index(). Without an index, Meilisearch's returns as if it had stored    *)
(* the chunks. A write that raises stores nothing, and its caller goes on. *)
(***************************************************************************)
MeiliIndex(s, f) ==
  /\ ib = "meilisearch"
  /\ tasks' = IF iopen[s] = "index" THEN Append(tasks, [op |-> "add", arg |-> f]) ELSE tasks
  /\ UNCHANGED unseen

ElasticIndex(s, f) ==
  /\ ib = "elasticsearch"
  /\ unseen' = IF iopen[s] = "client" THEN Append(unseen, f) ELSE unseen
  /\ UNCHANGED tasks

IIndex(s, f) ==
  /\ MeiliIndex(s, f) \/ ElasticIndex(s, f)
  /\ UNCHANGED <<ib, iopen, exists, fields, hits>>

(***************************************************************************)
(* delete(). Meilisearch counts by a filtered search, which fails until    *)
(* the attributes are filterable, and then asks for the deletion;          *)
(* Elasticsearch counts what a search would find, deletes by query if that *)
(* is anything, and refreshes.                                             *)
(***************************************************************************)
\* (mutation) nothing counted, nothing asked for.
MeiliDeleteCounted(s, n) ==
  /\ ib = "meilisearch"
  /\ iopen[s] = "index" => fields
  /\ tasks' = IF iopen[s] = "index" /\ Except(hits, n) /= hits
                THEN Append(tasks, [op |-> "drop", arg |-> n]) ELSE tasks
  /\ UNCHANGED <<unseen, hits>>
MeiliDelete(s, n) ==
  /\ ib = "meilisearch"
  /\ iopen[s] = "index" => fields
  /\ tasks' = IF iopen[s] = "index" THEN Append(tasks, [op |-> "drop", arg |-> n]) ELSE tasks
  /\ UNCHANGED <<unseen, hits>>

ElasticDelete(s, n) ==
  /\ ib = "elasticsearch" /\ ~Conflicts(n)
  /\ IF iopen[s] = "client" /\ Except(hits, n) /= hits
       THEN hits' = Refreshed(Except(hits, n), unseen) /\ unseen' = <<>>
       ELSE UNCHANGED <<hits, unseen>>
  /\ UNCHANGED tasks

IDelete(s, n) ==
  /\ MeiliDelete(s, n) \/ ElasticDelete(s, n)
  /\ UNCHANGED <<ib, iopen, exists, fields>>

\* delete() raises: the attributes are not filterable yet, or a version conflict.
IDeleteFails(s, n) == \/ iopen[s] = "index" /\ ~fields
                      \/ iopen[s] = "client" /\ ib = "elasticsearch" /\ Conflicts(n)

MeiliClose(s)   == ib = "meilisearch" /\ iopen' = [iopen EXCEPT ![s] = "no"]
ElasticClose(s) == ib = "elasticsearch" /\ iopen' = [iopen EXCEPT ![s] = "no"]
IClose(s) == /\ MeiliClose(s) \/ ElasticClose(s)
             /\ UNCHANGED <<ib, exists, fields, tasks, unseen, hits>>

ICrash == /\ iopen' = [s \in Sessions |-> "no"]
          /\ UNCHANGED <<ib, exists, fields, tasks, unseen, hits>>

(***************************************************************************)
(* The servers.                                                            *)
(***************************************************************************)
WorkOff ==
  /\ tasks /= <<>>
  /\ LET t == Head(tasks) IN
       /\ exists' = (exists \/ t.op = "create")
       /\ fields' = (fields \/ t.op = "fields")
       /\ hits' = CASE t.op = "add"  -> Upserted(hits, t.arg)
                    [] t.op = "drop" -> Except(hits, t.arg)
                    [] OTHER         -> hits
  /\ tasks' = Tail(tasks)
  /\ UNCHANGED <<ib, iopen, unseen>>

Refresh ==
  /\ unseen /= <<>>
  /\ hits' = Refreshed(hits, unseen) /\ unseen' = <<>>
  /\ UNCHANGED <<ib, iopen, exists, fields, tasks>>
=============================================================================
