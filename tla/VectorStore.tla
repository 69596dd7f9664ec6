----------------------------- MODULE VectorStore -----------------------------
(***************************************************************************)
(* The four vector stores a deployment chooses from (m2_storage/           *)
(* vector_store): ChromaDB, embedded; Qdrant and Milvus, servers; FAISS,   *)
(* an index in the memory of the process that is read from two files by    *)
(* initialize() and written back by close().                               *)
(*                                                                         *)
(* Each session has a store of its own. A chunk goes                       *)
(* by its id, a hash of its text, so equal lines of two documents are one  *)
(* chunk; what a store keeps of it is the file it came from. A row is      *)
(* <<chunk, file>>. Embeddings, scores and the order of hits are left out, *)
(* and so is how often Milvus keeps a row that is inserted twice.          *)
(***************************************************************************)
EXTENDS Managers, Naturals, Sequences, FiniteSets

CONSTANTS Files,     \* source_filename of the documents
          Chunks,    \* chunk ids
          Content,   \* the chunks of each file
          Repeats,   \* the files in which a line comes twice
          Stem,      \* the name of each file without its suffix
          QdrantIds, \* the chunk ids that Qdrant takes for a UUID
          NList,     \* nlist: the vectors that an IVF index is trained with
          Torn       \* a file of FAISS that was cut while it was written

DocNames == Files \union {Stem[f] : f \in Files}

ASSUME ContentAssumption == /\ Content \in [Files -> (SUBSET Chunks) \ {{}}]
                            /\ Repeats \subseteq Files
                            /\ QdrantIds \subseteq Chunks
                            /\ NList \in Nat \ {0}
                            /\ IsFiniteSet(Chunks)
                            /\ None \notin Files \union Chunks \union Nat
                            /\ Torn \notin Nat \union {None}
                            /\ \A R \in SUBSET (Chunks \X Files) : None /= R /\ Torn /= R

VARIABLES
  vb,     \* the backend: "chromadb", "qdrant", "milvus", or FAISS's "flat" or "ivf"
  vopen,  \* the sessions whose collection or client is set
  rows,   \* what ChromaDB, Qdrant or Milvus hold
  file,   \* FAISS on disk: [vectors, trained, texts], the two files None if not there
  mem     \* FAISS in the memory of each session

vvars == <<vb, vopen, rows, file, mem>>

(***************************************************************************)
(* Rows and indexes.                                                       *)
(***************************************************************************)
RowsOf(f)    == Content[f] \X {f}
Lines(f)     == Cardinality(Content[f]) + (IF f \in Repeats THEN 1 ELSE 0)
Kept(R)      == {r[1] : r \in R}
Without(R, C) == {r \in R : r[1] \notin C}

\* What an insert makes of the rows: add() of ChromaDB ignores an id it has,
\* an upsert takes the row over, and Milvus's insert only ever adds.
Added(R, f)    == R \union {r \in RowsOf(f) : r[1] \notin Kept(R)}
Upserted(R, f) == Without(R, Content[f]) \union RowsOf(f)

Faiss   == vb \in {"flat", "ivf"}
NoIndex == [vectors |-> None, trained |-> FALSE, texts |-> {}]

\* What initialize() makes of the files, if both are there: it raises at a torn
\* index, and at torn texts when it has the index.
HasIndex == file.vectors \notin {None, Torn} /\ file.texts /= None
\* (mutation) initialize() reads the index and forgets the texts.
LoadedIndexOnly == IF HasIndex THEN [file EXCEPT !.texts = {}] ELSE NoIndex
Loaded  == IF HasIndex THEN [file EXCEPT !.texts = IF @ = Torn THEN {} ELSE @] ELSE NoIndex

\* The index that an insert works on: the session's, or a new one, which an IVF
\* index trains with the first batch when that is large enough.
Working(s, f) ==
  IF mem[s].vectors /= None THEN mem[s]
  ELSE [vectors |-> 0, trained |-> vb = "flat" \/ Lines(f) >= NList, texts |-> {}]

\* What a session's search ranks. FAISS looks a hit up by its ordinal under the
\* chunk ids, and no chunk has an ordinal for its id.
ChromaSearch(s) == IF s \in vopen THEN rows ELSE {}
QdrantSearch(s) == {r \in rows : s \in vopen}
MilvusSearch(s) == {r \in rows : s \in vopen}
FaissSearch(s)  == {r \in mem[s].texts : r[1] \in Nat}

Found(s) == CASE vb = "chromadb" -> ChromaSearch(s)
              [] vb = "qdrant"   -> QdrantSearch(s)
              [] vb = "milvus"   -> MilvusSearch(s)
              [] OTHER           -> FaissSearch(s)

\* health_check(), of a server that answers. FAISS is content with its directory.
ChromaHealthy(s) == s \in vopen
QdrantHealthy(s) == s \in vopen
MilvusHealthy(s) == s \in vopen
FaissHealthy(s)  == mem[s].vectors /= None \/ s \in vopen

VHealthy(s) == CASE vb = "chromadb" -> ChromaHealthy(s)
                 [] vb = "qdrant"   -> QdrantHealthy(s)
                 [] vb = "milvus"   -> MilvusHealthy(s)
                 [] OTHER           -> FaissHealthy(s)

(***************************************************************************)
(* Types.                                                                  *)
(***************************************************************************)
Row   == Chunks \X Files
Index == [vectors : Nat \union {None}, trained : BOOLEAN, texts : SUBSET Row]
OnDisk == [vectors : Nat \union {None, Torn}, trained : BOOLEAN,
           texts : {None, Torn} \union SUBSET Row]
VTypeOK ==
  /\ vb \in {"chromadb", "qdrant", "milvus", "flat", "ivf"}
  /\ vopen \subseteq Sessions
  /\ rows \subseteq Row
  /\ file \in OnDisk
  /\ mem \in [Sessions -> Index]

VInit(b) == /\ vb = b
            /\ vopen = {} /\ rows = {}
            /\ file = [vectors |-> None, trained |-> FALSE, texts |-> None]
            /\ mem = [s \in Sessions |-> NoIndex]

(***************************************************************************)
(* initialize(), whose exceptions the manager logs. FAISS has its          *)
(* directory before it reads. A server that is not reached leaves the      *)
(* store closed, but for Qdrant's client, which is set before the          *)
(* collection is looked for.                                               *)
(***************************************************************************)
MayOpen(s) == vopen' \in {vopen, vopen \union {s}} /\ UNCHANGED mem

ChromaOpen(s) == vb = "chromadb" /\ MayOpen(s)
QdrantOpen(s) == vb = "qdrant" /\ MayOpen(s)
MilvusOpen(s) == vb = "milvus" /\ MayOpen(s)
FaissOpen(s)  == /\ Faiss
                 /\ mem' = [mem EXCEPT ![s] = Loaded]
                 /\ vopen' = vopen \union {s}

VOpen(s) == /\ ChromaOpen(s) \/ QdrantOpen(s) \/ MilvusOpen(s) \/ FaissOpen(s)
            /\ UNCHANGED <<vb, rows, file>>

(***************************************************************************)
(* insert(). A ChromaDB store that was not initialised returns at once, as *)
(* if it had stored the chunks; so long as it was, it refuses a batch with *)
(* an id that comes twice.                                                 *)
(***************************************************************************)
ChromaInsert(s, f) ==
  /\ vb = "chromadb"
  /\ s \in vopen => f \notin Repeats
  /\ rows' = IF s \in vopen THEN Added(rows, f) ELSE rows
  /\ UNCHANGED mem

QdrantInsert(s, f) ==
  /\ vb = "qdrant" /\ s \in vopen
  /\ Content[f] \subseteq QdrantIds
  /\ rows' = Upserted(rows, f)
  /\ UNCHANGED mem

MilvusInsert(s, f) ==
  /\ vb = "milvus" /\ s \in vopen
  /\ rows' = rows \union RowsOf(f)
  /\ UNCHANGED mem

FaissInsert(s, f) ==
  /\ Faiss /\ Working(s, f).trained
  /\ mem' = [mem EXCEPT ![s] = [vectors |-> Working(s, f).vectors + Lines(f),
                                trained |-> TRUE,
                                texts   |-> Upserted(Working(s, f).texts, f)]]
  /\ UNCHANGED rows

VInsert(s, f) ==
  /\ ChromaInsert(s, f) \/ QdrantInsert(s, f) \/ MilvusInsert(s, f) \/ FaissInsert(s, f)
  /\ UNCHANGED <<vb, vopen, file>>

\* insert() raises: ids that come twice, a server that was not reached or does
\* not answer now, ids that are no UUIDs, an index that was never trained.
Refused(s, f) ==
  \/ vb = "chromadb" /\ s \in vopen /\ f \in Repeats
  \/ vb \in {"qdrant", "milvus"}
  \/ Faiss /\ ~Working(s, f).trained

(***************************************************************************)
(* delete(). The argument is compared with the name without suffix by      *)
(* ChromaDB and with the file name by Qdrant and FAISS, which forgets the  *)
(* texts and keeps the vectors. Milvus's expression names a field that its *)
(* collection does not have: the exception is caught, and nothing deleted. *)
(***************************************************************************)
Stemmed(n) == {f \in Files : Stem[f] = n}
Of(R, F)   == {r \in R : r[2] \in F}

ChromaDelete(s, n) == /\ vb = "chromadb"
                      /\ rows' = IF s \in vopen THEN rows \ Of(rows, Stemmed(n)) ELSE rows
                      /\ UNCHANGED mem
QdrantDelete(s, n) == /\ vb = "qdrant"
                      /\ rows' = IF s \in vopen THEN rows \ Of(rows, {n}) ELSE rows
                      /\ UNCHANGED mem
MilvusDelete(s, n) == vb = "milvus" /\ UNCHANGED <<rows, mem>>
FaissDelete(s, n)  == /\ Faiss
                      /\ mem' = [mem EXCEPT ![s].texts = @ \ Of(@, {n})]
                      /\ UNCHANGED rows

VDelete(s, n) ==
  /\ ChromaDelete(s, n) \/ QdrantDelete(s, n) \/ MilvusDelete(s, n) \/ FaissDelete(s, n)
  /\ UNCHANGED <<vb, vopen, file>>

(***************************************************************************)
(* close(). FAISS writes the index, and then the texts, each over what was *)
(* there; nothing else runs in between, but the process can end anywhere,  *)
(* and a write can fail. The manager is gone then.                         *)
(***************************************************************************)
Saves(s)      == mem[s].vectors /= None
SavesAll(s)   == IF Saves(s) THEN mem[s] ELSE file
\* (mutation) close() writes the texts first.
SavesTexts(s) == [mem[s] EXCEPT !.vectors = file.vectors]
SavesIndex(s) == [mem[s] EXCEPT !.texts = file.texts]

\* What a close leaves that was cut: before or in the index, between the two files,
\* in the texts.
CutShort(s) == {file, [file EXCEPT !.vectors = Torn],
                SavesIndex(s), [mem[s] EXCEPT !.texts = Torn]}

Closes(s) == vopen' = vopen \ {s} /\ UNCHANGED <<file, mem>>

ChromaClose(s) == vb = "chromadb" /\ Closes(s)
QdrantClose(s) == vb = "qdrant" /\ Closes(s)
MilvusClose(s) == vb = "milvus" /\ Closes(s)
FaissGone(s)   == Faiss /\ vopen' = vopen \ {s} /\ mem' = [mem EXCEPT ![s] = NoIndex]
FaissClose(s)  == FaissGone(s) /\ file' = SavesAll(s)

VClose(s) == /\ ChromaClose(s) \/ QdrantClose(s) \/ MilvusClose(s) \/ FaissClose(s)
             /\ UNCHANGED <<vb, rows>>

VCloseFails(s) == FaissGone(s) /\ Saves(s) /\ file' \in CutShort(s) /\ UNCHANGED <<vb, rows>>

\* The process ends: between the calls, or while a session is in close().
VCrash(cut) ==
  /\ file' \in IF cut = None THEN {file} ELSE CutShort(cut)
  /\ vopen' = {} /\ mem' = [s \in Sessions |-> NoIndex]
  /\ UNCHANGED <<vb, rows>>
=============================================================================
