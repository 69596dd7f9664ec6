------------------------------ MODULE MCStorage ------------------------------
(***************************************************************************)
(* Storage on a small instance: a.pdf and a.doc have a name and a line in  *)
(* common, README has no suffix. The deployments pair each vector store    *)
(* with one full-text index, and two are used for their file store: of the *)
(* keys "a..b" and "a//b" LocalFS takes the first and MinIO the second,    *)
(* and a third key is the name of the first one's sidecar.                 *)
(***************************************************************************)
EXTENDS Storage, TLC

CONSTANTS dots, gap, dotsMeta, gapMeta, metaMeta
CONSTANTS aPdf, aDoc, readme, aStem, x, y, z

MCContent == aPdf :> {x, y} @@ aDoc :> {y} @@ readme :> {z}
MCStem    == aPdf :> aStem @@ aDoc :> aStem @@ readme :> readme
Documents(v, i) == [vector |-> v, index |-> i, files |-> "local", jobs |-> {"store", "delete"}]
UsedFor(f)      == [vector |-> "flat", index |-> "elasticsearch", files |-> f, jobs |-> FileOps]
MCDeployments == {Documents("chromadb", "elasticsearch"), Documents("qdrant", "meilisearch"),
                  Documents("milvus", "elasticsearch"), Documents("flat", "elasticsearch"),
                  Documents("ivf", "elasticsearch"), UsedFor("local"), UsedFor("minio")}
MCRejected == "local" :> {gap} @@ "minio" :> {dots, dotsMeta}
MCSidecar  == dots :> dotsMeta @@ gap :> gapMeta @@ dotsMeta :> metaMeta
Symmetry == Permutations(Sessions)
=============================================================================
