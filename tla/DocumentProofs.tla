--------------------------- MODULE DocumentProofs ---------------------------
(***************************************************************************)
(* The way of a document, from the upload over its directory to the stores *)
(* that keep it: Ingestion, for every number of uploads, forms, commands   *)
(* and document names, and every time; and Storage, for every deployment,  *)
(* every set of sessions, documents, chunks and keys, and every number of  *)
(* deletions and crashes.                                                  *)
(***************************************************************************)
EXTENDS Ingestion, Storage, FiniteSetTheorems, TLAPS

Suffix(j) == dir[j][2]

\* A directory is created after it was chosen, by a name that then was free or
\* with the second of the choice.
Dated(j) ==
    /\ chosen[j] # Nil => chosen[j] <= now /\ dir[j] # Nil /\ Suffix(j) \in {Nil, chosen[j]}
    /\ dir[j] # Nil => chosen[j] # Nil
    /\ created[j] # Nil =>
          chosen[j] # Nil /\ chosen[j] <= created[j] /\ created[j] <= now /\ dir[j] \in dirs
    /\ stage[j] \in {"new", "reading"} => dir[j] = Nil /\ created[j] = Nil

\* Whoever shares a directory that exists has not chosen it afterwards.
ChosenBefore ==
    \A i, j \in Jobs :
        created[i] # Nil /\ chosen[j] # Nil /\ dir[i] = dir[j] => chosen[j] <= created[i]

\* A command has chosen its directory when it parses, has it when it writes, and
\* nobody else reports a success.
Commanded(j) ==
    /\ j \in Commands /\ stage[j] = "parsing" => dir[j] # Nil
    /\ j \in Commands /\ stage[j] = "writing" => created[j] # Nil
    /\ reply[j] = "success" => j \in Commands /\ stage[j] = "ended" /\ created[j] # Nil

CommandedInv == \A j \in Jobs : Commanded(j)

DirectoryInv == (\A j \in Jobs : Dated(j)) /\ ChosenBefore

-----------------------------------------------------------------------------
(***************************************************************************)
(* Types                                                                   *)
(***************************************************************************)
LEMMA IngestionTypeInit == Init => TypeOK
BY MaxTimeNat DEF Init, TypeOK, Times, Stages, Directories

\* Times are numbers, and so not Nil.
LEMMA Clock ==
    ASSUME TypeOK
    PROVE  /\ now \in Nat /\ now # Nil
           /\ \A j \in Jobs : chosen[j] # Nil => chosen[j] \in Nat
           /\ \A j \in Jobs : created[j] # Nil => created[j] \in Nat
<1>1. Times \subseteq Nat
  BY MaxTimeNat DEF Times
<1> QED  BY <1>1, NilIsNew DEF TypeOK

LEMMA ClockAdvances ==
    ASSUME TypeOK, Tick
    PROVE  now' \in Times /\ now' \in Nat /\ now <= now'
<1>1. now \in 0..MaxTime
  BY DEF TypeOK, Times
<1>2. now < MaxTime /\ now' = now + 1
  BY DEF Tick
<1> QED  BY <1>1, <1>2, MaxTimeNat DEF Times

LEMMA DirectoryType ==
    ASSUME TypeOK, NEW n \in Names
    PROVE  Directory(n) \in Directories
BY DEF TypeOK, Directory, Directories

LEMMA IngestionTypeNext ==
    ASSUME TypeOK, [Next]_vars
    PROVE  TypeOK'
<1> USE DEF TypeOK
<1>1. ASSUME NEW u \in Uploads, Upload(u) \/ Gateway(u)
      PROVE  TypeOK'
  BY <1>1 DEF Upload, Gateway, Post, Answer, Timeout, Finally, At, outputVars
<1>2. ASSUME NEW j \in Served, Receive(j) \/ SaveFails(j) \/ RejectPages(j)
      PROVE  TypeOK'
  <2>1. CASE Receive(j)
    BY <2>1 DEF Receive, Goto, outputVars, gatewayVars, Stages, Jobs
  <2>2. CASE SaveFails(j)
    BY <2>2 DEF SaveFails, Goto, outputVars, gatewayVars, Stages, Jobs
  <2>3. CASE RejectPages(j)
    BY <2>3 DEF RejectPages, Goto, outputVars, gatewayVars, Stages, Jobs
  <2> QED  BY <1>2, <2>1, <2>2, <2>3
<1>3. ASSUME NEW j \in Jobs, NEW n \in Names, Choose(j, n)
      PROVE  TypeOK'
  BY <1>3, DirectoryType DEF Choose, Goto, gatewayVars, Stages, Busy
<1>4. ASSUME NEW j \in Jobs,
             ChooseNone(j) \/ RouteElsewhere(j) \/ Fail(j) \/ Write(j) \/ StoreChunks(j)
      PROVE  TypeOK'
  BY <1>4 DEF ChooseNone, RouteElsewhere, Fail, Write, StoreChunks, End, Goto, gatewayVars,
              outputVars, Stages, Busy
<1>5. ASSUME NEW j \in Jobs, Parse(j)
      PROVE  TypeOK'
  BY <1>5 DEF Parse, Goto, gatewayVars, Stages, Busy
<1>6. ASSUME NEW j \in Jobs, Interrupt(j)
      PROVE  TypeOK'
  BY <1>6 DEF Interrupt, Lose, gatewayVars, outputVars, Stages
<1>7. CASE GatewayRestart
  BY <1>7 DEF GatewayRestart, outputVars
<1>8. CASE ParserDown \/ ParserStart
  BY <1>8 DEF ParserDown, ParserStart, Lose, gatewayVars, outputVars, Stages
<1>9. CASE Tick
  BY <1>9, ClockAdvances DEF Tick, gatewayVars, outputVars
<1>10. CASE UNCHANGED vars
  BY <1>10 DEF vars, gatewayVars, outputVars
<1> QED
  BY <1>1, <1>2, <1>3, <1>4, <1>5, <1>6, <1>7, <1>8, <1>9, <1>10 DEF Next, Convert

\* The state of the gateway, the web server, the commands and their files has its
\* types: in particular a directory's suffix is a time the clock shows.
THEOREM IngestionTyped == Spec => []TypeOK
BY IngestionTypeInit, IngestionTypeNext, PTL DEF Spec

-----------------------------------------------------------------------------
(***************************************************************************)
(* Temporary files                                                         *)
(***************************************************************************)
LEMMA TempsNext ==
    ASSUME TypeOK, TempsAreOwned, [Next]_vars
    PROVE  TempsAreOwned'
<1> USE DEF TypeOK, TempsAreOwned, Busy, Served, Jobs
<1>1. ASSUME NEW u \in Uploads, Upload(u) \/ Gateway(u)
      PROVE  TempsAreOwned'
  BY <1>1 DEF Upload, Gateway, Post, Answer, Timeout, Finally, At, outputVars
<1>2. ASSUME NEW j \in Served, Receive(j) \/ SaveFails(j) \/ RejectPages(j)
      PROVE  TempsAreOwned'
  BY <1>2 DEF Receive, SaveFails, RejectPages, Goto, gatewayVars
<1>3. ASSUME NEW j \in Jobs, NEW n \in Names, Choose(j, n)
      PROVE  TempsAreOwned'
  BY <1>3 DEF Choose, Goto, gatewayVars
<1>4. ASSUME NEW j \in Jobs,
             \/ ChooseNone(j) \/ RouteElsewhere(j) \/ Parse(j) \/ Fail(j) \/ Write(j)
             \/ StoreChunks(j)
      PROVE  TempsAreOwned'
  BY <1>4 DEF ChooseNone, RouteElsewhere, Parse, Fail, Write, StoreChunks, End, Goto,
              gatewayVars
<1>5. ASSUME NEW j \in Jobs, Interrupt(j)
      PROVE  TempsAreOwned'
  BY <1>5 DEF Interrupt, Lose, gatewayVars
<1>6. CASE GatewayRestart
  BY <1>6 DEF GatewayRestart
<1>7. CASE ParserDown \/ ParserStart
  BY <1>7 DEF ParserDown, ParserStart, Lose, gatewayVars
<1>8. CASE Tick \/ UNCHANGED vars
  BY <1>8 DEF Tick, vars, gatewayVars
<1> QED
  BY <1>1, <1>2, <1>3, <1>4, <1>5, <1>6, <1>7, <1>8 DEF Next, Convert

\* A temporary file of either server is there only while its handler runs, after
\* a process died or when a page count was rejected, whatever the other server,
\* the timeouts and the conversions do.
THEOREM TempsOwned == Spec => []TempsAreOwned
<1>1. Init => TempsAreOwned
  BY DEF Init, TempsAreOwned
<1> QED  BY <1>1, TempsNext, IngestionTyped, PTL DEF Spec

-----------------------------------------------------------------------------
(***************************************************************************)
(* Directories                                                             *)
(***************************************************************************)
LEMMA DirectoryInit == Init => DirectoryInv
BY DEF Init, DirectoryInv, Dated, ChosenBefore

LEMMA StillNow ==
    ASSUME TypeOK
    PROVE  now \in Nat /\ now <= now
BY Clock

\* A new choice is one nobody with a directory has made before this second.
LEMMA ChooseKeeps ==
    ASSUME TypeOK, DirectoryInv, NEW j \in Jobs, NEW n \in Names, Choose(j, n)
    PROVE  DirectoryInv'
<1> DEFINE d == Directory(n)
<1>1. /\ dir' = [dir EXCEPT ![j] = d]
      /\ chosen' = [chosen EXCEPT ![j] = now]
      /\ created' = created /\ dirs' = dirs /\ now' = now
      /\ stage' = [stage EXCEPT ![j] = "parsing"]
  BY DEF Choose, Goto
<1>2. stage[j] \in {"new", "reading"}
  BY DEF Choose, CanStart
<1>3. dir[j] = Nil /\ created[j] = Nil
  BY <1>2 DEF DirectoryInv, Dated
<1>4. d # Nil /\ d[2] \in {Nil, now}
  <2>1. d \in Names \X (Nat \cup {Nil})
    BY Clock DEF Directory
  <2> QED  BY <2>1, NilIsNew DEF Directory
<1>5. \A i \in Jobs : Dated(i)'
  <2>1. Dated(j)'
    <3>1. dir'[j] = d /\ chosen'[j] = now /\ created'[j] = Nil /\ stage'[j] = "parsing"
      BY <1>1, <1>3 DEF TypeOK
    <3> QED  BY <3>1, <1>1, <1>4, Clock, StillNow DEF Dated, Suffix
  <2>2. ASSUME NEW i \in Jobs, i # j
        PROVE  Dated(i)'
    <3>1. /\ dir'[i] = dir[i] /\ chosen'[i] = chosen[i] /\ created'[i] = created[i]
          /\ stage'[i] = stage[i]
      BY <1>1, <2>2 DEF TypeOK
    <3> QED  BY <1>1, <3>1 DEF DirectoryInv, Dated, Suffix
  <2> QED  BY <2>1, <2>2
<1>6. ASSUME NEW i \in Jobs, created[i] # Nil, dir[i] = d
      PROVE  now <= created[i]
  <2>1. /\ chosen[i] # Nil /\ chosen[i] <= created[i] /\ dir[i] \in dirs
        /\ Suffix(i) \in {Nil, chosen[i]}
    BY <1>6 DEF DirectoryInv, Dated
  <2>2. <<n, Nil>> \in dirs
    BY <2>1, <1>6 DEF Directory
  <2>3. d = <<n, now>> /\ now # Nil
    BY <2>2, Clock DEF Directory
  <2>4. chosen[i] = now
    BY <2>1, <2>3, <1>6 DEF Suffix
  <2> QED  BY <2>1, <2>4
<1>7. ChosenBefore'
  BY <1>1, <1>3, <1>6 DEF DirectoryInv, ChosenBefore, TypeOK
<1> QED  BY <1>5, <1>7 DEF DirectoryInv

LEMMA ParseKeeps ==
    ASSUME TypeOK, DirectoryInv, NEW j \in Jobs, Parse(j)
    PROVE  DirectoryInv'
<1>1. now' = now /\ chosen' = chosen /\ dir' = dir /\ stage' = [stage EXCEPT ![j] = "writing"]
  BY DEF Parse, Goto
<1>2. CASE dir[j] = Nil
  BY <1>1, <1>2 DEF Parse, DirectoryInv, Dated, Suffix, ChosenBefore, TypeOK
<1>3. CASE dir[j] # Nil
  <2>1. created' = [created EXCEPT ![j] = now] /\ dirs' = dirs \cup {dir[j]}
    BY <1>3 DEF Parse
  <2>2. chosen[j] # Nil /\ chosen[j] <= now
    BY <1>3 DEF DirectoryInv, Dated
  <2>3. \A i \in Jobs : Dated(i)'
    <3>1. Dated(j)'
      <4>1. created'[j] = now /\ stage'[j] = "writing"
        BY <1>1, <2>1 DEF TypeOK
      <4> QED  BY <1>1, <2>1, <2>2, <4>1, StillNow DEF DirectoryInv, Dated, Suffix
    <3>2. ASSUME NEW i \in Jobs, i # j
          PROVE  Dated(i)'
      <4>1. created'[i] = created[i] /\ stage'[i] = stage[i]
        BY <1>1, <2>1, <3>2 DEF TypeOK
      <4> QED  BY <1>1, <2>1, <4>1 DEF DirectoryInv, Dated, Suffix
    <3> QED  BY <3>1, <3>2
  <2>4. ChosenBefore'
    BY <1>1, <2>1 DEF DirectoryInv, Dated, ChosenBefore, TypeOK
  <2> QED  BY <2>3, <2>4 DEF DirectoryInv
<1> QED  BY <1>2, <1>3

\* Any other step leaves directories alone, and starts no conversion anew.
LEMMA OtherSteps ==
    ASSUME TypeOK, DirectoryInv, UNCHANGED outputVars, now' \in Nat, now <= now',
           \A j \in Jobs : stage'[j] \in {"new", "reading"} => stage[j] \in {"new", "reading"}
    PROVE  DirectoryInv'
<1>1. dir' = dir /\ chosen' = chosen /\ created' = created /\ dirs' = dirs
  BY DEF outputVars
<1>2. \A j \in Jobs : Dated(j)'
  <2> SUFFICES ASSUME NEW j \in Jobs
               PROVE  Dated(j)'
    OBVIOUS
  <2>1. Dated(j) /\ (stage'[j] \in {"new", "reading"} => stage[j] \in {"new", "reading"})
    BY DEF DirectoryInv
  <2>2. chosen[j] # Nil => chosen[j] \in Nat
    BY Clock
  <2>3. created[j] # Nil => created[j] \in Nat
    BY Clock
  <2>4. now \in Nat
    BY Clock
  <2>5. chosen[j] # Nil => chosen[j] <= now'
    BY <2>1, <2>2, <2>4 DEF Dated
  <2>6. created[j] # Nil => created[j] <= now'
    BY <2>1, <2>3, <2>4 DEF Dated
  <2> QED  BY <1>1, <2>1, <2>5, <2>6 DEF Dated, Suffix
<1>3. ChosenBefore'
  BY <1>1 DEF DirectoryInv, ChosenBefore
<1> QED  BY <1>2, <1>3 DEF DirectoryInv

LEMMA DirectoryNext ==
    ASSUME TypeOK, DirectoryInv, [Next]_vars
    PROVE  DirectoryInv'
<1>1. ASSUME NEW u \in Uploads, Upload(u) \/ Gateway(u)
      PROVE  DirectoryInv'
  BY <1>1, OtherSteps, StillNow DEF Upload, Gateway, Post, Answer, Timeout
<1>2. ASSUME NEW j \in Served, Receive(j) \/ SaveFails(j) \/ RejectPages(j)
      PROVE  DirectoryInv'
  <2>1. /\ UNCHANGED outputVars /\ now' = now
        /\ \A i \in Jobs : stage'[i] \in {"new", "reading"} => stage[i] \in {"new", "reading"}
    BY <1>2 DEF Receive, SaveFails, RejectPages, Goto, TypeOK, Served, Jobs
  <2> QED  BY <2>1, OtherSteps, StillNow
<1>3. ASSUME NEW j \in Jobs,
             ChooseNone(j) \/ RouteElsewhere(j) \/ Fail(j) \/ Write(j) \/ StoreChunks(j)
      PROVE  DirectoryInv'
  <2>1. /\ UNCHANGED outputVars /\ now' = now
        /\ \A i \in Jobs : stage'[i] \in {"new", "reading"} => stage[i] \in {"new", "reading"}
    BY <1>3 DEF ChooseNone, RouteElsewhere, Fail, Write, StoreChunks, End, Goto, TypeOK
  <2> QED  BY <2>1, OtherSteps, StillNow
<1>4. ASSUME NEW j \in Jobs, Interrupt(j)
      PROVE  DirectoryInv'
  BY <1>4, OtherSteps, StillNow DEF Interrupt, Lose
<1>5. CASE GatewayRestart \/ UNCHANGED vars
  BY <1>5, OtherSteps, StillNow DEF GatewayRestart, vars, outputVars
<1>6. CASE Tick
  BY <1>6, OtherSteps, ClockAdvances DEF Tick
<1>7. CASE ParserDown \/ ParserStart
  BY <1>7, OtherSteps, StillNow DEF ParserDown, ParserStart, Lose
<1> QED
  BY <1>1, <1>2, <1>3, <1>4, <1>5, <1>6, <1>7, ChooseKeeps, ParseKeeps DEF Next, Convert

\* Two documents share a directory only when their conversions overlapped to the
\* second: for every number of servers' requests and commands.
THEOREM DirectoriesShared == Spec => []SharedOnlyIfOverlapping
<1>1. TypeOK /\ DirectoryInv => SharedOnlyIfOverlapping
  BY DEF DirectoryInv, Dated, ChosenBefore, SharedOnlyIfOverlapping
<1> QED  BY <1>1, DirectoryInit, DirectoryNext, IngestionTyped, PTL DEF Spec

-----------------------------------------------------------------------------
LEMMA CommandedNext ==
    ASSUME TypeOK, DirectoryInv, CommandedInv, [Next]_vars
    PROVE  CommandedInv'
<1> SUFFICES ASSUME NEW i \in Jobs
             PROVE  Commanded(i)'
  BY DEF CommandedInv
<1>0. Commanded(i)
  BY DEF CommandedInv
<1> USE <1>0 DEF Commanded
<1>1. ASSUME NEW u \in Uploads, Upload(u) \/ Gateway(u)
      PROVE  Commanded(i)'
  BY <1>1 DEF Upload, Gateway, Post, Answer, Timeout, outputVars
<1>2. ASSUME NEW j \in Served, Receive(j) \/ SaveFails(j) \/ RejectPages(j)
      PROVE  Commanded(i)'
  BY <1>2 DEF Receive, SaveFails, RejectPages, Goto, outputVars, TypeOK, Served, Jobs
<1>3. ASSUME NEW j \in Jobs, NEW n \in Names, Choose(j, n)
      PROVE  Commanded(i)'
  <2>1. Directory(n) # Nil
    BY NilIsNew, Clock DEF Directory
  <2> QED  BY <1>3, <2>1 DEF Choose, CanStart, Goto, TypeOK
<1>4. ASSUME NEW j \in Jobs, ChooseNone(j)
      PROVE  Commanded(i)'
  BY <1>4, KindsDiffer DEF ChooseNone, CanStart, Goto, TypeOK, Served, outputVars
<1>5. ASSUME NEW j \in Jobs, RouteElsewhere(j) \/ Fail(j) \/ Write(j) \/ StoreChunks(j)
      PROVE  Commanded(i)'
  BY <1>5 DEF RouteElsewhere, Fail, Write, StoreChunks, End, Goto, TypeOK, outputVars
<1>6. ASSUME NEW j \in Jobs, Parse(j)
      PROVE  Commanded(i)'
  BY <1>6, Clock DEF Parse, Goto, TypeOK
<1>7. ASSUME NEW j \in Jobs, Interrupt(j)
      PROVE  Commanded(i)'
  BY <1>7 DEF Interrupt, Lose, InWork, Busy, outputVars
<1>8. CASE ParserDown
  BY <1>8, KindsDiffer DEF ParserDown, Lose, Pending, InWork, Served, Busy, outputVars
<1>9. CASE ParserStart \/ GatewayRestart \/ Tick \/ UNCHANGED vars
  BY <1>9 DEF ParserStart, Lose, GatewayRestart, Tick, vars, outputVars
<1> QED
  BY <1>1, <1>2, <1>3, <1>4, <1>5, <1>6, <1>7, <1>8, <1>9 DEF Next, Convert

\* A success is only ever reported of a document whose directory exists, whatever
\* fails or is interrupted, and whoever shares the output directory.
THEOREM SuccessesWritten == Spec => []SuccessMeansWritten
<1>1. Init => CommandedInv
  BY DEF Init, CommandedInv, Commanded
<1>2. DirectoryInv /\ CommandedInv => SuccessMeansWritten
  BY DEF DirectoryInv, Dated, CommandedInv, Commanded, SuccessMeansWritten
<1> QED  BY <1>1, <1>2, DirectoryInit, DirectoryNext, CommandedNext, IngestionTyped, PTL DEF Spec

-----------------------------------------------------------------------------
(***************************************************************************)
(* Types of the storage layer                                              *)
(***************************************************************************)
LEMMA LinesNat ==
    ASSUME NEW f \in Files
    PROVE  /\ IsFiniteSet(Content[f]) /\ Cardinality(Content[f]) \in Nat
           /\ Lines(f) \in Nat /\ Cardinality(Content[f]) <= Lines(f)
<1>1. Content[f] \subseteq Chunks
  BY ContentAssumption
<1>2. IsFiniteSet(Content[f])
  BY <1>1, ContentAssumption, FS_Subset
<1>3. Cardinality(Content[f]) \in Nat
  BY <1>2, FS_CardinalityType
<1> QED  BY <1>2, <1>3 DEF Lines

\* What an insert leaves of an index.
Inserted(s, f) == [vectors |-> Working(s, f).vectors + Lines(f), trained |-> TRUE,
                   texts |-> Upserted(Working(s, f).texts, f)]

LEMMA RowTypes ==
    /\ \A f \in Files : RowsOf(f) \subseteq Row
    /\ \A f \in Files, R \in SUBSET Row :
          Added(R, f) \subseteq Row /\ Upserted(R, f) \subseteq Row
BY ContentAssumption DEF RowsOf, Row, Added, Upserted, Without

LEMMA WorkingType ==
    ASSUME VTypeOK, NEW s \in Sessions, NEW f \in Files
    PROVE  /\ Working(s, f).vectors \in Nat /\ Working(s, f).texts \subseteq Row
           /\ Inserted(s, f) \in Index
<1>1. mem[s] \in Index
  BY DEF VTypeOK
<1>2. /\ mem[s].vectors \in Nat \union {None} /\ mem[s].texts \subseteq Row
  BY <1>1 DEF Index
<1>3. Working(s, f).vectors \in Nat /\ Working(s, f).texts \subseteq Row
  BY <1>2 DEF Working
<1>4. Upserted(Working(s, f).texts, f) \subseteq Row
  BY <1>3, RowTypes
<1>5. Working(s, f).vectors + Lines(f) \in Nat
  BY <1>3, LinesNat
<1> QED  BY <1>3, <1>4, <1>5 DEF Inserted, Index

\* FAISS in memory and on disk.
LEMMA IndexTypes ==
    /\ \A x \in Index : x \in OnDisk /\ [x EXCEPT !.texts = Torn] \in OnDisk
    /\ \A x \in OnDisk : [x EXCEPT !.vectors = Torn] \in OnDisk
    /\ \A x \in Index, y \in OnDisk : [x EXCEPT !.texts = y.texts] \in OnDisk
BY DEF OnDisk, Index

LEMMA NoIndexType == NoIndex \in Index
BY DEF NoIndex, Index

LEMMA LoadedType == ASSUME VTypeOK PROVE Loaded \in Index
<1>1. CASE HasIndex
  <2> DEFINE texts == IF file.texts = Torn THEN {} ELSE file.texts
  <2>1. Loaded = [file EXCEPT !.texts = texts]
    BY <1>1 DEF Loaded
  <2>2. texts \in SUBSET Row
    BY <1>1 DEF HasIndex, VTypeOK, OnDisk
  <2> HIDE DEF texts
  <2> QED  BY <1>1, <2>1, <2>2 DEF HasIndex, VTypeOK, OnDisk, Index
<1>2. CASE ~HasIndex
  BY <1>2, NoIndexType DEF Loaded
<1> QED  BY <1>1, <1>2

LEMMA VTypeOpen == ASSUME VTypeOK, NEW s \in Sessions, VOpen(s) PROVE VTypeOK'
<1>1. Loaded \in Index
  BY LoadedType
<1>2. CASE FaissOpen(s)
  BY <1>1, <1>2 DEF FaissOpen, VOpen, VTypeOK
<1>3. CASE ChromaOpen(s) \/ QdrantOpen(s) \/ MilvusOpen(s)
  BY <1>3 DEF ChromaOpen, QdrantOpen, MilvusOpen, MayOpen, VOpen, VTypeOK
<1> QED  BY <1>2, <1>3 DEF VOpen

LEMMA VTypeInsert ==
    ASSUME VTypeOK, NEW s \in Sessions, NEW f \in Files, VInsert(s, f) PROVE VTypeOK'
<1>1. /\ vb \in {"chromadb", "qdrant", "milvus", "flat", "ivf"} /\ vopen \subseteq Sessions
      /\ rows \subseteq Row /\ mem \in [Sessions -> Index] /\ UNCHANGED <<vb, vopen, file>>
  BY DEF VTypeOK, VInsert
<1>2. rows' \subseteq Row
  BY <1>1, RowTypes DEF VInsert, ChromaInsert, QdrantInsert, MilvusInsert, FaissInsert
<1>3. mem' = mem \/ mem' = [mem EXCEPT ![s] = Inserted(s, f)]
  BY DEF VInsert, ChromaInsert, QdrantInsert, MilvusInsert, FaissInsert, Inserted
<1>4. mem' \in [Sessions -> Index]
  BY <1>1, <1>3, WorkingType
<1> QED  BY <1>1, <1>2, <1>4 DEF VTypeOK

LEMMA VTypeDelete ==
    ASSUME VTypeOK, NEW s \in Sessions, NEW n, VDelete(s, n) PROVE VTypeOK'
<1>1. rows' \subseteq Row
  BY DEF VTypeOK, VDelete, ChromaDelete, QdrantDelete, MilvusDelete, FaissDelete
<1>2. ASSUME FaissDelete(s, n) PROVE mem' \in [Sessions -> Index]
  <2>1. mem[s] \in Index /\ mem \in [Sessions -> Index]
    BY DEF VTypeOK
  <2>2. [mem[s] EXCEPT !.texts = mem[s].texts \ Of(mem[s].texts, {n})] \in Index
    BY <2>1 DEF Index
  <2>3. mem' = [mem EXCEPT ![s] = [mem[s] EXCEPT !.texts = mem[s].texts \ Of(mem[s].texts, {n})]]
    BY <1>2, Zenon DEF FaissDelete
  <2> HIDE DEF FaissDelete
  <2> QED  BY <2>1, <2>2, <2>3
<1>3. ASSUME ChromaDelete(s, n) \/ QdrantDelete(s, n) \/ MilvusDelete(s, n)
      PROVE  mem' \in [Sessions -> Index]
  BY <1>3 DEF VTypeOK, ChromaDelete, QdrantDelete, MilvusDelete
<1>4. mem' \in [Sessions -> Index]
  BY <1>2, <1>3 DEF VDelete, VTypeOK
<1> QED  BY <1>1, <1>4 DEF VTypeOK, VDelete

LEMMA CutShortType ==
    ASSUME VTypeOK, NEW s \in Sessions PROVE CutShort(s) \subseteq OnDisk /\ SavesAll(s) \in OnDisk
<1>1. mem[s] \in Index /\ file \in OnDisk
  BY DEF VTypeOK
<1> QED  BY <1>1, IndexTypes DEF CutShort, SavesAll, SavesIndex

LEMMA VTypeClose ==
    ASSUME VTypeOK, NEW s \in Sessions, VClose(s) \/ VCloseFails(s) PROVE VTypeOK'
<1>1. CASE FaissGone(s)
  <2>1. mem' \in [Sessions -> Index]
    BY <1>1, NoIndexType DEF FaissGone, VTypeOK
  <2>2. file' \in OnDisk /\ UNCHANGED <<vb, rows>>
    BY <1>1, CutShortType
    DEF VClose, VCloseFails, FaissClose, FaissGone, Faiss, ChromaClose, QdrantClose, MilvusClose
  <2> QED  BY <1>1, <2>1, <2>2 DEF FaissGone, VTypeOK
<1>2. CASE ChromaClose(s) \/ QdrantClose(s) \/ MilvusClose(s)
  <2>1. UNCHANGED <<vb, rows>>
    BY DEF VClose, VCloseFails
  <2> QED  BY <1>2, <2>1 DEF ChromaClose, QdrantClose, MilvusClose, Closes, VTypeOK
<1> QED  BY <1>1, <1>2 DEF VClose, VCloseFails, FaissClose

LEMMA VTypeCrash ==
    ASSUME VTypeOK, NEW cut, cut = None \/ cut \in Sessions, VCrash(cut) PROVE VTypeOK'
<1>1. mem' \in [Sessions -> Index]
  BY NoIndexType DEF VCrash
<1>2. file' \in OnDisk
  BY CutShortType DEF VCrash, VTypeOK
<1> QED  BY <1>1, <1>2 DEF VCrash, VTypeOK

-----------------------------------------------------------------------------
\* The full-text index keeps its types.
LEMMA RefreshedType ==
    ASSUME NEW R \in SUBSET Row, NEW queue \in Seq(Files)
    PROVE  Refreshed(R, queue) \in SUBSET Row
<1>1. \A i \in DOMAIN queue : queue[i] \in Files
  OBVIOUS
<1>2. \A i \in DOMAIN queue : Latest(queue, i) \subseteq Row
  BY <1>1, RowTypes DEF Latest
<1> QED  BY <1>2 DEF Refreshed

LEMMA TaskTypes ==
    /\ Create \in Task /\ Fields \in Task
    /\ \A f \in Files : [op |-> "add", arg |-> f] \in Task
    /\ \A n \in DocNames : [op |-> "drop", arg |-> n] \in Task
    /\ \A t \in Task : t.op = "add" => t.arg \in Files
BY DEF Task, Create, Fields

LEMMA ITypeOpen == ASSUME ITypeOK, NEW s \in Sessions, IOpen(s) PROVE ITypeOK'
<1>1. CASE MeiliOpen(s)
  <2>1. \A t \in Task : Append(tasks, t) \in Seq(Task) /\ <<t>> \in Seq(Task)
    BY DEF ITypeOK
  <2>2. tasks' \in Seq(Task)
    BY <1>1, <2>1, TaskTypes DEF MeiliOpen, ITypeOK
  <2> QED  BY <1>1, <2>2 DEF MeiliOpen, ITypeOK
<1>2. CASE ElasticOpen(s)
  BY <1>2 DEF ElasticOpen, ITypeOK
<1> QED  BY <1>1, <1>2 DEF IOpen

LEMMA ITypeIndex ==
    ASSUME ITypeOK, NEW s \in Sessions, NEW f \in Files, IIndex(s, f) PROVE ITypeOK'
<1>1. Append(tasks, [op |-> "add", arg |-> f]) \in Seq(Task)
  BY TaskTypes DEF ITypeOK
<1>2. Append(unseen, f) \in Seq(Files)
  BY DEF ITypeOK
<1> QED  BY <1>1, <1>2 DEF IIndex, MeiliIndex, ElasticIndex, ITypeOK

LEMMA ITypeDelete ==
    ASSUME ITypeOK, NEW s \in Sessions, NEW n \in DocNames, IDelete(s, n) PROVE ITypeOK'
<1>1. Append(tasks, [op |-> "drop", arg |-> n]) \in Seq(Task)
  BY TaskTypes DEF ITypeOK
<1>2. Except(hits, n) \in SUBSET Row
  BY DEF Except, ITypeOK
<1>3. Refreshed(Except(hits, n), unseen) \subseteq Row /\ <<>> \in Seq(Files)
  BY <1>2, RefreshedType DEF ITypeOK
<1> QED  BY <1>1, <1>3 DEF IDelete, MeiliDelete, ElasticDelete, ITypeOK

LEMMA ITypeServers == ASSUME ITypeOK, WorkOff \/ Refresh PROVE ITypeOK'
<1>1. CASE WorkOff
  <2>1. Head(tasks) \in Task /\ Tail(tasks) \in Seq(Task)
    BY <1>1 DEF WorkOff, ITypeOK
  <2>2. /\ \A f \in Files : Upserted(hits, f) \subseteq Row
        /\ \A n : Except(hits, n) \subseteq Row
    BY RowTypes DEF Except, ITypeOK
  <2>3. hits' \subseteq Row
    BY <1>1, <2>1, <2>2, TaskTypes DEF WorkOff, ITypeOK
  <2>4. exists' \in BOOLEAN /\ fields' \in BOOLEAN
    BY <1>1 DEF WorkOff
  <2> QED  BY <1>1, <2>1, <2>3, <2>4 DEF WorkOff, ITypeOK
<1>2. CASE Refresh
  BY <1>2, RefreshedType DEF Refresh, ITypeOK
<1> QED  BY <1>1, <1>2

\* So does the file store.
LEMMA PathTypes ==
    /\ Probe \in Paths
    /\ \A k \in Keys : k \in Paths /\ Sidecar[k] \in Paths /\ Pair(k) \subseteq Paths
BY DEF Paths, Pair

LEMMA BytesType == \A s \in Sessions : Bytes(s) \subseteq Sessions \union {None, Part}
BY DEF Bytes

LEMMA LeavesType ==
    ASSUME FTypeOK, NEW s, NEW left \in Sessions \union {None, Unknown}, Leaves(s, left)
    PROVE  settled' \in [Paths -> Sessions \union {None, Unknown}]
BY DEF FTypeOK, Leaves

LEMMA DiskType ==
    ASSUME FTypeOK, NEW s \in Sessions, NEW k, NEW op, FCall(s, k, op),
           op \in FileOps \ {"list", "probe"} => k \in Keys
    PROVE  disk' \in [Paths -> Sessions \union {None, Part}]
<1>1. disk \in [Paths -> Sessions \union {None, Part}] /\ path[s] \in Paths
  BY DEF FTypeOK
<1>2. ASSUME NEW p, NEW v \in Sessions \union {None, Part}, Holds(p, v)
      PROVE  disk' \in [Paths -> Sessions \union {None, Part}]
  BY <1>1, <1>2 DEF Holds
<1>3. \/ UNCHANGED disk
      \/ \E p : \E v \in Sessions \union {None, Part} : Holds(p, v)
  BY BytesType
  DEF FCall, Local, Minio, PutOpens, OpenFails, PutWrites, SidecarOpens, WriteFails, GetStarts,
      GetReads, RemoveStarts, RemoveNothing, Unlinks, UnlinksNext, UnlinkFails, LocalList, LocalLink,
      ProbeWrites, ProbeRemoves, ProbeFails, PutSends, PutLands, Lands, PutFails, MinioGet,
      MinioRemove, MinioList, MinioLink, MinioHealth, Unsafe, Raises, Answers, Looks
<1> QED  BY <1>1, <1>2, <1>3

LEMMA SettledType ==
    ASSUME FTypeOK, NEW s \in Sessions, NEW k, NEW op, FCall(s, k, op)
    PROVE  settled' \in [Paths -> Sessions \union {None, Unknown}]
<1>1. settled \in [Paths -> Sessions \union {None, Unknown}]
  BY DEF FTypeOK
<1>2. ASSUME ProbeFails(s) PROVE settled' \in [Paths -> Sessions \union {None, Unknown}]
  BY <1>1, <1>2 DEF ProbeFails
<1>3. \/ UNCHANGED settled \/ ProbeFails(s)
      \/ \E left \in Sessions \union {None, Unknown} : Leaves(s, left)
  BY DEF FCall, Local, Minio, PutOpens, OpenFails, PutWrites, SidecarOpens, WriteFails, GetStarts,
      GetReads, RemoveStarts, RemoveNothing, Unlinks, UnlinksNext, UnlinkFails, LocalList, LocalLink,
      ProbeWrites, ProbeRemoves, PutSends, PutLands, Lands, PutFails, MinioGet,
      MinioRemove, MinioList, MinioLink, MinioHealth, Unsafe, Raises, Answers, Looks, Enters, GoesOn
<1> QED  BY <1>1, <1>2, <1>3, LeavesType

LEMMA WhereType ==
    ASSUME FTypeOK, NEW s \in Sessions, NEW k, NEW op, FCall(s, k, op),
           op \in FileOps \ {"list", "probe"} => k \in Keys, op \in FileOps
    PROVE  /\ at' \in [Sessions -> Ended \union Changing \union {"read"}]
           /\ path' \in [Sessions -> Paths] /\ under' \in [Sessions -> SUBSET Paths]
           /\ alone' \subseteq Sessions /\ refused' \subseteq Sessions
<1>1. /\ at \in [Sessions -> Ended \union Changing \union {"read"}]
      /\ path \in [Sessions -> Paths] /\ under \in [Sessions -> SUBSET Paths]
      /\ alone \subseteq Sessions /\ refused \subseteq Sessions
  BY DEF FTypeOK
<1>2. op \notin {"list", "probe"} => k \in Keys
  OBVIOUS
<1>3. \E a \in Ended \union Changing \union {"read"} : Comes(s, a) \/ Cuts(s, a)
  BY DEF Ended, Changing, FCall, Local, Minio, PutOpens, OpenFails, PutWrites, SidecarOpens,
      WriteFails, GetStarts,
      GetReads, RemoveStarts, RemoveNothing, Unlinks, UnlinksNext, UnlinkFails, LocalList, LocalLink,
      ProbeWrites, ProbeRemoves, ProbeFails, PutSends, PutLands, Lands, PutFails, MinioGet,
      MinioRemove, MinioList, MinioLink, MinioHealth, Unsafe, Raises, Answers, Looks
<1>4. at' \in [Sessions -> Ended \union Changing \union {"read"}]
  BY <1>1, <1>3 DEF Comes, Cuts, Ended, Changing
<1>5. UNCHANGED path \/ \E p \in Paths : Turns(s, p)
  BY <1>2, PathTypes
  DEF FCall, Local, Minio, PutOpens, OpenFails, PutWrites, SidecarOpens, WriteFails, GetStarts,
      GetReads, RemoveStarts, RemoveNothing, Unlinks, UnlinksNext, UnlinkFails, LocalList, LocalLink,
      ProbeWrites, ProbeRemoves, ProbeFails, PutSends, PutLands, Lands, PutFails, MinioGet,
      MinioRemove, MinioList, MinioLink, MinioHealth, Unsafe, Raises, Answers, Looks, Owned
<1>6. \/ UNCHANGED <<under, alone, refused>>
      \/ UNCHANGED <<under, alone>> /\ refused' = refused \union {s}
      \/ \E P \in SUBSET Paths : Enters(s, P)
  BY <1>2, PathTypes
  DEF FCall, Local, Minio, PutOpens, OpenFails, PutWrites, SidecarOpens, WriteFails, GetStarts,
      GetReads, RemoveStarts, RemoveNothing, Unlinks, UnlinksNext, UnlinkFails, LocalList, LocalLink,
      ProbeWrites, ProbeRemoves, ProbeFails, PutSends, PutLands, Lands, PutFails, MinioGet,
      MinioRemove, MinioList, MinioLink, MinioHealth, Unsafe, Raises, Answers, Looks, Owned, GoesOn
<1>7. path' \in [Sessions -> Paths]
  BY <1>1, <1>5 DEF Turns
<1>8. under' \in [Sessions -> SUBSET Paths] /\ alone' \subseteq Sessions /\ refused' \subseteq Sessions
  BY <1>1, <1>6 DEF Enters
<1> QED  BY <1>4, <1>7, <1>8

LEMMA FTypeCall ==
    ASSUME FTypeOK, NEW s \in Sessions, NEW k, NEW op, FCall(s, k, op),
           op \in FileOps \ {"list", "probe"} => k \in Keys, op \in FileOps
    PROVE  FTypeOK'
<1>1. UNCHANGED fwhere
  BY DEF FCall
<1> QED  BY <1>1, DiskType, SettledType, WhereType DEF FTypeOK, fwhere

LEMMA FTypeOthers ==
    ASSUME FTypeOK,
           \/ \E s \in Sessions : FOpen(s) \/ FClose(s)
           \/ \E s \in Sessions : LateLands(s)
           \/ FCrash
    PROVE  FTypeOK'
<1>1. ASSUME NEW s \in Sessions, FOpen(s) \/ FClose(s) PROVE FTypeOK'
  BY <1>1
  DEF FOpen, FClose, LocalOpen, MinioOpen, LocalClose, MinioClose, Attempted, FTypeOK, fcalls
<1>2. ASSUME NEW s \in Sessions, LateLands(s) PROVE FTypeOK'
  <2>1. disk' \in [Paths -> Sessions \union {None, Part}]
    BY <1>2 DEF LateLands, Lands, Holds, FTypeOK
  <2>2. settled' \in [Paths -> Sessions \union {None, Unknown}]
    BY <1>2, LeavesType DEF LateLands
  <2>3. at' \in [Sessions -> Ended \union Changing \union {"read"}]
    BY <1>2 DEF LateLands, Comes, Ended, FTypeOK
  <2> QED  BY <1>2, <2>1, <2>2, <2>3 DEF LateLands, Owned, FTypeOK, fwhere
<1>3. CASE FCrash
  <2>1. settled' \in [Paths -> Sessions \union {None, Unknown}]
    BY <1>3 DEF FCrash, FTypeOK
  <2>2. at' \in [Sessions -> Ended \union Changing \union {"read"}]
    BY <1>3 DEF FCrash, Ended, FTypeOK
  <2> QED  BY <1>3, <2>1, <2>2 DEF FCrash, FTypeOK
<1> QED  BY <1>1, <1>2, <1>3

-----------------------------------------------------------------------------
\* A call that is about a key has one.
KeysGiven ==
    \A s \in Sessions : phase[s] = "open" /\ job[s].op \in FileOps \ {"list", "probe"}
                       => job[s].arg \in Keys

TypeInv == StorageTypeOK /\ KeysGiven

LEMMA InitType == StorageInit => TypeInv
<1> SUFFICES ASSUME StorageInit PROVE TypeInv
  OBVIOUS
<1>1. PICK d \in Deployments :
        VInit(d.vector) /\ IInit(d.index) /\ FInit(d.files) /\ jobs = d.jobs
  BY DEF StorageInit
<1>2. /\ d.vector \in {"chromadb", "qdrant", "milvus", "flat", "ivf"}
      /\ d.index \in {"meilisearch", "elasticsearch"}
      /\ d.files \in {"local", "minio"} /\ d.jobs \subseteq JobKinds
  BY DeploymentsAssumption
<1>3. VTypeOK
  BY <1>1, <1>2, NoIndexType DEF VInit, VTypeOK, OnDisk
<1>4. ITypeOK
  <2>1. <<>> \in Seq(Task) /\ <<>> \in Seq(Files)
    OBVIOUS
  <2> QED  BY <1>1, <1>2, <2>1 DEF IInit, ITypeOK
<1>5. FTypeOK
  BY <1>1, <1>2, PathTypes DEF FInit, FTypeOK, Ended
<1>6. jobs \subseteq JobKinds
  BY <1>1, <1>2
<1>7. [op |-> "none", arg |-> None] \in Job
  BY DEF Job
<1>8. /\ phase = [s \in Sessions |-> "idle"]
      /\ job = [s \in Sessions |-> [op |-> "none", arg |-> None]] /\ crashes = 0
      /\ stored = {} /\ excused = {} /\ unread = [s \in Sessions |-> {}]
      /\ cutOver = FALSE /\ overtaken = {} /\ erased = {} /\ missed = {}
  BY DEF StorageInit
<1>9. KeysGiven
  BY <1>8 DEF KeysGiven
<1>10. /\ phase \in [Sessions -> Phases] /\ job \in [Sessions -> Job] /\ crashes \in 0..MaxCrashes
  BY <1>7, <1>8, BoundsAssumption DEF Phases
<1> QED
  BY <1>3, <1>4, <1>5, <1>6, <1>8, <1>9, <1>10 DEF TypeInv, StorageTypeOK

LEMMA JobTypes ==
    /\ \A f \in Files : f \in DocNames
    /\ \A op \in JobKinds, n \in {None} \union DocNames \union Keys :
          [op |-> op, arg |-> n] \in Job
    /\ \A x \in Job : [x EXCEPT !.arg = None] \in Job /\ [x EXCEPT !.arg = None].op = x.op
    /\ FileOps \subseteq JobKinds /\ "store" \in JobKinds /\ "delete" \in JobKinds
BY DEF Job, DocNames, JobKinds

LEMMA OpenType == ASSUME TypeInv, NEW s \in Sessions, Open(s) PROVE TypeInv'
<1> USE DEF TypeInv, StorageTypeOK
<1>1. PICK op \in JobKinds, n \in {None} \union DocNames \union Keys :
        /\ job' = [job EXCEPT ![s] = [op |-> op, arg |-> n]]
        /\ op \in FileOps \ {"list", "probe"} => n \in Keys
  BY JobTypes DEF Open, Assigned, JobKinds, FileOps
<1>2. /\ phase' = [phase EXCEPT ![s] = "open"] /\ phase \in [Sessions -> Phases]
      /\ job \in [Sessions -> Job]
  BY DEF Open, Goes
<1>3. job' \in [Sessions -> Job] /\ phase' \in [Sessions -> Phases]
  BY <1>1, <1>2, JobTypes DEF Phases
<1>4. job'[s].op = op /\ job'[s].arg = n /\ \A t \in Sessions \ {s} : job'[t] = job[t]
  BY <1>1, <1>2
<1>5. KeysGiven'
  BY <1>1, <1>2, <1>4 DEF KeysGiven
<1>6. VTypeOK' /\ ITypeOK' /\ FTypeOK'
  BY VTypeOpen, ITypeOpen, FTypeOthers DEF Open
<1> QED  BY <1>3, <1>5, <1>6 DEF Open

LEMMA PhaseType ==
    ASSUME TypeInv, NEW s \in Sessions, NEW t \in Phases, Goes(s, t),
           t = "open" => phase[s] = "open", job' = job
    PROVE  phase' \in [Sessions -> Phases] /\ KeysGiven'
BY DEF TypeInv, StorageTypeOK, Goes, KeysGiven

LEMMA CallType == ASSUME TypeInv, NEW s \in Sessions, FileCall(s) PROVE TypeInv'
<1> USE DEF TypeInv, StorageTypeOK
<1>1. FTypeOK'
  BY FTypeCall DEF FileCall, shist, KeysGiven
<1>2. \E t \in {"open", "both", "failed"} : Goes(s, t)
  BY DEF FileCall, shist
<1>3. phase' \in [Sessions -> Phases] /\ KeysGiven'
  BY <1>2, PhaseType DEF FileCall, shist, Phases
<1> QED  BY <1>1, <1>3 DEF FileCall, shist, vvars, ivars, VTypeOK, ITypeOK

LEMMA StoreType ==
    ASSUME TypeInv, NEW s \in Sessions, Insert(s) \/ InsertRaises(s) \/ IndexIt(s)
    PROVE  TypeInv'
<1> USE DEF TypeInv, StorageTypeOK
<1>1. PICK f \in Files :
        /\ VInsert(s, f) \/ UNCHANGED vvars
        /\ IIndex(s, f) \/ UNCHANGED ivars
        /\ excused' \subseteq excused \union {f}
        /\ erased' \subseteq erased /\ missed' \subseteq missed
  BY DEF Insert, InsertRaises, shist, IndexIt
<1>2. VTypeOK'
  <2>1. CASE UNCHANGED vvars
    BY <2>1 DEF vvars, VTypeOK
  <2> QED  BY <1>1, <2>1, VTypeInsert
<1>3. ITypeOK'
  <2>1. CASE UNCHANGED ivars
    BY <2>1 DEF ivars, ITypeOK
  <2> QED  BY <1>1, <2>1, ITypeIndex
<1>4. FTypeOK'
  BY DEF Insert, InsertRaises, shist, IndexIt, fvars, fcalls, FTypeOK
<1>5. phase' \in [Sessions -> Phases] /\ KeysGiven'
  BY PhaseType DEF Insert, InsertRaises, shist, IndexIt, Phases
<1> QED  BY <1>1, <1>2, <1>3, <1>4, <1>5 DEF Insert, InsertRaises, shist, IndexIt

LEMMA DeleteType ==
    ASSUME TypeInv, NEW s \in Sessions, DeleteVectors(s) \/ DeleteHits(s) \/ DeleteRaises(s)
    PROVE  TypeInv'
<1> USE DEF TypeInv, StorageTypeOK
<1>1. PICK n \in DocNames :
        /\ VDelete(s, n) \/ UNCHANGED vvars
        /\ IDelete(s, n) \/ UNCHANGED ivars
        /\ excused' = excused \/ excused' = excused \union Deleted(n)
        /\ erased' \subseteq erased \union Stemmed(n) /\ missed' \subseteq missed \union Stemmed(n)
  BY DEF DeleteVectors, DeleteHits, DeleteRaises, shist
<1>2. VTypeOK'
  <2>1. CASE UNCHANGED vvars
    BY <2>1 DEF vvars, VTypeOK
  <2> QED  BY <1>1, <2>1, VTypeDelete
<1>3. ITypeOK'
  <2>1. CASE UNCHANGED ivars
    BY <2>1 DEF ivars, ITypeOK
  <2> QED  BY <1>1, <2>1, ITypeDelete
<1>4. FTypeOK'
  BY DEF DeleteVectors, DeleteHits, DeleteRaises, shist, fvars, fcalls, FTypeOK
<1>5. phase' \in [Sessions -> Phases] /\ KeysGiven'
  BY PhaseType DEF DeleteVectors, DeleteHits, DeleteRaises, shist, Phases
<1>6. Stemmed(n) \subseteq Files /\ Deleted(n) \subseteq Files
  BY DEF Stemmed, Deleted
<1> QED  BY <1>1, <1>2, <1>3, <1>4, <1>5, <1>6 DEF DeleteVectors, DeleteHits, DeleteRaises, shist

LEMMA CloseType == ASSUME TypeInv, NEW s \in Sessions, Close(s) \/ CloseFails(s) PROVE TypeInv'
<1> USE DEF TypeInv, StorageTypeOK
<1>1. Closing(s)
  BY DEF Close, CloseFails
<1>2. VTypeOK' /\ FTypeOK'
  BY <1>1, VTypeClose, FTypeOthers DEF Close, CloseFails, Closing
<1>3. ITypeOK'
  BY <1>1 DEF Closing, IClose, MeiliClose, ElasticClose, ITypeOK
<1>4. /\ phase' = [phase EXCEPT ![s] = "done"] /\ phase \in [Sessions -> Phases]
      /\ job \in [Sessions -> Job]
  BY <1>1 DEF Closing, Goes
<1>5. job' = [job EXCEPT ![s] = [job[s] EXCEPT !.arg = None]]
  BY <1>1, Zenon DEF Closing
<1>6. job' \in [Sessions -> Job] /\ phase' \in [Sessions -> Phases]
  BY <1>4, <1>5, JobTypes DEF Phases
<1>7. KeysGiven'
  BY <1>4, <1>5 DEF KeysGiven
<1>8. /\ unread' \in [Sessions -> SUBSET Files] /\ excused' \subseteq Files
      /\ cutOver' \in BOOLEAN
  BY DEF Close, CloseFails, CutOver, TornAway, Written, Active
<1>9. stored' \subseteq Files /\ overtaken' \subseteq Sessions /\ UNCHANGED <<jobs, crashes, erased, missed>>
  BY <1>1 DEF Closing, Written, Active
<1> QED  BY <1>2, <1>3, <1>6, <1>7, <1>8, <1>9

LEMMA CrashType == ASSUME TypeInv, Crash PROVE TypeInv'
<1> USE DEF TypeInv, StorageTypeOK
<1>1. PICK cut \in {None} \union Sessions :
        /\ VCrash(cut)
        /\ cutOver' = IF cut = None THEN cutOver ELSE CutOver(cut)
  BY DEF Crash, Active
<1>2. VTypeOK' /\ FTypeOK'
  BY <1>1, VTypeCrash, FTypeOthers DEF Crash
<1>3. ITypeOK'
  BY DEF Crash, ICrash, ITypeOK
<1>4. job' \in [Sessions -> Job]
  BY JobTypes DEF Crash
<1>5. phase' \in [Sessions -> Phases]
  BY DEF Crash, Phases
<1>6. KeysGiven'
  BY DEF Crash, KeysGiven, Active
<1>7. crashes' \in 0..MaxCrashes /\ cutOver' \in BOOLEAN
  <2>1. crashes' \in 0..MaxCrashes
    BY BoundsAssumption DEF Crash
  <2>2. cutOver' \in BOOLEAN
    BY <1>1 DEF CutOver
  <2> QED  BY <2>1, <2>2
<1>8. excused' \subseteq Files
  BY DEF Crash, TornAway
<1> QED  BY <1>2, <1>3, <1>4, <1>5, <1>6, <1>7, <1>8 DEF Crash

LEMMA NextType == TypeInv /\ [StorageNext]_storageVars => TypeInv'
<1> SUFFICES ASSUME TypeInv, [StorageNext]_storageVars PROVE TypeInv'
  OBVIOUS
<1>1. ASSUME NEW s \in Sessions, Session(s) PROVE TypeInv'
  BY <1>1, OpenType, CallType, StoreType, DeleteType, CloseType DEF Session
<1>2. ASSUME NEW s \in Sessions, Late(s) PROVE TypeInv'
  BY <1>2, FTypeOthers
  DEF Late, TypeInv, StorageTypeOK, KeysGiven, vvars, ivars, svars, shist, VTypeOK, ITypeOK
<1>3. CASE Server
  BY <1>3, ITypeServers
  DEF Server, TypeInv, StorageTypeOK, KeysGiven, vvars, fvars, fcalls, svars, shist, VTypeOK, FTypeOK
<1>4. CASE Crash
  BY <1>4, CrashType
<1>5. CASE UNCHANGED storageVars
  BY <1>5
  DEF storageVars, TypeInv, StorageTypeOK, KeysGiven, vvars, ivars, fvars, fcalls, svars, shist, VTypeOK,
      ITypeOK, FTypeOK
<1> QED  BY <1>1, <1>2, <1>3, <1>4, <1>5 DEF StorageNext

\* The stores, their sessions and what is recorded of them have their types, for
\* every set of sessions, documents, chunks, keys and deployments.
THEOREM StorageTyped == StorageSpec => []StorageTypeOK
<1>1. TypeInv => StorageTypeOK
  BY DEF TypeInv
<1> QED  BY <1>1, InitType, NextType, PTL DEF StorageSpec

-----------------------------------------------------------------------------
(***************************************************************************)
(* FAISS has a vector for every text                                       *)
(***************************************************************************)
Enough(texts, vectors) == Cardinality(Kept(texts)) <= vectors

\* A session has an index, or nothing of one.
MemKnows(s) == IF mem[s].vectors = None THEN mem[s] = NoIndex
               ELSE cutOver \/ Enough(mem[s].texts, mem[s].vectors)

\* A session that nobody has overtaken has a vector for every text on disk too: a
\* cut between the two files leaves its vectors and the texts that were there.
TextsWhole == file.texts \notin {None, Torn}
Abreast(s) == TextsWhole => mem[s].vectors /= None /\ Enough(file.texts, mem[s].vectors)

FileKnown == file.texts /= None => file.vectors /= None

VectorsInv ==
    /\ \A s \in Sessions : MemKnows(s)
    /\ Faiss /\ ~cutOver => \A s \in Active \ overtaken : Abreast(s)
    /\ FileKnown /\ TextsHaveVectors

LEMMA KeptFinite ==
    ASSUME NEW R \in SUBSET Row
    PROVE  /\ IsFiniteSet(Kept(R)) /\ Cardinality(Kept(R)) \in Nat
           /\ \A T \in SUBSET R : Cardinality(Kept(T)) <= Cardinality(Kept(R))
<1>1. Kept(R) \subseteq Chunks
  BY DEF Kept, Row
<1>2. IsFiniteSet(Kept(R))
  BY <1>1, ContentAssumption, FS_Subset
<1>3. ASSUME NEW T \in SUBSET R PROVE Cardinality(Kept(T)) <= Cardinality(Kept(R))
  <2>1. Kept(T) \in SUBSET Kept(R)
    BY DEF Kept
  <2> QED  BY <1>2, <2>1, FS_Subset
<1> QED  BY <1>2, <1>3, FS_CardinalityType

\* A document brings at least as many vectors as it has chunks.
LEMMA InsertEnough ==
    ASSUME NEW R \in SUBSET Row, NEW v \in Nat, NEW f \in Files, Enough(R, v)
    PROVE  Enough(Upserted(R, f), v + Lines(f))
<1>1. Kept(Upserted(R, f)) \in SUBSET (Kept(R) \cup Content[f])
  BY DEF Kept, Upserted, Without, RowsOf
<1>2. /\ IsFiniteSet(Kept(R) \cup Content[f])
      /\ Cardinality(Kept(R) \cup Content[f]) <= Cardinality(Kept(R)) + Cardinality(Content[f])
  <2>1. IsFiniteSet(Kept(R)) /\ IsFiniteSet(Content[f])
    BY KeptFinite, LinesNat
  <2>2. Cardinality(Kept(R) \cap Content[f]) \in Nat
    BY <2>1, FS_Intersection, FS_CardinalityType
  <2>3. Cardinality(Kept(R)) \in Nat /\ Cardinality(Content[f]) \in Nat
    BY <2>1, FS_CardinalityType
  <2>4. /\ IsFiniteSet(Kept(R) \cup Content[f])
        /\ Cardinality(Kept(R) \cup Content[f])
             = Cardinality(Kept(R)) + Cardinality(Content[f]) - Cardinality(Kept(R) \cap Content[f])
    BY <2>1, FS_Union
  <2> QED  BY <2>2, <2>3, <2>4
<1>3. /\ Cardinality(Kept(Upserted(R, f))) <= Cardinality(Kept(R) \cup Content[f])
      /\ Cardinality(Kept(Upserted(R, f))) \in Nat
      /\ Cardinality(Kept(R) \cup Content[f]) \in Nat
  BY <1>1, <1>2, FS_Subset, FS_CardinalityType
<1>4. Cardinality(Kept(R)) \in Nat /\ Cardinality(Content[f]) \in Nat
      /\ Lines(f) \in Nat /\ Cardinality(Content[f]) <= Lines(f)
  BY KeptFinite, LinesNat
<1> QED  BY <1>2, <1>3, <1>4 DEF Enough

LEMMA NothingEnough == ASSUME NEW v \in Nat PROVE Enough({}, v)
<1>1. Kept({}) = {}
  BY DEF Kept
<1>2. Cardinality({}) = 0
  BY FS_EmptySet
<1> QED  BY <1>1, <1>2 DEF Enough

\* What initialize() reads.
LEMMA LoadedIs ==
    ASSUME VTypeOK
    PROVE  /\ ~HasIndex => Loaded = NoIndex
           /\ HasIndex => Loaded.vectors = file.vectors /\ file.vectors \in Nat
           /\ HasIndex /\ TextsWhole => Loaded.texts = file.texts
           /\ TextsWhole => file.texts \in SUBSET Row
           /\ Loaded.vectors = None => Loaded = NoIndex
<1>1. file \in OnDisk
  BY DEF VTypeOK
<1>2. CASE HasIndex
  <2> DEFINE texts == IF file.texts = Torn THEN {} ELSE file.texts
  <2>1. Loaded = [file EXCEPT !.texts = texts]
    BY <1>2 DEF Loaded
  <2>2. Loaded.vectors = file.vectors /\ Loaded.texts = texts
    BY <1>1, <2>1 DEF OnDisk
  <2>3. file.vectors \in Nat /\ file.vectors /= None
    BY <1>1, <1>2 DEF HasIndex, OnDisk
  <2> QED  BY <1>1, <1>2, <2>2, <2>3 DEF TextsWhole, OnDisk
<1>3. CASE ~HasIndex
  BY <1>1, <1>3 DEF Loaded, TextsWhole, OnDisk
<1> QED  BY <1>2, <1>3

LEMMA EnoughThen ==
    ASSUME VTypeOK', HasIndex' /\ TextsWhole' /\ ~cutOver' => Enough(file'.texts, file'.vectors)
    PROVE  TextsHaveVectors'
<1>1. file' \in OnDisk
  BY DEF VTypeOK
<1>2. CASE HasIndex'
  <2> DEFINE texts == IF file'.texts = Torn THEN {} ELSE file'.texts
  <2>1. Loaded' = [file' EXCEPT !.texts = texts]
    BY <1>2 DEF Loaded
  <2>2. Loaded'.vectors = file'.vectors /\ Loaded'.texts = texts
    BY <1>1, <2>1 DEF OnDisk
  <2>3. file'.vectors \in Nat /\ file'.texts /= None
    BY <1>1, <1>2 DEF HasIndex, OnDisk
  <2>4. CASE file'.texts = Torn
    BY <2>2, <2>3, <2>4, NothingEnough DEF Enough, TextsHaveVectors
  <2>5. CASE file'.texts /= Torn
    <3>1. cutOver' \/ Enough(file'.texts, file'.vectors)
      BY <1>2, <2>3, <2>5 DEF TextsWhole
    <3> QED  BY <2>2, <2>5, <3>1 DEF Enough, TextsHaveVectors
  <2> QED  BY <2>4, <2>5
<1>3. CASE ~HasIndex'
  <2>1. Loaded' = NoIndex
    BY <1>3 DEF Loaded, NoIndex
  <2> QED  BY <2>1 DEF TextsHaveVectors, NoIndex
<1> QED  BY <1>2, <1>3

\* The backend stays the one that was configured.
LEMMA SameBackend ==
    ASSUME [StorageNext]_storageVars
    PROVE  /\ vb' = vb /\ Faiss' = Faiss /\ \A f : Shared(f)' = Shared(f)
           /\ ib' = ib
<1>1. vb' = vb
  BY DEF StorageNext, Session, Open, FileCall, shist, Insert, InsertRaises, IndexIt, DeleteVectors,
     DeleteHits, DeleteRaises, Close, CloseFails, Late, Server, Crash, storageVars, vvars, VOpen, VInsert,
     VDelete, VClose, VCloseFails, VCrash, Closing
<1>2. ib' = ib
  BY DEF StorageNext, Session, Open, FileCall, shist, Insert, InsertRaises, IndexIt, DeleteVectors,
     DeleteHits, DeleteRaises, Close, CloseFails, Late, Server, Crash, storageVars, ivars, IOpen, MeiliOpen,
     ElasticOpen, IIndex, IDelete, IClose, ICrash, WorkOff, Refresh, Closing
<1> QED  BY <1>1, <1>2 DEF Faiss, Shared

LEMMA VectorsFrame ==
    ASSUME VectorsInv, UNCHANGED <<vb, file, mem, overtaken, cutOver>>, Active' \subseteq Active
    PROVE  VectorsInv'
<1>1. \A s \in Sessions : MemKnows(s)' = MemKnows(s)
  BY DEF MemKnows
<1>2. \A s \in Sessions : Abreast(s)' = Abreast(s)
  BY DEF Abreast, TextsWhole
<1>3. Loaded' = Loaded
  BY DEF Loaded, HasIndex, NoIndex
<1>4. FileKnown' /\ TextsHaveVectors' /\ Faiss' = Faiss
  BY <1>3 DEF VectorsInv, FileKnown, TextsHaveVectors, Faiss
<1>5. Active \subseteq Sessions
  BY DEF Active
<1> QED  BY <1>1, <1>2, <1>4, <1>5 DEF VectorsInv

\* One session's index changes, for one with enough vectors.
LEMMA VectorsOf ==
    ASSUME VectorsInv, StorageTypeOK, NEW s \in Sessions, NEW x \in Index,
           mem' = [mem EXCEPT ![s] = x], UNCHANGED <<vb, file, cutOver>>,
           x.vectors = None => x = NoIndex,
           x.vectors /= None /\ ~cutOver => Enough(x.texts, x.vectors),
           Active' \subseteq Active \union {s}, overtaken \subseteq overtaken',
           Faiss /\ ~cutOver /\ s \notin overtaken' /\ s \in Active' /\ TextsWhole
             => x.vectors /= None /\ Enough(file.texts, x.vectors)
    PROVE  VectorsInv'
<1>1. mem'[s] = x /\ \A t \in Sessions \ {s} : mem'[t] = mem[t]
  BY DEF StorageTypeOK, VTypeOK
<1>2. \A t \in Sessions : MemKnows(t)'
  <2>1. MemKnows(s)'
    BY <1>1 DEF MemKnows
  <2>2. \A t \in Sessions \ {s} : MemKnows(t)'
    BY <1>1 DEF VectorsInv, MemKnows
  <2> QED  BY <2>1, <2>2
<1>3. Faiss' /\ ~cutOver' => \A t \in Active' \ overtaken' : Abreast(t)'
  <2> SUFFICES ASSUME Faiss', ~cutOver', NEW t \in Active' \ overtaken' PROVE Abreast(t)'
    OBVIOUS
  <2>1. Faiss /\ ~cutOver /\ t \notin overtaken /\ t \in Sessions
    BY DEF Faiss, Active
  <2>2. CASE t = s
    BY <1>1, <2>1, <2>2 DEF Abreast, TextsWhole
  <2>3. CASE t /= s
    <3>1. Abreast(t)
      BY <2>1, <2>3 DEF VectorsInv
    <3> QED  BY <1>1, <2>1, <2>3, <3>1 DEF Abreast, TextsWhole
  <2> QED  BY <2>2, <2>3
<1>4. Loaded' = Loaded
  BY DEF Loaded, HasIndex, NoIndex
<1> QED  BY <1>2, <1>3, <1>4 DEF VectorsInv, FileKnown, TextsHaveVectors

LEMMA OpenVectors ==
    ASSUME VectorsInv, TypeInv, NEW s \in Sessions, Open(s) PROVE VectorsInv'
<1>1. Active' \subseteq Active \union {s}
  BY DEF Open, Goes, Active, TypeInv, StorageTypeOK
<1>2. /\ UNCHANGED <<vb, file, cutOver>> /\ overtaken \subseteq overtaken'
      /\ Faiss /\ file.vectors = Torn => s \in overtaken'
      /\ ~Faiss => overtaken' = overtaken
  BY DEF Open, VOpen
<1>3. CASE FaissOpen(s)
  <2>1. VTypeOK /\ StorageTypeOK
    BY DEF TypeInv, StorageTypeOK
  <2>2. Loaded \in Index /\ mem' = [mem EXCEPT ![s] = Loaded]
    BY <1>3, <2>1, LoadedType DEF FaissOpen
  <2>3. Loaded.vectors = None => Loaded = NoIndex
    BY <2>1, LoadedIs
  <2>4. Loaded.vectors /= None /\ ~cutOver => Enough(Loaded.texts, Loaded.vectors)
    BY DEF VectorsInv, TextsHaveVectors, Enough
  <2>5. Faiss /\ ~cutOver /\ s \notin overtaken' /\ s \in Active' /\ TextsWhole
          => Loaded.vectors /= None /\ Enough(file.texts, Loaded.vectors)
    <3> SUFFICES ASSUME Faiss, ~cutOver, s \notin overtaken', TextsWhole
                 PROVE  Loaded.vectors /= None /\ Enough(file.texts, Loaded.vectors)
      OBVIOUS
    <3>1. HasIndex
      BY <1>2 DEF HasIndex, VectorsInv, FileKnown, TextsWhole
    <3>2. Loaded.vectors /= None /\ Loaded.texts = file.texts
      BY <2>1, <3>1, LoadedIs DEF HasIndex
    <3> QED  BY <2>4, <3>2
  <2> QED  BY <1>1, <1>2, <2>1, <2>2, <2>3, <2>4, <2>5, VectorsOf
<1>4. CASE ~Faiss /\ UNCHANGED mem
  <2>1. Loaded' = Loaded
    BY <1>2 DEF Loaded, HasIndex, NoIndex
  <2> QED  BY <1>2, <1>4, <2>1 DEF VectorsInv, MemKnows, Faiss, FileKnown, TextsHaveVectors
<1> QED  BY <1>3, <1>4 DEF Open, VOpen, ChromaOpen, QdrantOpen, MilvusOpen, MayOpen, Faiss

LEMMA InsertVectors ==
    ASSUME VectorsInv, TypeInv, NEW s \in Sessions, Insert(s) PROVE VectorsInv'
<1>1. PICK f \in Files : VInsert(s, f)
  BY DEF Insert
<1>2. Active' = Active /\ s \in Active
  BY DEF Insert, Goes, Active, TypeInv, StorageTypeOK
<1>3. UNCHANGED <<vb, file, overtaken, cutOver>>
  BY <1>1 DEF Insert, VInsert
<1>4. CASE FaissInsert(s, f)
  <2>1. /\ Inserted(s, f) \in Index /\ Working(s, f).vectors \in Nat
        /\ Working(s, f).texts \in SUBSET Row /\ Lines(f) \in Nat
    BY WorkingType, LinesNat DEF TypeInv, StorageTypeOK
  <2>2. mem' = [mem EXCEPT ![s] = Inserted(s, f)]
    BY <1>4 DEF FaissInsert, Inserted
  <2>3. cutOver \/ Enough(Working(s, f).texts, Working(s, f).vectors)
    BY NothingEnough DEF Working, VectorsInv, MemKnows
  <2>4. /\ Inserted(s, f).vectors = Working(s, f).vectors + Lines(f)
        /\ Inserted(s, f).texts = Upserted(Working(s, f).texts, f)
        /\ Inserted(s, f).vectors \in Nat
    BY <2>1 DEF Inserted
  <2>5. cutOver \/ Enough(Inserted(s, f).texts, Inserted(s, f).vectors)
    BY <2>1, <2>3, <2>4, InsertEnough
  <2>6. Faiss /\ ~cutOver /\ s \notin overtaken /\ TextsWhole
          => Enough(file.texts, Inserted(s, f).vectors)
    <3> SUFFICES ASSUME Faiss, ~cutOver, s \notin overtaken, TextsWhole
                 PROVE  Enough(file.texts, Inserted(s, f).vectors)
      OBVIOUS
    <3>1. mem[s].vectors /= None /\ Enough(file.texts, mem[s].vectors)
      BY <1>2 DEF VectorsInv, Abreast
    <3>2. Working(s, f).vectors = mem[s].vectors
      BY <3>1 DEF Working
    <3>3. file.texts \in SUBSET Row
      BY LoadedIs DEF TypeInv, StorageTypeOK
    <3>4. Cardinality(Kept(file.texts)) \in Nat
      BY <3>3, KeptFinite
    <3> QED  BY <2>1, <2>4, <3>1, <3>2, <3>4 DEF Enough
  <2>7. Inserted(s, f).vectors /= None
    BY <2>4, ContentAssumption
  <2> QED  BY <1>2, <1>3, <2>1, <2>2, <2>5, <2>6, <2>7, VectorsOf DEF TypeInv
<1>5. CASE UNCHANGED mem
  BY <1>2, <1>3, <1>5, VectorsFrame
<1> QED  BY <1>1, <1>4, <1>5 DEF VInsert, ChromaInsert, QdrantInsert, MilvusInsert

LEMMA DeleteVectorsKeeps ==
    ASSUME VectorsInv, TypeInv, NEW s \in Sessions, DeleteVectors(s) PROVE VectorsInv'
<1>1. PICK n \in DocNames : VDelete(s, n)
  BY DEF DeleteVectors
<1>2. Active' = Active /\ s \in Active
  BY DEF DeleteVectors, Goes, Active, TypeInv, StorageTypeOK
<1>3. UNCHANGED <<vb, file, overtaken, cutOver>>
  BY <1>1 DEF DeleteVectors, VDelete
<1>4. CASE FaissDelete(s, n)
  <2> DEFINE x == [mem[s] EXCEPT !.texts = mem[s].texts \ Of(mem[s].texts, {n})]
  <2>1. mem[s] \in Index
    BY DEF TypeInv, StorageTypeOK, VTypeOK
  <2>2. /\ x \in Index /\ x.texts \subseteq mem[s].texts
        /\ x.vectors = mem[s].vectors /\ x.trained = mem[s].trained
    BY <2>1 DEF Index
  <2>3. mem' = [mem EXCEPT ![s] = x]
    BY <1>4, Zenon DEF FaissDelete
  <2> HIDE DEF x
  <2>4. mem[s].vectors = None => x = NoIndex
    <3> SUFFICES ASSUME mem[s].vectors = None PROVE x = NoIndex
      OBVIOUS
    <3>1. mem[s] = NoIndex
      BY DEF VectorsInv, MemKnows
    <3>2. x.vectors = None /\ x.trained = FALSE /\ x.texts = {}
      BY <2>2, <3>1 DEF NoIndex
    <3> QED  BY <2>2, <3>2 DEF NoIndex, Index
  <2>5. mem[s].vectors /= None /\ ~cutOver => Enough(x.texts, x.vectors)
    <3>1. mem[s].texts \in SUBSET Row /\ mem[s].vectors \in Nat \union {None}
      BY <2>1 DEF Index
    <3>2. /\ Cardinality(Kept(x.texts)) <= Cardinality(Kept(mem[s].texts))
          /\ Cardinality(Kept(mem[s].texts)) \in Nat /\ Cardinality(Kept(x.texts)) \in Nat
      BY <2>2, <3>1, KeptFinite
    <3> QED  BY <2>2, <3>1, <3>2 DEF VectorsInv, MemKnows, Enough
  <2>6. Faiss /\ ~cutOver /\ s \notin overtaken => Abreast(s)
    BY <1>2 DEF VectorsInv
  <2> QED  BY <1>2, <1>3, <2>2, <2>3, <2>4, <2>5, <2>6, VectorsOf DEF TypeInv, Abreast
<1>5. CASE UNCHANGED mem
  BY <1>2, <1>3, <1>5, VectorsFrame
<1> QED  BY <1>1, <1>4, <1>5 DEF VDelete, ChromaDelete, QdrantDelete, MilvusDelete

\* What a cut leaves, of a session that had an index.
LEMMA CutVectors ==
    ASSUME VectorsInv, StorageTypeOK, NEW s \in Active, Faiss, Saves(s), file' \in CutShort(s),
           cutOver' = CutOver(s), VTypeOK'
    PROVE  FileKnown' /\ TextsHaveVectors'
<1>1. s \in Sessions /\ mem[s] \in Index /\ file \in OnDisk
  BY DEF Active, StorageTypeOK, VTypeOK
<1>2. CASE file' = file
  <2>1. Loaded' = Loaded
    BY <1>2 DEF Loaded, HasIndex, NoIndex
  <2> QED  BY <1>2, <2>1 DEF VectorsInv, FileKnown, TextsHaveVectors, CutOver
<1>3. CASE file' = [file EXCEPT !.vectors = Torn]
  <2>1. file'.vectors = Torn
    BY <1>1, <1>3 DEF OnDisk
  <2> QED  BY <2>1, EnoughThen, ContentAssumption DEF FileKnown, HasIndex
<1>4. CASE file' = SavesIndex(s)
  <2>1. file'.vectors = mem[s].vectors /\ file'.texts = file.texts
    BY <1>1, <1>4 DEF SavesIndex, Index
  <2>2. ~cutOver' => Abreast(s)
    BY <1>4 DEF VectorsInv, CutOver
  <2>3. TextsWhole' /\ ~cutOver' => Enough(file'.texts, file'.vectors)
    BY <2>1, <2>2 DEF Abreast, TextsWhole
  <2> QED  BY <2>1, <2>3, EnoughThen DEF FileKnown, Saves
<1>5. CASE file' = [mem[s] EXCEPT !.texts = Torn]
  <2>1. file'.vectors = mem[s].vectors /\ file'.texts = Torn
    BY <1>1, <1>5 DEF Index
  <2> QED  BY <2>1, EnoughThen DEF FileKnown, TextsWhole, Saves
<1> QED  BY <1>2, <1>3, <1>4, <1>5 DEF CutShort

LEMMA CloseVectors ==
    ASSUME VectorsInv, TypeInv, NEW s \in Sessions, Close(s) \/ CloseFails(s) PROVE VectorsInv'
<1>1. StorageTypeOK /\ VTypeOK'
  BY CloseType DEF TypeInv, StorageTypeOK
<1>2. /\ Active' = Active \ {s} /\ s \in Active
      /\ overtaken' = (overtaken \union IF Faiss /\ Saves(s) THEN Active ELSE {}) \ {s}
  BY <1>1 DEF Close, CloseFails, Closing, Goes, Active, StorageTypeOK
<1>3. Active \subseteq Sessions
  BY DEF Active
<1>4. CASE FaissGone(s)
  <2>1. mem'[s] = NoIndex /\ \A t \in Sessions \ {s} : mem'[t] = mem[t]
    BY <1>1, <1>4 DEF FaissGone, StorageTypeOK, VTypeOK
  <2>2. cutOver => cutOver'
    BY DEF Close, CloseFails, CutOver
  <2>3. \A t \in Sessions : MemKnows(t)'
    <3>1. MemKnows(s)'
      BY <2>1 DEF MemKnows, NoIndex
    <3>2. \A t \in Sessions \ {s} : MemKnows(t)'
      BY <2>1, <2>2 DEF VectorsInv, MemKnows
    <3> QED  BY <3>1, <3>2
  <2>4. FileKnown' /\ TextsHaveVectors'
    <3>1. CASE CloseFails(s)
      BY <1>1, <1>2, <1>4, <3>1, CutVectors DEF CloseFails, VCloseFails, FaissGone
    <3>2. CASE Close(s) /\ Saves(s)
      <4>1. file' = mem[s] /\ cutOver' = cutOver
        BY <1>4, <3>2 DEF Close, VClose, FaissClose, SavesAll, FaissGone, Faiss, ChromaClose,
           QdrantClose, MilvusClose
      <4>2. cutOver \/ Enough(mem[s].texts, mem[s].vectors)
        BY <3>2 DEF VectorsInv, MemKnows, Saves
      <4> QED  BY <1>1, <3>2, <4>1, <4>2, EnoughThen DEF FileKnown, Saves
    <3>3. CASE Close(s) /\ ~Saves(s)
      <4>1. file' = file /\ cutOver' = cutOver
        BY <1>4, <3>3 DEF Close, VClose, FaissClose, SavesAll, FaissGone, Faiss, ChromaClose,
           QdrantClose, MilvusClose
      <4>2. Loaded' = Loaded
        BY <4>1 DEF Loaded, HasIndex, NoIndex
      <4> QED  BY <4>1, <4>2 DEF VectorsInv, FileKnown, TextsHaveVectors
    <3> QED  BY <3>1, <3>2, <3>3
  <2>5. ~cutOver' => \A t \in Active' \ overtaken' : Abreast(t)'
    <3>1. CASE Saves(s)
      BY <1>2, <1>4, <3>1 DEF FaissGone
    <3>2. CASE ~Saves(s)
      <4>1. file' = file /\ cutOver' = cutOver
        BY <1>4, <3>2 DEF Close, CloseFails, VClose, VCloseFails, FaissClose, SavesAll, FaissGone,
           Faiss, ChromaClose, QdrantClose, MilvusClose
      <4>2. \A t \in Active' \ overtaken' : t \in Active \ overtaken /\ t \in Sessions \ {s}
        BY <1>2, <1>3, <3>2
      <4>3. ~cutOver => \A t \in Active \ overtaken : Abreast(t)
        BY <1>4 DEF VectorsInv, FaissGone
      <4> QED  BY <2>1, <4>1, <4>2, <4>3 DEF Abreast, TextsWhole
    <3> QED  BY <3>1, <3>2
  <2> QED  BY <2>3, <2>4, <2>5 DEF VectorsInv
<1>5. CASE ~Faiss /\ UNCHANGED <<vb, file, mem>> /\ Close(s)
  <2>1. Loaded' = Loaded
    BY <1>5 DEF Loaded, HasIndex, NoIndex
  <2> QED
    BY <1>5, <2>1 DEF Close, VectorsInv, MemKnows, Faiss, FileKnown, TextsHaveVectors
<1> QED
  BY <1>4, <1>5 DEF Close, CloseFails, VClose, VCloseFails, FaissClose, FaissGone, ChromaClose,
     QdrantClose, MilvusClose, Closes, Faiss

LEMMA CrashVectors == ASSUME VectorsInv, TypeInv, Crash PROVE VectorsInv'
<1>1. PICK cut \in {None} \union {t \in Active : Faiss /\ phase[t] = "both" /\ Saves(t)} :
        /\ VCrash(cut)
        /\ cutOver' = IF cut = None THEN cutOver ELSE CutOver(cut)
  BY DEF Crash
<1>2. Active' = {} /\ StorageTypeOK /\ VTypeOK'
  BY CrashType DEF Crash, Active, TypeInv, StorageTypeOK
<1>3. \A t \in Sessions : MemKnows(t)'
  BY <1>1 DEF VCrash, MemKnows, NoIndex
<1>4. CASE cut = None
  <2>1. file' = file /\ cutOver' = cutOver
    BY <1>1, <1>4 DEF VCrash
  <2>2. Loaded' = Loaded
    BY <2>1 DEF Loaded, HasIndex, NoIndex
  <2> QED  BY <1>2, <1>3, <2>1, <2>2 DEF VectorsInv, FileKnown, TextsHaveVectors
<1>5. CASE cut /= None
  <2>1. file' \in CutShort(cut) /\ cutOver' = CutOver(cut) /\ cut \in Active /\ Faiss /\ Saves(cut)
    BY <1>1, <1>5 DEF VCrash
  <2>2. FileKnown' /\ TextsHaveVectors'
    BY <1>2, <2>1, CutVectors
  <2> QED  BY <1>2, <1>3, <2>2 DEF VectorsInv
<1> QED  BY <1>4, <1>5

LEMMA NextVectors == VectorsInv /\ TypeInv /\ [StorageNext]_storageVars => VectorsInv'
<1> SUFFICES ASSUME VectorsInv, TypeInv, [StorageNext]_storageVars PROVE VectorsInv'
  OBVIOUS
<1>1. ASSUME NEW s \in Sessions,
             FileCall(s) \/ InsertRaises(s) \/ IndexIt(s) \/ DeleteHits(s) \/ DeleteRaises(s)
      PROVE  VectorsInv'
  <2>1. UNCHANGED <<vb, file, mem, overtaken, cutOver>>
    BY <1>1 DEF FileCall, shist, InsertRaises, IndexIt, DeleteHits, DeleteRaises, vvars
  <2>2. Active' \subseteq Active
    BY <1>1 DEF FileCall, shist, InsertRaises, IndexIt, DeleteHits, DeleteRaises, Goes, Active,
       TypeInv, StorageTypeOK
  <2> QED  BY <2>1, <2>2, VectorsFrame
<1>2. ASSUME NEW s \in Sessions, Session(s) PROVE VectorsInv'
  BY <1>1, <1>2, OpenVectors, InsertVectors, DeleteVectorsKeeps, CloseVectors DEF Session
<1>3. CASE (\E s \in Sessions : Late(s)) \/ Server \/ UNCHANGED storageVars
  <2>1. UNCHANGED <<vb, file, mem, overtaken, cutOver>> /\ Active' = Active
    BY <1>3 DEF Late, Server, storageVars, vvars, svars, shist, Active
  <2> QED  BY <2>1, VectorsFrame
<1>4. CASE Crash
  BY <1>4, CrashVectors
<1> QED  BY <1>2, <1>3, <1>4 DEF StorageNext

LEMMA InitVectors == StorageInit => VectorsInv
BY DEF StorageInit, VInit, VectorsInv, MemKnows, NoIndex, Active, FileKnown, TextsHaveVectors,
   Loaded, HasIndex

\* Wherever in its writes the process ends, or one of them fails, what initialize()
\* reads of FAISS's files has a vector for every text, unless it was cut between the
\* files in the close of a session that did not know them.
THEOREM TextsVectored == StorageSpec => []TextsHaveVectors
<1>1. VectorsInv => TextsHaveVectors
  BY DEF VectorsInv
<1> QED  BY <1>1, InitVectors, NextVectors, InitType, NextType, PTL DEF StorageSpec

-----------------------------------------------------------------------------
(***************************************************************************)
(* What is stored stays stored                                             *)
(***************************************************************************)
Writing(s, f) == phase[s] \in {"half", "both"} /\ Stores(s, f)

\* A server keeps every row under the file it came from.
OwnRows == \A r \in rows : r \in RowsOf(r[2])

\* A server has what is stored, and what a session has inserted that is not
\* through with it.
ServersKeep ==
    ~Faiss => \A f \in Files :
                 /\ ~Shared(f) /\ f \notin excused
                 /\ f \in stored \/ \E s \in Sessions : Writing(s, f)
                 => RowsOf(f) \subseteq rows

\* FAISS has what is stored on disk, and a session that is open read it, or it was
\* written to the files afterwards.
OnFile(f)   == HasIndex /\ TextsWhole /\ RowsOf(f) \subseteq file.texts
Knows(s, f) == f \in unread[s] \/ RowsOf(f) \subseteq mem[s].texts
FaissKeeps ==
    Faiss => \A f \in stored \ excused :
                ~Shared(f) => OnFile(f) /\ \A s \in Active : Knows(s, f)

\* A session has what it will write.
FaissWrites ==
    Faiss => \A s \in Sessions, f \in Files :
                Writing(s, f) => /\ mem[s].vectors /= None
                                 /\ ~Shared(f) => RowsOf(f) \subseteq mem[s].texts

StoredInv == OwnRows /\ ServersKeep /\ FaissKeeps /\ FaissWrites

LEMMA StoredFrame ==
    ASSUME StoredInv, UNCHANGED <<vb, rows, file, mem, stored, excused, unread>>,
           Active' \subseteq Active,
           \A s \in Sessions, f \in Files : Writing(s, f)' => Writing(s, f)
    PROVE  StoredInv'
<1>1. Faiss' = Faiss /\ \A f : Shared(f)' = Shared(f)
  BY DEF Faiss, Shared
<1>2. OwnRows' /\ ServersKeep'
  BY <1>1 DEF StoredInv, OwnRows, ServersKeep
<1>3. FaissKeeps'
  BY <1>1 DEF StoredInv, FaissKeeps, OnFile, Knows, HasIndex, TextsWhole
<1>4. FaissWrites'
  <2> SUFFICES ASSUME Faiss, NEW s \in Sessions, NEW f \in Files, Writing(s, f)'
               PROVE  /\ mem[s].vectors /= None
                      /\ ~Shared(f) => RowsOf(f) \subseteq mem[s].texts
    BY <1>1 DEF FaissWrites
  <2>1. Writing(s, f)
    OBVIOUS
  <2> QED  BY <2>1 DEF StoredInv, FaissWrites
<1> QED  BY <1>2, <1>3, <1>4 DEF StoredInv

\* Who is writing, after a step of one session.
LEMMA WritingThen ==
    ASSUME StorageTypeOK, NEW s \in Sessions, NEW t, Goes(s, t)
    PROVE  /\ \A u \in Sessions \ {s} : \A f :
                 (job'[u] = job[u]) => (Writing(u, f)' <=> Writing(u, f))
           /\ \A f : Writing(s, f)' <=> t \in {"half", "both"} /\ Stores(s, f)'
           /\ phase'[s] = t /\ \A u \in Sessions \ {s} : phase'[u] = phase[u]
BY DEF StorageTypeOK, Goes, Writing, Stores

\* A document that shares no line keeps its rows when another is inserted.
LEMMA UnsharedKept ==
    ASSUME NEW R \in SUBSET Row, NEW f \in Files, NEW g \in Files \ {f},
           Content[f] \cap Content[g] = {}, RowsOf(g) \subseteq R
    PROVE  RowsOf(g) \subseteq Upserted(R, f) /\ RowsOf(g) \subseteq Added(R, f)
BY DEF RowsOf, Upserted, Added, Without

LEMMA OpenStored ==
    ASSUME StoredInv, VectorsInv, TypeInv, NEW s \in Sessions, Open(s) PROVE StoredInv'
<1>1. /\ \A u \in Sessions \ {s} : job'[u] = job[u]
      /\ Goes(s, "open") /\ phase[s] = "idle" /\ UNCHANGED <<vb, rows, file, stored, excused, unread>>
  BY DEF Open, Assigned, VOpen, TypeInv, StorageTypeOK
<1>2. \A u \in Sessions, f \in Files : Writing(u, f)' => Writing(u, f) /\ u /= s
  BY <1>1, WritingThen DEF TypeInv
<1>3. Active' \subseteq Active \union {s}
  BY <1>1, WritingThen DEF Active, TypeInv
<1>4. Faiss' = Faiss /\ \A f \in Files : Shared(f)' = Shared(f)
  BY <1>1 DEF Faiss, Shared
<1>5. OwnRows' /\ ServersKeep'
  BY <1>1, <1>2, <1>4 DEF StoredInv, OwnRows, ServersKeep
<1>6. CASE FaissOpen(s)
  <2>1. mem'[s] = Loaded /\ \A u \in Sessions \ {s} : mem'[u] = mem[u]
    BY <1>6 DEF FaissOpen, TypeInv, StorageTypeOK, VTypeOK
  <2>2. FaissWrites'
    BY <1>2, <1>4, <2>1 DEF StoredInv, FaissWrites
  <2>3. HasIndex /\ TextsWhole => Loaded.texts = file.texts
    BY LoadedIs DEF TypeInv, StorageTypeOK
  <2>4. FaissKeeps'
    <3> SUFFICES ASSUME Faiss, NEW f \in stored \ excused, ~Shared(f)
                 PROVE  OnFile(f)' /\ \A u \in Active' : Knows(u, f)'
      BY <1>1, <1>4 DEF FaissKeeps, TypeInv, StorageTypeOK
    <3>1. OnFile(f) /\ \A u \in Active : Knows(u, f)
      BY DEF StoredInv, FaissKeeps
    <3>2. Knows(s, f)'
      BY <2>1, <2>3, <3>1 DEF OnFile, Knows
    <3>3. \A u \in Active \ {s} : Knows(u, f)'
      BY <1>1, <2>1, <3>1 DEF Active, Knows
    <3> QED  BY <1>1, <1>3, <3>1, <3>2, <3>3 DEF OnFile, HasIndex, TextsWhole
  <2> QED  BY <1>5, <2>2, <2>4 DEF StoredInv
<1>7. CASE ~Faiss
  BY <1>4, <1>5, <1>7 DEF StoredInv, FaissKeeps, FaissWrites
<1> QED  BY <1>6, <1>7 DEF Open, VOpen, ChromaOpen, QdrantOpen, MilvusOpen, Faiss

\* What the servers make of an insert.
LEMMA InsertRows ==
    ASSUME OwnRows, StorageTypeOK, NEW s \in Sessions, NEW f \in Files, VInsert(s, f), ~Faiss
    PROVE  /\ OwnRows'
           /\ s \in vopen /\ ~Shared(f) => RowsOf(f) \subseteq rows'
           /\ \A g \in Files \ {f} :
                 ~Shared(g) /\ RowsOf(g) \subseteq rows => RowsOf(g) \subseteq rows'
           /\ VHealthy(s) <=> s \in vopen
<1>1. rows \in SUBSET Row /\ \A g \in Files : RowsOf(g) \subseteq Row
  BY RowTypes DEF StorageTypeOK, VTypeOK
<1>2. \A r \in RowsOf(f) : r[2] = f
  BY DEF RowsOf
<1>3. ASSUME NEW g \in Files, ~Shared(g), vb /= "milvus", NEW h \in Files \ {g}
      PROVE  Content[h] \cap Content[g] = {}
  BY <1>3 DEF Shared
<1>4. CASE ChromaInsert(s, f)
  <2>1. rows' = IF s \in vopen THEN Added(rows, f) ELSE rows
    BY <1>4 DEF ChromaInsert
  <2>2. OwnRows'
    BY <1>2, <2>1 DEF OwnRows, Added
  <2>3. ASSUME s \in vopen, ~Shared(f), NEW r \in RowsOf(f) PROVE r \in rows'
    <3>1. CASE r[1] \notin Kept(rows)
      BY <2>1, <2>3, <3>1 DEF Added
    <3>2. CASE r[1] \in Kept(rows)
      <4>1. PICK q \in rows : q[1] = r[1]
        BY <3>2 DEF Kept
      <4>2. q \in RowsOf(q[2]) /\ q \in Row
        BY <1>1 DEF OwnRows
      <4>3. q[2] \in Files /\ q[1] \in Content[q[2]] /\ r[1] \in Content[f] /\ r[2] = f
        BY <4>2 DEF RowsOf, Row
      <4>4. q[2] = f
        BY <1>3, <2>3, <1>4, <4>1, <4>3 DEF ChromaInsert
      <4>5. q = r
        BY <4>1, <4>2, <4>3, <4>4 DEF RowsOf
      <4> QED  BY <2>1, <2>3, <4>5 DEF Added
    <3> QED  BY <3>1, <3>2
  <2>4. ASSUME NEW g \in Files \ {f}, RowsOf(g) \subseteq rows PROVE RowsOf(g) \subseteq rows'
    BY <2>1, <2>4 DEF Added
  <2> QED  BY <1>4, <2>2, <2>3, <2>4 DEF ChromaInsert, VHealthy, ChromaHealthy
<1>5. CASE QdrantInsert(s, f)
  <2>1. rows' = Upserted(rows, f) /\ s \in vopen /\ vb = "qdrant"
    BY <1>5 DEF QdrantInsert
  <2>2. OwnRows' /\ RowsOf(f) \subseteq rows'
    BY <1>2, <2>1 DEF OwnRows, Upserted, Without
  <2>3. ASSUME NEW g \in Files \ {f}, ~Shared(g), RowsOf(g) \subseteq rows
        PROVE  RowsOf(g) \subseteq rows'
    BY <1>1, <1>3, <2>1, <2>3, UnsharedKept
  <2> QED  BY <2>1, <2>2, <2>3 DEF VHealthy, QdrantHealthy
<1>6. CASE MilvusInsert(s, f)
  <2>1. rows' = rows \union RowsOf(f) /\ s \in vopen /\ vb = "milvus"
    BY <1>6 DEF MilvusInsert
  <2>2. OwnRows'
    BY <1>2, <2>1 DEF OwnRows
  <2> QED  BY <2>1, <2>2 DEF VHealthy, MilvusHealthy
<1> QED  BY <1>4, <1>5, <1>6 DEF VInsert, FaissInsert

LEMMA InsertStored ==
    ASSUME StoredInv, VectorsInv, TypeInv, NEW s \in Sessions, Insert(s) PROVE StoredInv'
<1>1. PICK f \in Files :
        /\ Stores(s, f) /\ VInsert(s, f)
        /\ excused' = IF ~VHealthy(s) THEN excused \union {f}
                      ELSE IF Faiss THEN excused ELSE excused \ {f}
  BY DEF Insert
<1>2. /\ Goes(s, "half") /\ phase[s] = "open" /\ UNCHANGED <<job, vb, file, stored, unread>>
  BY <1>1 DEF Insert, VInsert
<1>3. \A u \in Sessions, g \in Files : Writing(u, g)' => IF u = s THEN g = f ELSE Writing(u, g)
  <2>1. \A g : Stores(s, g)' => g = f
    BY <1>1, <1>2 DEF Stores
  <2> QED  BY <1>2, <2>1, WritingThen DEF TypeInv
<1>4. Active' = Active /\ s \in Active
  BY <1>2, WritingThen DEF Active, TypeInv
<1>5. Faiss' = Faiss /\ \A g \in Files : Shared(g)' = Shared(g)
  BY <1>2 DEF Faiss, Shared
<1>6. CASE ~Faiss
  <2>1. ASSUME NEW g \in Files, ~Shared(g), g \notin excused',
               g \in stored \/ \E u \in Sessions : Writing(u, g)'
        PROVE  RowsOf(g) \subseteq rows'
    <3>1. CASE g = f
      BY <1>1, <1>6, <2>1, <3>1, InsertRows DEF StoredInv, TypeInv
    <3>2. CASE g /= f
      <4>1. g \notin excused /\ (g \in stored \/ \E u \in Sessions : Writing(u, g))
        BY <1>1, <1>3, <2>1, <3>2
      <4>2. RowsOf(g) \subseteq rows
        BY <1>6, <2>1, <4>1 DEF StoredInv, ServersKeep
      <4> QED  BY <1>1, <1>6, <2>1, <3>2, <4>2, InsertRows DEF StoredInv, TypeInv
    <3> QED  BY <3>1, <3>2
  <2>2. ServersKeep'
    BY <1>2, <1>5, <2>1 DEF ServersKeep
  <2>3. OwnRows'
    BY <1>1, <1>6, InsertRows DEF StoredInv, TypeInv
  <2> QED  BY <1>5, <1>6, <2>2, <2>3 DEF StoredInv, FaissKeeps, FaissWrites
<1>7. CASE Faiss
  <2>1. mem' = [mem EXCEPT ![s] = Inserted(s, f)] /\ rows' = rows
    BY <1>1, <1>7 DEF VInsert, FaissInsert, ChromaInsert, QdrantInsert, MilvusInsert, Faiss, Inserted
  <2>2. mem'[s] = Inserted(s, f) /\ \A u \in Sessions \ {s} : mem'[u] = mem[u]
    BY <2>1 DEF TypeInv, StorageTypeOK, VTypeOK
  <2>3. /\ Working(s, f).vectors \in Nat /\ Lines(f) \in Nat
        /\ Working(s, f).texts = mem[s].texts /\ mem[s].texts \in SUBSET Row
    <3>1. mem[s].vectors = None => mem[s].texts = {}
      BY DEF VectorsInv, MemKnows, NoIndex
    <3>2. Working(s, f).texts = mem[s].texts
      BY <3>1 DEF Working
    <3>3. mem[s].texts \in SUBSET Row
      BY DEF TypeInv, StorageTypeOK, VTypeOK, Index
    <3> QED  BY <3>2, <3>3, WorkingType, LinesNat DEF TypeInv, StorageTypeOK
  <2>4. /\ mem'[s].vectors \in Nat /\ mem'[s].vectors /= None
        /\ mem'[s].texts = Upserted(mem[s].texts, f)
    BY <2>2, <2>3, ContentAssumption DEF Inserted
  <2>5. RowsOf(f) \subseteq mem'[s].texts
    BY <2>4 DEF Upserted
  <2>6. ASSUME NEW g \in Files, ~Shared(g), RowsOf(g) \subseteq mem[s].texts
        PROVE  RowsOf(g) \subseteq mem'[s].texts
    <3>1. CASE g = f
      BY <2>5, <3>1
    <3>2. CASE g /= f
      <4>1. Content[f] \cap Content[g] = {}
        BY <1>7, <2>6, <3>2 DEF Shared, Faiss
      <4> QED  BY <2>3, <2>4, <2>6, <3>2, <4>1, UnsharedKept
    <3> QED  BY <3>1, <3>2
  <2>7. FaissKeeps'
    <3> SUFFICES ASSUME NEW g \in stored \ excused', ~Shared(g)
                 PROVE  OnFile(g)' /\ \A u \in Active : Knows(u, g)'
      BY <1>2, <1>4, <1>5 DEF FaissKeeps, TypeInv, StorageTypeOK
    <3>1. g \in Files /\ g \notin excused
      BY <1>1, <1>7 DEF TypeInv, StorageTypeOK
    <3>2. OnFile(g) /\ \A u \in Active : Knows(u, g)
      BY <1>7, <3>1 DEF StoredInv, FaissKeeps
    <3>3. \A u \in Active : Knows(u, g)'
      BY <1>2, <2>2, <2>6, <3>1, <3>2 DEF Active, Knows
    <3> QED  BY <1>2, <3>2, <3>3 DEF OnFile, HasIndex, TextsWhole
  <2>8. FaissWrites'
    BY <1>3, <1>5, <1>7, <2>2, <2>4, <2>5 DEF StoredInv, FaissWrites
  <2>9. OwnRows' /\ ServersKeep'
    BY <1>5, <1>7, <2>1 DEF StoredInv, OwnRows, ServersKeep
  <2> QED  BY <2>7, <2>8, <2>9 DEF StoredInv
<1> QED  BY <1>6, <1>7

LEMMA DeleteStored ==
    ASSUME StoredInv, TypeInv, NEW s \in Sessions, DeleteVectors(s) PROVE StoredInv'
<1>1. PICK n \in DocNames :
        Deletes(s, n) /\ VDelete(s, n) /\ excused' = excused \union Deleted(n)
  BY DEF DeleteVectors
<1>2. /\ Goes(s, "half") /\ phase[s] = "open" /\ UNCHANGED <<job, vb, file, stored, unread>>
  BY <1>1 DEF DeleteVectors, VDelete
<1>3. \A u \in Sessions, g \in Files : Writing(u, g)' => u /= s /\ Writing(u, g)
  <2>1. \A g : ~Stores(s, g)'
    BY <1>1, <1>2 DEF Stores, Deletes
  <2> QED  BY <1>2, <2>1, WritingThen DEF TypeInv
<1>4. Active' = Active
  BY <1>2, WritingThen DEF Active, TypeInv
<1>5. Faiss' = Faiss /\ \A g \in Files : Shared(g)' = Shared(g)
  BY <1>2 DEF Faiss, Shared
<1>6. OwnRows' /\ ServersKeep'
  <2>1. rows' \subseteq rows
    BY <1>1 DEF VDelete, ChromaDelete, QdrantDelete, MilvusDelete, FaissDelete
  <2>2. ASSUME NEW g \in Files \ Deleted(n), ~Faiss, RowsOf(g) \subseteq rows
        PROVE  RowsOf(g) \subseteq rows'
    <3>1. \A r \in RowsOf(g) : r[2] = g
      BY DEF RowsOf
    <3> QED
      BY <1>1, <2>2, <3>1 DEF VDelete, ChromaDelete, QdrantDelete, MilvusDelete, FaissDelete,
         Deleted, Of
  <2> QED  BY <1>1, <1>2, <1>3, <1>5, <2>1, <2>2 DEF StoredInv, OwnRows, ServersKeep
<1>7. CASE FaissDelete(s, n)
  <2>1. mem[s] \in Index /\ mem \in [Sessions -> Index]
    BY DEF TypeInv, StorageTypeOK, VTypeOK
  <2>2. mem' = [mem EXCEPT ![s] = [mem[s] EXCEPT !.texts = mem[s].texts \ Of(mem[s].texts, {n})]]
    BY <1>7, Zenon DEF FaissDelete
  <2>3. /\ mem'[s].texts = mem[s].texts \ Of(mem[s].texts, {n})
        /\ \A u \in Sessions \ {s} : mem'[u] = mem[u]
    <3>1. [mem[s] EXCEPT !.texts = mem[s].texts \ Of(mem[s].texts, {n})].texts
             = mem[s].texts \ Of(mem[s].texts, {n})
      BY <2>1 DEF Index
    <3> QED  BY <2>1, <2>2, <3>1
  <2>4. ASSUME NEW g \in Files, g /= n, RowsOf(g) \subseteq mem[s].texts
        PROVE  RowsOf(g) \subseteq mem'[s].texts
    BY <2>3, <2>4 DEF RowsOf, Of
  <2>5. FaissKeeps'
    <3> SUFFICES ASSUME NEW g \in stored \ excused', ~Shared(g)
                 PROVE  OnFile(g)' /\ \A u \in Active : Knows(u, g)'
      BY <1>2, <1>4, <1>5 DEF FaissKeeps, TypeInv, StorageTypeOK
    <3>1. g \in Files /\ g \notin excused /\ g /= n
      BY <1>1, <1>7 DEF TypeInv, StorageTypeOK, FaissDelete, Faiss, Deleted
    <3>2. OnFile(g) /\ \A u \in Active : Knows(u, g)
      BY <1>7, <3>1 DEF StoredInv, FaissKeeps, FaissDelete
    <3>3. \A u \in Active : Knows(u, g)'
      BY <1>2, <2>3, <2>4, <3>1, <3>2 DEF Active, Knows
    <3> QED  BY <1>2, <3>2, <3>3 DEF OnFile, HasIndex, TextsWhole
  <2>6. FaissWrites'
    BY <1>3, <1>5, <2>3 DEF StoredInv, FaissWrites
  <2> QED  BY <1>6, <2>5, <2>6 DEF StoredInv
<1>8. CASE ~Faiss
  BY <1>5, <1>6, <1>8 DEF StoredInv, FaissKeeps, FaissWrites
<1> QED  BY <1>1, <1>7, <1>8 DEF VDelete, ChromaDelete, QdrantDelete, MilvusDelete, Faiss

\* A cut that tears none of the files leaves the texts, and an index.
LEMMA CutKeeps ==
    ASSUME StorageTypeOK, NEW s \in Sessions, Saves(s), file' \in CutShort(s),
           Torn \notin {file'.vectors, file'.texts}
    PROVE  file'.texts = file.texts /\ (HasIndex => HasIndex')
<1>1. mem[s] \in Index /\ file \in OnDisk
  BY DEF StorageTypeOK, VTypeOK
<1>2. CASE file' = file
  BY <1>2 DEF HasIndex
<1>3. CASE file' = [file EXCEPT !.vectors = Torn]
  BY <1>1, <1>3 DEF OnDisk
<1>4. CASE file' = SavesIndex(s)
  <2>1. file'.vectors = mem[s].vectors /\ file'.texts = file.texts
    BY <1>1, <1>4 DEF SavesIndex, Index
  <2> QED  BY <2>1 DEF HasIndex, Saves
<1>5. CASE file' = [mem[s] EXCEPT !.texts = Torn]
  BY <1>1, <1>5 DEF Index
<1> QED  BY <1>2, <1>3, <1>4, <1>5 DEF CutShort

LEMMA CloseStored ==
    ASSUME StoredInv, VectorsInv, TypeInv, NEW s \in Sessions, Close(s) \/ CloseFails(s)
    PROVE  StoredInv'
<1> USE DEF TypeInv
<1>1. /\ Goes(s, "done") /\ phase[s] = "both" /\ stored' = stored \union Written(s)
      /\ \A u \in Sessions \ {s} : job'[u] = job[u]
      /\ vb' = vb /\ rows' = rows
  BY DEF Close, CloseFails, Closing, VClose, VCloseFails, StorageTypeOK
<1>2. \A u \in Sessions, g \in Files : Writing(u, g)' => u /= s /\ Writing(u, g)
  BY <1>1, WritingThen
<1>3. Active' = Active \ {s} /\ s \in Active
  BY <1>1, WritingThen DEF Active
<1>4. Faiss' = Faiss /\ \A g \in Files : Shared(g)' = Shared(g)
  BY <1>1 DEF Faiss, Shared
<1>5. \A g : g \in Written(s) <=> g \in Files /\ Writing(s, g)
  BY <1>1 DEF Written, Writing
<1>6. OwnRows'
  BY <1>1 DEF StoredInv, OwnRows
<1>7. CASE ~Faiss
  <2>1. excused' = excused
    BY <1>7 DEF Close, CloseFails, VCloseFails, FaissGone
  <2>2. ServersKeep'
    BY <1>1, <1>2, <1>4, <1>5, <2>1 DEF StoredInv, ServersKeep
  <2> QED  BY <1>4, <1>6, <1>7, <2>2 DEF StoredInv, FaissKeeps, FaissWrites
<1>8. CASE Faiss
  <2>1. /\ FaissGone(s)
        /\ \A u \in Sessions \ {s} : mem'[u] = mem[u]
    BY <1>8 DEF Close, CloseFails, VClose, VCloseFails, ChromaClose, QdrantClose, MilvusClose,
       FaissClose, FaissGone, Faiss, StorageTypeOK, VTypeOK
  <2>2. FaissWrites'
    BY <1>2, <1>4, <2>1 DEF StoredInv, FaissWrites
  <2>3. ASSUME CloseFails(s), NEW g \in stored' \ excused', ~Shared(g)
        PROVE  OnFile(g)' /\ \A u \in Active \ {s} : Knows(u, g)'
    <3>1. g \in stored \ excused /\ Torn \notin {file'.vectors, file'.texts}
      BY <1>1, <2>3 DEF CloseFails, TornAway
    <3>2. file'.texts = file.texts /\ (HasIndex => HasIndex')
      BY <2>3, <3>1, CutKeeps DEF CloseFails, VCloseFails
    <3>3. OnFile(g) /\ \A u \in Active : Knows(u, g)
      BY <1>8, <2>3, <3>1 DEF StoredInv, FaissKeeps
    <3>4. \A u \in Sessions \ {s} : unread'[u] = unread[u]
      BY <2>3 DEF CloseFails, StorageTypeOK
    <3> QED  BY <2>1, <3>2, <3>3, <3>4 DEF OnFile, Knows, TextsWhole, Active
  <2>4. ASSUME Close(s), NEW g \in stored' \ excused', ~Shared(g)
        PROVE  OnFile(g)' /\ \A u \in Active \ {s} : Knows(u, g)'
    <3>1. \A u \in Active \ {s} : unread'[u] = unread[u] \union Written(s)
      BY <1>8, <2>4 DEF Close, Active
    <3>2. CASE Saves(s)
      <4>1. file' = mem[s] /\ mem[s] \in Index
        BY <1>8, <2>4, <3>2 DEF Close, VClose, ChromaClose, QdrantClose, MilvusClose, FaissClose,
           SavesAll, Faiss, StorageTypeOK, VTypeOK
      <4>2. HasIndex' /\ TextsWhole'
        <5>1. mem[s].vectors \in Nat /\ mem[s].texts \in SUBSET (Chunks \X Files)
          BY <3>2, <4>1 DEF Saves, Index, Row
        <5> QED  BY <4>1, <5>1, ContentAssumption DEF HasIndex, TextsWhole
      <4>3. RowsOf(g) \subseteq mem[s].texts
        <5>1. CASE g \in Written(s)
          BY <1>5, <1>8, <2>4, <5>1 DEF StoredInv, FaissWrites
        <5>2. CASE g \notin Written(s)
          <6>1. g \in stored \ excused /\ g \notin unread[s]
            BY <1>1, <1>8, <2>4, <3>2, <5>2 DEF Close
          <6> QED  BY <1>3, <1>8, <2>4, <6>1 DEF StoredInv, FaissKeeps, Knows
        <5> QED  BY <5>1, <5>2
      <4>4. \A u \in Active \ {s} : Knows(u, g)'
        <5>1. CASE g \in Written(s)
          BY <3>1, <5>1 DEF Knows
        <5>2. CASE g \notin Written(s)
          <6>1. g \in stored \ excused
            BY <1>1, <1>8, <2>4, <3>2, <5>2 DEF Close
          <6>2. \A u \in Active : Knows(u, g)
            BY <1>8, <2>4, <6>1 DEF StoredInv, FaissKeeps
          <6> QED  BY <2>1, <3>1, <6>2 DEF Knows, Active
        <5> QED  BY <5>1, <5>2
      <4> QED  BY <4>1, <4>2, <4>3, <4>4 DEF OnFile
    <3>3. CASE ~Saves(s)
      <4>1. file' = file /\ excused' = excused
        BY <1>8, <2>4, <3>3 DEF Close, VClose, ChromaClose, QdrantClose, MilvusClose, FaissClose,
           SavesAll, Faiss
      <4>2. Written(s) = {}
        BY <1>5, <1>8, <3>3 DEF StoredInv, FaissWrites, Saves
      <4>3. OnFile(g) /\ \A u \in Active : Knows(u, g)
        BY <1>1, <1>8, <2>4, <4>1, <4>2 DEF StoredInv, FaissKeeps
      <4> QED
        BY <2>1, <3>1, <4>1, <4>3 DEF OnFile, Knows, HasIndex, TextsWhole, Active
    <3> QED  BY <3>2, <3>3
  <2>5. stored' \subseteq Files
    BY <1>1 DEF StorageTypeOK, Written
  <2>6. FaissKeeps'
    BY <1>3, <1>4, <2>3, <2>4, <2>5 DEF FaissKeeps
  <2>7. ServersKeep'
    BY <1>4, <1>8 DEF ServersKeep
  <2> QED  BY <1>6, <2>2, <2>6, <2>7 DEF StoredInv
<1> QED  BY <1>7, <1>8

LEMMA CrashStored == ASSUME StoredInv, TypeInv, Crash PROVE StoredInv'
<1>1. PICK cut \in {None} \union {t \in Active : Faiss /\ phase[t] = "both" /\ Saves(t)} :
        VCrash(cut)
  BY DEF Crash
<1>2. Active' = {} /\ \A u \in Sessions, g \in Files : ~Writing(u, g)'
  BY DEF Crash, Active, Writing, TypeInv, StorageTypeOK
<1>3. UNCHANGED <<vb, rows, stored>> /\ excused' = excused \union TornAway
  BY <1>1 DEF Crash, VCrash
<1>4. Torn \notin {file'.vectors, file'.texts} =>
        file'.texts = file.texts /\ (HasIndex => HasIndex')
  <2>1. CASE cut = None
    BY <1>1, <2>1 DEF VCrash, HasIndex
  <2>2. CASE cut /= None
    <3>1. cut \in Sessions /\ Saves(cut) /\ file' \in CutShort(cut)
      BY <1>1, <2>2 DEF VCrash, Active
    <3> QED  BY <3>1, CutKeeps DEF TypeInv
  <2> QED  BY <2>1, <2>2
<1>5. Faiss' = Faiss /\ \A g : Shared(g)' = Shared(g)
  BY <1>3 DEF Faiss, Shared
<1>6. OwnRows' /\ ServersKeep'
  <2>1. cut /= None => Faiss
    BY <1>1
  <2>2. ~Faiss => excused' = excused \/ stored' \ excused' = {}
    BY <1>3 DEF TornAway
  <2> QED  BY <1>2, <1>3, <1>5, <2>2 DEF StoredInv, OwnRows, ServersKeep
<1>7. FaissKeeps'
  <2> SUFFICES ASSUME Faiss, NEW g \in stored \ excused', ~Shared(g) PROVE OnFile(g)'
    BY <1>2, <1>3, <1>5 DEF FaissKeeps
  <2>1. g \in stored \ excused /\ Torn \notin {file'.vectors, file'.texts}
    BY <1>3 DEF TornAway
  <2>2. OnFile(g)
    BY <2>1 DEF StoredInv, FaissKeeps
  <2> QED  BY <1>4, <2>1, <2>2 DEF OnFile, TextsWhole
<1>8. FaissWrites'
  BY <1>2 DEF FaissWrites
<1> QED  BY <1>6, <1>7, <1>8 DEF StoredInv

LEMMA NextStored ==
    StoredInv /\ VectorsInv /\ TypeInv /\ [StorageNext]_storageVars => StoredInv'
<1> SUFFICES ASSUME StoredInv, VectorsInv, TypeInv, [StorageNext]_storageVars PROVE StoredInv'
  OBVIOUS
<1>1. ASSUME NEW s \in Sessions,
             FileCall(s) \/ InsertRaises(s) \/ IndexIt(s) \/ DeleteHits(s) \/ DeleteRaises(s)
      PROVE  StoredInv'
  <2>1. UNCHANGED <<job, vb, rows, file, mem, stored, excused, unread>>
    BY <1>1 DEF FileCall, shist, InsertRaises, IndexIt, DeleteHits, DeleteRaises, vvars
  <2>2. PICK t \in Phases :
          /\ Goes(s, t) /\ phase[s] \in {"open", "half"}
          /\ t \in {"half", "both"} => phase[s] = "half" \/ job[s].op \in FileOps
    BY <1>1 DEF FileCall, shist, InsertRaises, IndexIt, DeleteHits, DeleteRaises, Phases
  <2>3. \A f : Stores(s, f) => job[s].op \notin FileOps
    BY DEF Stores, FileOps
  <2>4. \A u \in Sessions, f \in Files : Writing(u, f)' => Writing(u, f)
    BY <2>1, <2>2, <2>3, WritingThen DEF TypeInv, Writing, Stores
  <2>5. Active' \subseteq Active
    BY <2>2, WritingThen DEF Active, TypeInv
  <2> QED  BY <2>1, <2>4, <2>5, StoredFrame
<1>2. ASSUME NEW s \in Sessions, Session(s) PROVE StoredInv'
  BY <1>1, <1>2, OpenStored, InsertStored, DeleteStored, CloseStored DEF Session
<1>3. CASE (\E s \in Sessions : Late(s)) \/ Server \/ UNCHANGED storageVars
  <2>1. UNCHANGED <<vb, rows, file, mem, stored, excused, unread, phase, job>>
    BY <1>3 DEF Late, Server, storageVars, vvars, svars, shist
  <2> QED  BY <2>1, StoredFrame DEF Active, Writing, Stores
<1>4. CASE Crash
  BY <1>4, CrashStored
<1> QED  BY <1>2, <1>3, <1>4 DEF StorageNext

LEMMA InitStored == StorageInit => StoredInv
BY DEF StorageInit, VInit, StoredInv, OwnRows, ServersKeep, FaissKeeps, FaissWrites, Writing

\* A document that its caller was told is stored is there, in every backend, for
\* every interleaving of sessions, deletions, failing writes and crashes, wherever
\* they cut FAISS's files, unless one of the excuses that Storage names is met.
THEOREM StoredStay == StorageSpec => []StoredUnlessExcused
<1>1. StoredInv /\ TypeInv => StoredUnlessExcused
  <2> SUFFICES ASSUME StoredInv, TypeInv, NEW f \in stored \ excused, ~Shared(f)
               PROVE  IF Faiss THEN RowsOf(f) \subseteq Loaded.texts
                      ELSE RowsOf(f) \subseteq rows /\ \A s \in vopen : RowsOf(f) \subseteq Found(s)
    BY DEF StoredUnlessExcused
  <2>1. CASE Faiss
    <3>1. OnFile(f)
      BY <2>1 DEF StoredInv, FaissKeeps, TypeInv, StorageTypeOK
    <3> QED  BY <2>1, <3>1, LoadedIs DEF OnFile, TypeInv, StorageTypeOK
  <2>2. CASE ~Faiss
    <3>1. RowsOf(f) \subseteq rows
      BY <2>2 DEF StoredInv, ServersKeep, TypeInv, StorageTypeOK
    <3>2. vb \in {"chromadb", "qdrant", "milvus"}
      BY <2>2 DEF Faiss, TypeInv, StorageTypeOK, VTypeOK
    <3>3. \A s \in vopen : Found(s) = rows
      BY <3>2 DEF Found, ChromaSearch, QdrantSearch, MilvusSearch
    <3> QED  BY <2>2, <3>1, <3>3
  <2> QED  BY <2>1, <2>2
<1> QED
  BY <1>1, InitStored, NextStored, InitVectors, NextVectors, InitType, NextType, PTL
  DEF StorageSpec

-----------------------------------------------------------------------------
(***************************************************************************)
(* What is deleted stays deleted                                           *)
(***************************************************************************)
AddOf(f)   == [op |-> "add", arg |-> f]
DropOf(n)  == [op |-> "drop", arg |-> n]
Unfound(f) == \A r \in hits : r[2] /= f

\* A deleted file is not found, and will not be, or the server will come to its
\* deletion, behind whatever it still has to add of it.
Gone(f)  == Unfound(f) /\ \A i \in DOMAIN tasks : tasks[i] /= AddOf(f)
Going(f) == \E j \in DOMAIN tasks :
              /\ tasks[j] = DropOf(Stem[f])
              /\ \A i \in DOMAIN tasks : i > j => tasks[i] /= AddOf(f)

MeiliForgets ==
    ib = "meilisearch" =>
      /\ unseen = <<>>
      /\ \A f \in erased \ missed : Gone(f) \/ Going(f)

\* Elasticsearch deletes at once, for a session that is open: it always has a client.
ElasticForgets ==
    ib = "elasticsearch" =>
      /\ tasks = <<>>
      /\ \A s \in Active : iopen[s] = "client"
      /\ \A f \in erased \ missed : Unfound(f) /\ \A i \in DOMAIN unseen : unseen[i] /= f

DeletedInv == MeiliForgets /\ ElasticForgets

LEMMA DeletedFrame ==
    ASSUME DeletedInv, UNCHANGED <<ib, tasks, unseen, hits>>, erased' \ missed' \subseteq erased \ missed,
           ib = "elasticsearch" => \A s \in Active' : iopen'[s] = "client"
    PROVE  DeletedInv'
<1>1. \A f : (Unfound(f)' <=> Unfound(f)) /\ (Gone(f)' <=> Gone(f)) /\ (Going(f)' <=> Going(f))
  BY DEF Unfound, Gone, Going
<1>2. MeiliForgets'
  BY <1>1 DEF DeletedInv, MeiliForgets
<1>3. ElasticForgets'
  BY <1>1 DEF DeletedInv, ElasticForgets
<1> QED  BY <1>2, <1>3 DEF DeletedInv

\* A task that adds nothing of a file leaves its deletion as it is.
LEMMA AppendForgets ==
    ASSUME tasks \in Seq(Task), NEW t \in Task, tasks' = Append(tasks, t), hits' = hits,
           NEW f, t /= AddOf(f), Gone(f) \/ Going(f)
    PROVE  Gone(f)' \/ Going(f)'
<1>1. /\ DOMAIN tasks' = DOMAIN tasks \union {Len(tasks) + 1}
      /\ \A i \in DOMAIN tasks : tasks'[i] = tasks[i]
      /\ tasks'[Len(tasks) + 1] = t
  OBVIOUS
<1>2. CASE Gone(f)
  BY <1>1, <1>2 DEF Gone, Unfound
<1>3. CASE Going(f)
  <2>1. PICK j \in DOMAIN tasks :
          /\ tasks[j] = DropOf(Stem[f])
          /\ \A i \in DOMAIN tasks : i > j => tasks[i] /= AddOf(f)
    BY <1>3 DEF Going
  <2>2. j \in DOMAIN tasks' /\ tasks'[j] = DropOf(Stem[f])
    BY <1>1, <2>1
  <2>3. \A i \in DOMAIN tasks' : i > j => tasks'[i] /= AddOf(f)
    BY <1>1, <2>1
  <2> QED  BY <2>2, <2>3 DEF Going
<1> QED  BY <1>2, <1>3

LEMMA TasksAre ==
    /\ Create \in Task /\ Fields \in Task
    /\ \A f : Create /= AddOf(f) /\ Fields /= AddOf(f)
    /\ \A f : f \in Files => AddOf(f) \in Task
    /\ \A n : n \in DocNames => DropOf(n) \in Task /\ \A f : DropOf(n) /= AddOf(f)
    /\ \A f, g : AddOf(f) = AddOf(g) => f = g
BY DEF Task, Create, Fields, AddOf, DropOf

\* What is appended to the tasks by a session.
LEMMA AppendedForgets ==
    ASSUME MeiliForgets, StorageTypeOK, ib = "meilisearch", UNCHANGED <<ib, unseen, hits>>,
           NEW t \in Task, tasks' = Append(tasks, t),
           \A f \in erased' \ missed' : f \in erased \ missed /\ t /= AddOf(f)
    PROVE  MeiliForgets'
<1>1. tasks \in Seq(Task)
  BY DEF StorageTypeOK, ITypeOK
<1>2. \A f \in erased' \ missed' : Gone(f)' \/ Going(f)'
  BY <1>1, AppendForgets DEF MeiliForgets
<1> QED  BY <1>2 DEF MeiliForgets

LEMMA OpenDeleted ==
    ASSUME DeletedInv, TypeInv, NEW s \in Sessions, Open(s) PROVE DeletedInv'
<1>1. UNCHANGED <<erased, missed, unseen, hits, ib>> /\ IOpen(s)
  BY DEF Open, IOpen, MeiliOpen, ElasticOpen
<1>2. Active' \subseteq Active \union {s} /\ Active \subseteq Sessions
  BY DEF Open, Goes, Active, TypeInv, StorageTypeOK
<1>3. CASE MeiliOpen(s)
  <2>1. ib = "meilisearch"
    BY <1>3 DEF MeiliOpen
  <2>2. tasks' = tasks \/ tasks' = Append(tasks, Fields) \/ tasks' = Append(tasks, Create)
    <3>1. tasks = <<>> /\ tasks' = <<Fields>> => tasks' = Append(tasks, Fields)
      OBVIOUS
    <3> QED  BY <1>3, <3>1 DEF MeiliOpen
  <2>3. CASE tasks' = tasks
    BY <1>1, <2>1, <2>3, DeletedFrame
  <2>4. CASE tasks' = Append(tasks, Fields) \/ tasks' = Append(tasks, Create)
    <3>1. MeiliForgets'
      BY <1>1, <2>1, <2>4, TasksAre, AppendedForgets DEF DeletedInv, TypeInv
    <3> QED  BY <1>1, <2>1, <3>1 DEF DeletedInv, ElasticForgets
  <2> QED  BY <2>2, <2>3, <2>4
<1>4. CASE ElasticOpen(s)
  <2>1. iopen'[s] = "client" /\ (\A u \in Sessions \ {s} : iopen'[u] = iopen[u]) /\ tasks' = tasks
    BY <1>4 DEF ElasticOpen, TypeInv, StorageTypeOK, ITypeOK
  <2> QED  BY <1>1, <1>2, <2>1, DeletedFrame DEF DeletedInv, ElasticForgets
<1> QED  BY <1>1, <1>3, <1>4 DEF IOpen

LEMMA IndexDeleted ==
    ASSUME DeletedInv, TypeInv, NEW s \in Sessions, IndexIt(s) PROVE DeletedInv'
<1>1. PICK f \in Files :
        (IIndex(s, f) \/ UNCHANGED ivars) /\ erased' = erased \ {f} /\ missed' = missed \ {f}
  BY DEF IndexIt
<1>2. Active' \subseteq Active /\ UNCHANGED <<ib, iopen, hits>>
  BY <1>1 DEF IndexIt, Goes, Active, TypeInv, StorageTypeOK, IIndex, ivars
<1>3. \A g \in erased' \ missed' : g \in erased \ missed /\ g /= f
  BY <1>1
<1>4. CASE UNCHANGED <<tasks, unseen>>
  BY <1>2, <1>3, <1>4, DeletedFrame DEF DeletedInv, ElasticForgets
<1>5. CASE MeiliIndex(s, f) /\ tasks' = Append(tasks, AddOf(f))
  <2>1. ib = "meilisearch" /\ unseen' = unseen
    BY <1>5 DEF MeiliIndex
  <2>2. \A g \in erased' \ missed' : g \in erased \ missed /\ AddOf(f) /= AddOf(g)
    BY <1>3, TasksAre
  <2>3. MeiliForgets'
    BY <1>2, <1>5, <2>1, <2>2, TasksAre, AppendedForgets DEF DeletedInv, TypeInv
  <2> QED  BY <1>2, <2>1, <2>3 DEF DeletedInv, ElasticForgets
<1>6. CASE ElasticIndex(s, f) /\ unseen' = Append(unseen, f)
  <2>1. ib = "elasticsearch" /\ tasks' = tasks /\ unseen \in Seq(Files)
    BY <1>6 DEF ElasticIndex, TypeInv, StorageTypeOK, ITypeOK
  <2>2. \A i \in DOMAIN unseen' : unseen'[i] = f \/ (i \in DOMAIN unseen /\ unseen'[i] = unseen[i])
    BY <1>6, <2>1
  <2>3. \A g : Unfound(g)' <=> Unfound(g)
    BY <1>2 DEF Unfound
  <2>4. ElasticForgets'
    BY <1>2, <1>3, <2>1, <2>2, <2>3 DEF DeletedInv, ElasticForgets
  <2> QED  BY <1>2, <2>1, <2>4 DEF DeletedInv, MeiliForgets
<1> QED
  BY <1>1, <1>4, <1>5, <1>6 DEF IIndex, MeiliIndex, ElasticIndex, ivars, AddOf

LEMMA HitsDeleted ==
    ASSUME DeletedInv, TypeInv, NEW s \in Sessions, DeleteHits(s) PROVE DeletedInv'
<1>1. PICK n \in DocNames :
        /\ IDelete(s, n)
        /\ erased' = IF ib = "elasticsearch" \/ iopen[s] = "index"
                       THEN erased \union Stemmed(n) ELSE erased
        /\ missed' = missed \union {f \in Stemmed(n) : \E i \in DOMAIN unseen : unseen[i] = f}
  BY DEF DeleteHits
<1>2. Active' \subseteq Active /\ s \in Active /\ UNCHANGED <<ib, iopen>>
  BY <1>1 DEF DeleteHits, Goes, Active, TypeInv, StorageTypeOK, IDelete
<1>3. CASE MeiliDelete(s, n)
  <2>1. ib = "meilisearch" /\ UNCHANGED <<unseen, hits>>
    BY <1>3 DEF MeiliDelete
  <2>2. CASE iopen[s] = "index"
    <3>1. tasks' = Append(tasks, DropOf(n)) /\ tasks \in Seq(Task)
      BY <1>3, <2>2 DEF MeiliDelete, DropOf, TypeInv, StorageTypeOK, ITypeOK
    <3>2. DropOf(n) \in Task /\ \A f : DropOf(n) /= AddOf(f)
      BY TasksAre
    <3>3. ASSUME NEW f \in erased' \ missed', f \in Stemmed(n) PROVE Going(f)'
      <4>1. /\ DOMAIN tasks' = 1 .. Len(tasks) + 1 /\ tasks'[Len(tasks) + 1] = DropOf(n)
            /\ Len(tasks) \in Nat
        BY <3>1, <3>2
      <4>2. n = Stem[f]
        BY <3>3 DEF Stemmed
      <4>3. \A i \in DOMAIN tasks' : ~(i > Len(tasks) + 1)
        BY <4>1
      <4> QED  BY <4>1, <4>2, <4>3 DEF Going
    <3>4. ASSUME NEW f \in erased' \ missed', f \notin Stemmed(n) PROVE Gone(f)' \/ Going(f)'
      <4>1. Gone(f) \/ Going(f)
        BY <1>1, <2>1, <3>4 DEF DeletedInv, MeiliForgets
      <4> QED  BY <2>1, <3>1, <3>2, <4>1, AppendForgets
    <3>5. MeiliForgets'
      BY <1>2, <2>1, <3>3, <3>4 DEF DeletedInv, MeiliForgets
    <3> QED  BY <1>2, <2>1, <3>5 DEF DeletedInv, ElasticForgets
  <2>3. CASE iopen[s] /= "index"
    BY <1>1, <1>2, <1>3, <2>1, <2>3, DeletedFrame DEF MeiliDelete
  <2> QED  BY <2>2, <2>3
<1>4. CASE ElasticDelete(s, n)
  <2>1. ib = "elasticsearch" /\ iopen[s] = "client" /\ tasks' = tasks
    BY <1>2, <1>4 DEF ElasticDelete, DeletedInv, ElasticForgets
  <2>2. ASSUME NEW f \in erased' \ missed'
        PROVE  Unfound(f)' /\ \A i \in DOMAIN unseen' : unseen'[i] /= f
    <3>1. \A i \in DOMAIN unseen : unseen[i] /= f
      BY <1>1, <2>1, <2>2 DEF DeletedInv, ElasticForgets
    <3>2. \A r \in Except(hits, n) : r[2] /= f
      BY <1>1, <2>1, <2>2 DEF DeletedInv, ElasticForgets, Unfound, Except, Of
    <3>3. \A r \in Refreshed(Except(hits, n), unseen) : r[2] /= f
      BY <3>1, <3>2 DEF Refreshed, Latest, RowsOf
    <3> QED  BY <1>4, <2>1, <3>1, <3>2, <3>3 DEF ElasticDelete, Unfound
  <2> QED  BY <1>2, <2>1, <2>2 DEF DeletedInv, MeiliForgets, ElasticForgets
<1> QED  BY <1>1, <1>3, <1>4 DEF IDelete

LEMMA WorkOffDeleted == ASSUME DeletedInv, TypeInv, WorkOff, UNCHANGED svars PROVE DeletedInv'
<1>1. /\ tasks \in Seq(Task) /\ tasks /= <<>> /\ ib \in {"meilisearch", "elasticsearch"}
      /\ tasks' = Tail(tasks) /\ UNCHANGED <<ib, unseen, erased, missed>>
  BY DEF WorkOff, TypeInv, StorageTypeOK, ITypeOK, svars, shist
<1>2. ib = "meilisearch"
  BY <1>1 DEF DeletedInv, ElasticForgets
<1> DEFINE t == tasks[1]
<1>3. /\ 1 \in DOMAIN tasks /\ t \in Task
      /\ \A i \in DOMAIN tasks' : i + 1 \in DOMAIN tasks /\ tasks'[i] = tasks[i + 1]
      /\ \A j \in DOMAIN tasks : j /= 1 => j - 1 \in DOMAIN tasks'
      /\ DOMAIN tasks \subseteq Nat \ {0} /\ DOMAIN tasks' \subseteq Nat \ {0}
  BY <1>1
<1>4. hits' = CASE t.op = "add"  -> Upserted(hits, t.arg)
                [] t.op = "drop" -> Except(hits, t.arg)
                [] OTHER         -> hits
  BY <1>1 DEF WorkOff
<1> HIDE DEF t
<1>5. /\ t.op = "add" => t = AddOf(t.arg) /\ t.arg \in Files
      /\ t.op \in {"add", "drop", "create", "fields"}
  BY <1>3 DEF Task, AddOf, Create, Fields
<1>6. ASSUME NEW f, Gone(f) PROVE Gone(f)'
  <2>1. t /= AddOf(f) /\ Unfound(f)
    BY <1>3, <1>6 DEF Gone, t
  <2>2. CASE t.op = "add"
    <3>1. t.arg /= f
      BY <1>5, <2>1, <2>2
    <3>2. \A r \in Upserted(hits, t.arg) : r[2] /= f
      BY <2>1, <3>1 DEF Unfound, Upserted, Without, RowsOf
    <3>3. Unfound(f)'
      BY <1>4, <2>2, <3>2 DEF Unfound
    <3> QED  BY <1>3, <1>6, <3>3 DEF Gone
  <2>3. CASE t.op /= "add"
    <3>1. hits' \subseteq hits
      BY <1>4, <2>3 DEF Except
    <3>2. Unfound(f)'
      BY <2>1, <3>1 DEF Unfound
    <3> QED  BY <1>3, <1>6, <3>2 DEF Gone
  <2> QED  BY <2>2, <2>3
<1>7. ASSUME NEW f \in Files, Going(f) PROVE Gone(f)' \/ Going(f)'
  <2>1. PICK j \in DOMAIN tasks :
          /\ tasks[j] = DropOf(Stem[f])
          /\ \A i \in DOMAIN tasks : i > j => tasks[i] /= AddOf(f)
    BY <1>7 DEF Going
  <2>2. CASE j = 1
    <3>1. t.op = "drop" /\ t.arg = Stem[f]
      BY <2>1, <2>2 DEF t, DropOf
    <3>2. hits' = Except(hits, Stem[f])
      BY <1>4, <3>1
    <3>3. Unfound(f)'
      BY <3>2 DEF Unfound, Except, Of, Stemmed
    <3>4. \A i \in DOMAIN tasks' : tasks'[i] /= AddOf(f)
      BY <1>3, <2>1, <2>2
    <3> QED  BY <3>3, <3>4 DEF Gone
  <2>3. CASE j /= 1
    <3>1. j - 1 \in DOMAIN tasks' /\ tasks'[j - 1] = DropOf(Stem[f])
      BY <1>3, <2>1, <2>3
    <3>2. \A i \in DOMAIN tasks' : i > j - 1 => tasks'[i] /= AddOf(f)
      BY <1>3, <2>1
    <3> QED  BY <3>1, <3>2 DEF Going
  <2> QED  BY <2>2, <2>3
<1>8. \A f \in erased' \ missed' : Gone(f)' \/ Going(f)'
  BY <1>1, <1>2, <1>6, <1>7 DEF DeletedInv, MeiliForgets, TypeInv, StorageTypeOK
<1> QED  BY <1>1, <1>2, <1>8 DEF DeletedInv, MeiliForgets, ElasticForgets

LEMMA RefreshDeleted == ASSUME DeletedInv, TypeInv, Refresh, UNCHANGED svars PROVE DeletedInv'
<1>1. /\ unseen /= <<>> /\ hits' = Refreshed(hits, unseen) /\ unseen' = <<>>
      /\ UNCHANGED <<ib, iopen, tasks, erased, missed>> /\ Active' = Active
  BY DEF Refresh, svars, shist, Active
<1>2. ib = "elasticsearch"
  BY <1>1 DEF DeletedInv, MeiliForgets, TypeInv, StorageTypeOK, ITypeOK
<1>3. ASSUME NEW f \in erased \ missed PROVE Unfound(f)'
  <2>1. Unfound(f) /\ \A i \in DOMAIN unseen : unseen[i] /= f
    BY <1>2 DEF DeletedInv, ElasticForgets
  <2>2. \A r \in Refreshed(hits, unseen) : r[2] /= f
    BY <2>1 DEF Unfound, Refreshed, Latest, RowsOf
  <2> QED  BY <1>1, <2>2 DEF Unfound
<1>4. DOMAIN unseen' = {}
  BY <1>1
<1> QED  BY <1>1, <1>2, <1>3, <1>4 DEF DeletedInv, MeiliForgets, ElasticForgets

LEMMA NextDeleted == DeletedInv /\ TypeInv /\ [StorageNext]_storageVars => DeletedInv'
<1> SUFFICES ASSUME DeletedInv, TypeInv, [StorageNext]_storageVars PROVE DeletedInv'
  OBVIOUS
<1>1. ASSUME NEW s \in Sessions,
             FileCall(s) \/ Insert(s) \/ InsertRaises(s) \/ DeleteVectors(s) \/ DeleteRaises(s)
      PROVE  DeletedInv'
  <2>1. UNCHANGED <<ib, iopen, tasks, unseen, hits, erased, missed>> /\ Active' \subseteq Active
    BY <1>1
    DEF FileCall, shist, Insert, InsertRaises, DeleteVectors, DeleteRaises, ivars, Goes, Active, TypeInv,
        StorageTypeOK
  <2> QED  BY <2>1, DeletedFrame DEF DeletedInv, ElasticForgets
<1>2. ASSUME NEW s \in Sessions, Close(s) \/ CloseFails(s) PROVE DeletedInv'
  <2>0. Closing(s)
    BY <1>2 DEF Close, CloseFails
  <2>1. UNCHANGED <<ib, tasks, unseen, hits, erased, missed>>
    BY <2>0 DEF Closing, IClose
  <2>2. Active' \subseteq Active \ {s} /\ Active \subseteq Sessions
    BY <2>0 DEF Closing, Goes, Active, TypeInv, StorageTypeOK
  <2>3. \A u \in Sessions \ {s} : iopen'[u] = iopen[u]
    BY <2>0 DEF Closing, IClose, MeiliClose, ElasticClose, TypeInv, StorageTypeOK, ITypeOK
  <2> QED  BY <2>1, <2>2, <2>3, DeletedFrame DEF DeletedInv, ElasticForgets
<1>3. ASSUME NEW s \in Sessions, Session(s) PROVE DeletedInv'
  BY <1>1, <1>2, <1>3, OpenDeleted, IndexDeleted, HitsDeleted DEF Session
<1>4. CASE (\E s \in Sessions : Late(s)) \/ UNCHANGED storageVars
  <2>1. UNCHANGED <<ib, iopen, tasks, unseen, hits, erased, missed>> /\ Active' = Active
    BY <1>4 DEF Late, storageVars, ivars, svars, shist, Active
  <2> QED  BY <2>1, DeletedFrame DEF DeletedInv, ElasticForgets
<1>5. CASE Server
  BY <1>5, WorkOffDeleted, RefreshDeleted DEF Server
<1>6. CASE Crash
  <2>1. UNCHANGED <<ib, tasks, unseen, hits, erased, missed>> /\ Active' = {}
    BY <1>6 DEF Crash, ICrash, Active
  <2> QED  BY <2>1, DeletedFrame
<1> QED  BY <1>3, <1>4, <1>5, <1>6 DEF StorageNext

LEMMA InitDeleted == StorageInit => DeletedInv
BY DEF StorageInit, IInit, DeletedInv, MeiliForgets, ElasticForgets, Active

\* What was deleted from the full-text index is not found once the server is through
\* with its queue, whatever else was written to it in between.
THEOREM DeletedForGood == StorageSpec => []DeletedStaysDeleted
<1>1. DeletedInv /\ TypeInv => DeletedStaysDeleted
  BY DEF DeletedInv, MeiliForgets, ElasticForgets, DeletedStaysDeleted, Gone, Going, Unfound,
     TypeInv, StorageTypeOK, ITypeOK
<1> QED  BY <1>1, InitDeleted, NextDeleted, InitType, NextType, PTL DEF StorageSpec

-----------------------------------------------------------------------------
(***************************************************************************)
(* A file is what the last put() made of it                                *)
(***************************************************************************)

\* What the place of a call says of its paths.
Placed(s) ==
    /\ at[s] \in Changing => path[s] \in under[s]
    /\ at[s] \in {"write", "lost", "next", "unlink"} => job[s].arg \in Keys
    /\ at[s] \in {"write", "lost"} =>
          \/ job[s].op = "put" /\ path[s] = job[s].arg /\ under[s] = {job[s].arg}
          \/ job[s].op = "describe" /\ under[s] = Pair(job[s].arg)
    /\ at[s] = "next" => /\ job[s].op \in {"describe", "remove"}
                         /\ path[s] = job[s].arg /\ under[s] = Pair(job[s].arg)
    /\ at[s] = "unlink" => job[s].op = "remove" /\ under[s] = Pair(job[s].arg)
    /\ at[s] = "probing" => job[s].op = "probe" /\ path[s] = Probe /\ under[s] = {Probe}
    /\ at[s] \in {"send", "late"} => under[s] = {path[s]}

CallKnows(s) ==
    /\ phase[s] = "idle" => at[s] = "no"
    /\ at[s] = "no" => s \notin alone
    /\ at[s] \in Changing \ {"late"} => phase[s] = "open" /\ job[s].op \in FileOps
    /\ Placed(s)

\* The file of a pair is written or removed before the sidecar is.
FirstDone(s) ==
    \/ at[s] = "next"
    \/ at[s] \in {"write", "unlink"} /\ path[s] /= job[s].arg

\* Who has its paths for itself is the only one at work there, and finds what it
\* left.
ByItself(s) == \A u \in Sessions \ {s} : at[u] \in Changing => under[u] \cap under[s] = {}
Finds(s) ==
    /\ at[s] = "sick" => s \in refused
    /\ FirstDone(s) => disk[job[s].arg] = IF job[s].op = "remove" THEN None ELSE s
    /\ at[s] = "probing" => disk[Probe] /= None
AloneKnows(s) ==
    s \in alone => (at[s] \in Changing => ByItself(s)) /\ at[s] /= "lost" /\ Finds(s)

LastPutAt(p) == AtWork(p) = {} => settled[p] \in {Unknown, disk[p]}

FilesInv == /\ \A s \in Sessions : CallKnows(s)
            /\ \A s \in Sessions : AloneKnows(s)
            /\ \A p \in Paths : LastPutAt(p)

\* What a session does otherwise leaves the files as they are.
LEMMA FilesFrame ==
    ASSUME FilesInv, NEW s \in Sessions, UNCHANGED fcalls,
           \A u \in Sessions \ {s} : job'[u] = job[u] /\ phase'[u] = phase[u],
           at[s] \in Changing \ {"late"} => job'[s] = job[s] /\ phase'[s] = phase[s],
           phase'[s] = "idle" => phase[s] = "idle"
    PROVE  FilesInv'
<1> USE DEF fcalls
<1>1. \A p : AtWork(p)' = AtWork(p)
  BY DEF AtWork
<1>2. \A p \in Paths : LastPutAt(p)'
  BY <1>1 DEF FilesInv, LastPutAt
<1>3. ASSUME NEW u \in Sessions PROVE CallKnows(u)' /\ AloneKnows(u)'
  <2>1. CallKnows(u) /\ AloneKnows(u)
    BY DEF FilesInv
  <2>2. CASE job'[u] = job[u] /\ (phase'[u] = phase[u])
    BY <2>1, <2>2 DEF CallKnows, Placed, AloneKnows, ByItself, Finds, FirstDone
  <2>3. CASE u = s /\ at[s] \notin Changing \ {"late"}
    BY <2>1, <2>3 DEF CallKnows, Placed, AloneKnows, ByItself, Finds, FirstDone, Changing
  <2> QED  BY <2>2, <2>3
<1> QED  BY <1>2, <1>3 DEF FilesInv

\* A call that is at work, or comes to work, leaves the others what they have.
Apart(s) ==
    /\ at[s] \in Changing => under'[s] = under[s]
    /\ \A u \in Sessions \ {s} :
          /\ path'[u] = path[u] /\ under'[u] = under[u]
          /\ \/ at'[u] = at[u]
             \/ /\ at[u] = "write" /\ at'[u] = "lost"
                /\ path[u] = path[s] /\ at[s] \in Changing
    /\ \A p \in Paths \ under'[s] : disk'[p] = disk[p] /\ settled'[p] = settled[p]
    /\ \A u \in alone' \ {s} :
          u \in alone /\ (at[u] \in Changing => under[u] \cap under'[s] = {})
    /\ refused \subseteq refused'

\* What is left of the session when its call has taken a step.
Steps(s) ==
    /\ job' = job /\ \A u \in Sessions \ {s} : phase'[u] = phase[u]
    /\ at'[s] /= "no" /\ phase'[s] /= "idle"
    /\ at'[s] \in Changing \ {"late"} => phase'[s] = "open" /\ job[s].op \in FileOps

LEMMA WorkApart ==
    ASSUME NEW s \in Sessions, Apart(s)
    PROVE  /\ \A u \in Sessions \ {s} : at'[u] \in Changing <=> at[u] \in Changing
           /\ \A p : p \notin under'[s] => AtWork(p)' = AtWork(p)
<1>1. \A u \in Sessions \ {s} : at'[u] \in Changing <=> at[u] \in Changing
  BY DEF Apart, Changing
<1>2. ASSUME NEW p, p \notin under'[s] PROVE AtWork(p)' = AtWork(p)
  <2>1. s \notin AtWork(p) /\ s \notin AtWork(p)'
    BY <1>2 DEF Apart, AtWork
  <2>2. \A u \in Sessions \ {s} : u \in AtWork(p)' <=> u \in AtWork(p)
    BY <1>1 DEF Apart, AtWork
  <2>3. AtWork(p) \subseteq Sessions /\ AtWork(p)' \subseteq Sessions
    BY DEF AtWork
  <2> QED  BY <2>1, <2>2, <2>3
<1> QED  BY <1>1, <1>2

LEMMA CallsApart ==
    ASSUME NEW s \in Sessions, Apart(s), Steps(s), NEW u \in Sessions \ {s}, CallKnows(u)
    PROVE  CallKnows(u)'
<1>1. path'[u] = path[u] /\ under'[u] = under[u] /\ job'[u] = job[u] /\ phase'[u] = phase[u]
  BY DEF Apart, Steps
<1>2. u \in alone' => u \in alone
  BY DEF Apart
<1>3. at'[u] = at[u] \/ (at[u] = "write" /\ at'[u] = "lost")
  BY DEF Apart
<1> QED  BY <1>1, <1>2, <1>3 DEF CallKnows, Placed, Changing

LEMMA AloneApart ==
    ASSUME FTypeOK, NEW s \in Sessions, Apart(s), Steps(s), CallKnows(s), NEW u \in Sessions \ {s},
           AloneKnows(u), CallKnows(u)
    PROVE  AloneKnows(u)'
<1> SUFFICES ASSUME u \in alone' PROVE AloneKnows(u)'
  BY DEF AloneKnows
<1>1. u \in alone /\ (at[u] \in Changing => under[u] \cap under'[s] = {})
  BY DEF Apart
<1>2. at'[u] = at[u]
  <2> SUFFICES ASSUME at[u] = "write", path[u] = path[s], at[s] \in Changing PROVE FALSE
    BY DEF Apart
  <2>1. path[u] \in under[u] /\ path[s] \in under[s] /\ under'[s] = under[s]
    BY DEF CallKnows, Placed, Changing, Apart
  <2> QED  BY <1>1, <2>1 DEF Changing
<1>3. path'[u] = path[u] /\ under'[u] = under[u] /\ job'[u] = job[u]
  BY DEF Apart, Steps
<1>4. at[u] \in Changing => ByItself(u)'
  <2> SUFFICES ASSUME at[u] \in Changing, NEW v \in Sessions \ {u}, at'[v] \in Changing
               PROVE  under'[v] \cap under'[u] = {}
    BY DEF ByItself
  <2>1. CASE v = s
    BY <1>1, <1>3, <2>1
  <2>2. CASE v /= s
    <3>1. at[v] \in Changing /\ under'[v] = under[v]
      BY <2>2, WorkApart DEF Apart
    <3> QED  BY <1>1, <1>3, <3>1 DEF AloneKnows, ByItself
  <2> QED  BY <2>1, <2>2
<1>5. ASSUME at[u] \in Changing, NEW p \in under[u] PROVE disk'[p] = disk[p]
  BY <1>1, <1>5 DEF Apart, FTypeOK
<1>6. FirstDone(u) => at[u] \in Changing /\ job[u].arg \in under[u]
  BY DEF FirstDone, CallKnows, Placed, Changing, Pair
<1>7. at[u] = "probing" => at[u] \in Changing /\ Probe \in under[u]
  BY DEF CallKnows, Placed, Changing
<1>8. Finds(u)
  BY <1>1 DEF AloneKnows
<1>9. Finds(u)'
  <2>1. FirstDone(u)' = FirstDone(u)
    BY <1>2, <1>3 DEF FirstDone
  <2>2. at'[u] = "sick" => u \in refused'
    BY <1>2, <1>8 DEF Apart, Finds
  <2>3. FirstDone(u) => disk'[job[u].arg] = IF job[u].op = "remove" THEN None ELSE u
    BY <1>5, <1>6, <1>8 DEF Finds
  <2>4. at'[u] = "probing" => disk'[Probe] /= None
    BY <1>2, <1>5, <1>7, <1>8 DEF Finds
  <2> QED  BY <1>3, <2>1, <2>2, <2>3, <2>4 DEF Finds
<1>10. at[u] /= "lost"
  BY <1>1 DEF AloneKnows
<1> QED  BY <1>2, <1>4, <1>9, <1>10 DEF AloneKnows

\* So it is enough to look at the call and at its paths.
LEMMA FilesStep ==
    ASSUME FilesInv, FTypeOK, NEW s \in Sessions, Apart(s), Steps(s),
           Placed(s)', AloneKnows(s)', \A p \in under'[s] : LastPutAt(p)'
    PROVE  FilesInv'
<1>1. \A u \in Sessions : CallKnows(u)'
  <2>1. CallKnows(s)'
    BY DEF Steps, CallKnows
  <2>2. \A u \in Sessions \ {s} : CallKnows(u)'
    BY CallsApart DEF FilesInv
  <2> QED  BY <2>1, <2>2
<1>2. \A u \in Sessions : AloneKnows(u)'
  BY AloneApart DEF FilesInv
<1>3. ASSUME NEW p \in Paths \ under'[s] PROVE LastPutAt(p)'
  <2>1. AtWork(p)' = AtWork(p) /\ disk'[p] = disk[p] /\ settled'[p] = settled[p]
    BY <1>3, WorkApart DEF Apart
  <2>2. LastPutAt(p)
    BY DEF FilesInv
  <2> QED  BY <2>1, <2>2 DEF LastPutAt
<1>4. \A p \in Paths : LastPutAt(p)'
  BY <1>3
<1> QED  BY <1>1, <1>2, <1>4 DEF FilesInv

\* A call that begins: it has its paths for itself if nobody is at work on one.
LEMMA BeginsStep ==
    ASSUME FilesInv, FTypeOK, NEW s \in Sessions, Steps(s), at[s] = "no",
           NEW P \in SUBSET Paths, Enters(s, P),
           NEW a \in Changing \ {"lost"}, Comes(s, a), NEW p \in P, Turns(s, p),
           UNCHANGED disk \/ \E v : Holds(p, v), Placed(s)', Finds(s)'
    PROVE  FilesInv'
<1>1. s \notin alone /\ at[s] \notin Changing
  BY DEF FilesInv, CallKnows, Changing
<1>2. /\ at'[s] = a /\ under'[s] = P
      /\ \A u \in Sessions \ {s} : at'[u] = at[u] /\ path'[u] = path[u] /\ under'[u] = under[u]
  BY DEF FTypeOK, Comes, Turns, Enters
<1>3. /\ \A q \in Paths \ P : disk'[q] = disk[q]
      /\ UNCHANGED <<settled, refused>>
  BY DEF FTypeOK, Holds, Enters
<1> DEFINE rivals == UNION {AtWork(q) : q \in P}
<1>4. alone' = IF rivals = {} THEN alone \union {s} ELSE alone \ rivals
  BY DEF Enters
<1>5. \A u \in Sessions : at[u] \in Changing /\ under[u] \cap P /= {} => u \in rivals
  BY DEF AtWork
<1> HIDE DEF rivals
<1>6. \A u \in alone' \ {s} : u \in alone /\ (at[u] \in Changing => under[u] \cap P = {})
  BY <1>4, <1>5 DEF FTypeOK
<1>7. Apart(s)
  BY <1>1, <1>2, <1>3, <1>6 DEF Apart
<1>8. s \in alone' => ByItself(s)'
  BY <1>1, <1>2, <1>4, <1>5 DEF ByItself
<1>9. AloneKnows(s)'
  BY <1>2, <1>8 DEF AloneKnows
<1>10. \A q \in under'[s] : LastPutAt(q)'
  BY <1>2 DEF LastPutAt, AtWork
<1> QED  BY <1>7, <1>9, <1>10, FilesStep

\* A call that goes on.
LEMMA WorksApart ==
    ASSUME FilesInv, FTypeOK, NEW s \in Sessions, at[s] \in Changing,
           NEW a, Comes(s, a) \/ Cuts(s, a), UNCHANGED <<under, alone>>,
           refused \subseteq refused', UNCHANGED path \/ \E p : Turns(s, p),
           UNCHANGED disk \/ \E p \in under[s] : \E v : Holds(p, v),
           \A p \in Paths \ under[s] : settled'[p] = settled[p]
    PROVE  /\ Apart(s) /\ at'[s] = a /\ under'[s] = under[s]
           /\ s \in alone' => s \in alone /\ ByItself(s)'
<1>1. /\ under'[s] = under[s] /\ alone' = alone
      /\ \A u \in Sessions \ {s} : path'[u] = path[u] /\ under'[u] = under[u]
  BY DEF Turns, FTypeOK
<1>2. /\ at'[s] = a
      /\ \A u \in Sessions \ {s} : \/ at'[u] = at[u]
                                   \/ at[u] = "write" /\ at'[u] = "lost" /\ path[u] = path[s]
  BY DEF Comes, Cuts, FTypeOK
<1>3. \A p \in Paths \ under[s] : disk'[p] = disk[p]
  BY DEF Holds, FTypeOK
<1>4. \A u \in alone \ {s} : at[u] \in Changing => under[u] \cap under[s] = {}
  BY DEF FilesInv, AloneKnows, ByItself, FTypeOK
<1>5. Apart(s)
  BY <1>1, <1>2, <1>3, <1>4 DEF Apart
<1>6. s \in alone => ByItself(s)'
  <2>1. s \in alone => ByItself(s)
    BY DEF FilesInv, AloneKnows
  <2>2. \A u \in Sessions \ {s} : at'[u] \in Changing <=> at[u] \in Changing
    BY <1>5, WorkApart
  <2> QED  BY <1>1, <2>1, <2>2 DEF ByItself
<1> QED  BY <1>1, <1>2, <1>5, <1>6

LEMMA GoesOnStep ==
    ASSUME FilesInv, FTypeOK, NEW s \in Sessions, Steps(s), at[s] \in Changing, GoesOn,
           NEW a \in Changing \ {"lost"}, Comes(s, a) \/ Cuts(s, a),
           UNCHANGED path \/ \E p : Turns(s, p),
           UNCHANGED disk \/ \E p \in under[s] : \E v : Holds(p, v),
           Placed(s)', s \in alone => Finds(s)'
    PROVE  FilesInv'
<1>1. /\ Apart(s) /\ at'[s] = a /\ under'[s] = under[s]
      /\ s \in alone' => s \in alone /\ ByItself(s)'
  BY WorksApart DEF GoesOn
<1>2. AloneKnows(s)'
  BY <1>1 DEF AloneKnows
<1>3. \A q \in under'[s] : LastPutAt(q)'
  BY <1>1 DEF LastPutAt, AtWork
<1> QED  BY <1>1, <1>2, <1>3, FilesStep

\* A call that ends: what it left is there, if it had its paths for itself.
LEMMA EndsStep ==
    ASSUME FilesInv, FTypeOK, NEW s \in Sessions, Steps(s), at[s] \in Changing, Owned,
           NEW a \in {"done", "raised", "sick", "late"}, Comes(s, a) \/ Cuts(s, a),
           refused \subseteq refused', a = "sick" /\ s \in alone => s \in refused',
           UNCHANGED disk \/ \E p \in under[s] : \E v : Holds(p, v),
           a = "late" => at[s] = "send",
           NEW left, Leaves(s, left),
           s \in alone => left = Unknown \/ \A p \in under[s] : disk'[p] = left
    PROVE  FilesInv'
<1>1. \A p \in Paths \ under[s] : settled'[p] = settled[p]
  BY DEF Leaves
<1>2. /\ Apart(s) /\ at'[s] = a /\ under'[s] = under[s]
      /\ s \in alone' => s \in alone /\ ByItself(s)'
  BY <1>1, WorksApart DEF Owned
<1>3. Placed(s)'
  BY <1>2 DEF Placed, Changing, Owned, FilesInv, CallKnows
<1>4. AloneKnows(s)'
  BY <1>2 DEF AloneKnows, Finds, FirstDone
<1>5. under[s] \subseteq Paths
  BY DEF FTypeOK
<1>6. \A p \in under'[s] : LastPutAt(p)'
  BY <1>2, <1>5 DEF LastPutAt, Leaves
<1> QED  BY <1>2, <1>3, <1>4, <1>6, FilesStep

\* A call that changes nothing.
Idles(s) ==
    /\ at[s] \in {"no", "read"}
    /\ \E a \in {"done", "raised", "sick", "read"} : Comes(s, a) /\ (a = "sick" => at[s] = "no")
    /\ refused \subseteq refused' /\ UNCHANGED <<disk, path, under, settled, alone>>

LEMMA IdlesStep ==
    ASSUME FilesInv, FTypeOK, NEW s \in Sessions, Steps(s), Idles(s)
    PROVE  FilesInv'
<1>1. PICK a \in {"done", "raised", "sick", "read"} : Comes(s, a) /\ (a = "sick" => at[s] = "no")
  BY DEF Idles
<1>2. /\ at'[s] = a /\ at[s] \notin Changing /\ a \notin Changing
      /\ \A u \in Sessions \ {s} : at'[u] = at[u]
  BY <1>1 DEF Idles, Comes, Changing, FTypeOK
<1>3. s \in alone => a /= "sick"
  BY <1>1 DEF FilesInv, CallKnows
<1>4. \A u \in Sessions : CallKnows(u)'
  <2>1. CallKnows(s)'
    BY <1>2 DEF Steps, CallKnows, Placed, Changing
  <2>2. ASSUME NEW u \in Sessions \ {s} PROVE CallKnows(u)'
    BY <1>2 DEF Idles, Steps, FilesInv, CallKnows, Placed
  <2> QED  BY <2>1, <2>2
<1>5. \A u \in Sessions : at'[u] \in Changing <=> at[u] \in Changing
  BY <1>2
<1>6. \A u \in Sessions : ByItself(u)' = ByItself(u)
  BY <1>5 DEF ByItself, Idles
<1>7. \A u \in Sessions : AloneKnows(u)'
  <2>1. AloneKnows(s)'
    BY <1>2, <1>3 DEF AloneKnows, Finds, FirstDone, Changing, Idles
  <2>2. ASSUME NEW u \in Sessions \ {s} PROVE AloneKnows(u)'
    BY <1>2, <1>6 DEF AloneKnows, Finds, FirstDone, Idles, Steps, FilesInv
  <2> QED  BY <2>1, <2>2
<1>8. \A p : AtWork(p)' = AtWork(p)
  BY <1>5 DEF AtWork, Idles
<1>9. \A p \in Paths : LastPutAt(p)'
  BY <1>8 DEF LastPutAt, FilesInv, Idles
<1> QED  BY <1>4, <1>7, <1>9 DEF FilesInv

-----------------------------------------------------------------------------
\* The calls of LocalFS and of MinIO, one by one.
Mine(s, k, op) == k = job[s].arg /\ op = job[s].op

LEMMA PutSteps ==
    ASSUME FilesInv, FTypeOK, NEW s \in Sessions, Steps(s), NEW k \in Keys, NEW op, Mine(s, k, op),
           op \in {"put", "describe"},
           \/ PutOpens(s, k, op) \/ PutWrites(s, k, op) \/ SidecarOpens(s, k) \/ WriteFails(s)
    PROVE  FilesInv'
<1>1. /\ k \in Pair(k) /\ Sidecar[k] \in Pair(k) /\ Pair(k) \subseteq Paths /\ k \in Paths
      /\ Sidecar[k] /= k
  BY PathTypes, FilesAssumption DEF Pair
<1>2. job'[s].arg = k /\ job'[s].op = op /\ job[s].arg = k /\ job[s].op = op
  BY DEF Steps, Mine
<1>3. CallKnows(s) /\ Placed(s) /\ AloneKnows(s)
  BY DEF FilesInv, CallKnows
<1>4. CASE PutOpens(s, k, op)
  <2> DEFINE P == IF op = "describe" THEN Pair(k) ELSE {k}
  <2>1. /\ Enters(s, P) /\ P \in SUBSET Paths /\ k \in P
        /\ at[s] = "no" /\ Comes(s, "write") /\ Turns(s, k) /\ Holds(k, Part)
    BY <1>1, <1>4 DEF PutOpens
  <2>2. at'[s] = "write" /\ path'[s] = k /\ under'[s] = P
    BY <2>1 DEF FTypeOK, Comes, Turns, Enters
  <2>3. Placed(s)' /\ Finds(s)'
    BY <1>1, <1>2, <2>2 DEF Placed, Finds, FirstDone, Pair
  <2> HIDE DEF P
  <2> QED  BY <2>1, <2>3, BeginsStep DEF Changing
<1>5. ASSUME PutWrites(s, k, op) PROVE FilesInv'
  <2>1. at[s] \in {"write", "lost"} /\ at[s] \in Changing /\ path[s] \in under[s]
    BY <1>3, <1>5 DEF PutWrites, Changing, Placed
  <2>2. UNCHANGED disk \/ \E p \in under[s] : \E v : Holds(p, v)
    BY <1>5, <2>1 DEF PutWrites
  <2>3. s \in alone => Holds(path[s], s) /\ disk'[path[s]] = s
    BY <1>3, <1>5 DEF PutWrites, AloneKnows, Bytes, Holds, FTypeOK
  <2>4. CASE op = "describe" /\ path[s] = k
    <3>1. Comes(s, "next") /\ GoesOn /\ UNCHANGED path
      BY <1>5, <2>4 DEF PutWrites
    <3>2. at'[s] = "next" /\ path'[s] = k /\ under'[s] = Pair(k)
      BY <1>2, <1>3, <2>1, <2>4, <3>1 DEF FTypeOK, Comes, GoesOn, Placed
    <3>3. Placed(s)' /\ (s \in alone => Finds(s)')
      BY <1>1, <1>2, <2>3, <2>4, <3>2 DEF Placed, Finds, FirstDone
    <3> QED  BY <2>1, <2>2, <3>1, <3>3, GoesOnStep DEF Changing
  <2>5. CASE ~(op = "describe" /\ path[s] = k)
    <3>1. Comes(s, "done") /\ Leaves(s, s) /\ Owned /\ UNCHANGED refused
      BY <1>5, <2>5 DEF PutWrites
    <3>2. s \in alone => \A p \in under[s] : disk'[p] = s
      <4> SUFFICES ASSUME s \in alone, NEW p \in under[s] PROVE disk'[p] = s
        OBVIOUS
      <4>1. CASE p = path[s]
        BY <2>3, <4>1
      <4>2. CASE p /= path[s]
        <5>1. op = "describe" /\ under[s] = Pair(k) /\ path[s] /= k /\ p = k
          BY <1>2, <1>3, <2>1, <2>5, <4>2 DEF Placed, Pair
        <5>2. disk[k] = s
          BY <1>2, <1>3, <2>1, <5>1 DEF AloneKnows, Finds, FirstDone
        <5> QED  BY <2>3, <5>1, <5>2 DEF Holds, FTypeOK
      <4> QED  BY <4>1, <4>2
    <3> QED  BY <2>1, <2>2, <3>1, <3>2, EndsStep
  <2> QED  BY <2>4, <2>5
<1>6. ASSUME SidecarOpens(s, k) PROVE FilesInv'
  <2>1. /\ at[s] = "next" /\ at[s] \in Changing /\ Comes(s, "write") /\ Turns(s, Sidecar[k])
        /\ Holds(Sidecar[k], Part) /\ GoesOn
    BY <1>6 DEF SidecarOpens, Changing
  <2>2. under[s] = Pair(k) /\ op = "describe"
    BY <1>2, <1>3, <2>1 DEF Placed
  <2>3. at'[s] = "write" /\ path'[s] = Sidecar[k] /\ under'[s] = Pair(k) /\ disk'[k] = disk[k]
    BY <1>1, <2>1, <2>2 DEF FTypeOK, Comes, Turns, GoesOn, Holds
  <2>4. s \in alone => disk[k] = s
    BY <1>2, <1>3, <2>1, <2>2 DEF AloneKnows, Finds, FirstDone
  <2>5. Placed(s)' /\ (s \in alone => Finds(s)')
    BY <1>1, <1>2, <2>2, <2>3, <2>4 DEF Placed, Finds, FirstDone
  <2> QED  BY <1>1, <2>1, <2>2, <2>5, GoesOnStep DEF Changing
<1>7. ASSUME WriteFails(s) PROVE FilesInv'
  <2>1. /\ at[s] \in Changing /\ Comes(s, "raised") /\ Leaves(s, Unknown) /\ Owned
        /\ refused' = refused
        /\ UNCHANGED disk \/ Holds(path[s], Part)
    BY <1>7 DEF WriteFails, Changing
  <2>2. path[s] \in under[s]
    BY <1>3, <2>1 DEF Placed
  <2> QED  BY <2>1, <2>2, EndsStep
<1> QED  BY <1>4, <1>5, <1>6, <1>7

LEMMA RemoveSteps ==
    ASSUME FilesInv, FTypeOK, NEW s \in Sessions, Steps(s), NEW k \in Keys, Mine(s, k, "remove"),
           RemoveStarts(s, k) \/ Unlinks(s, k) \/ UnlinksNext(s, k) \/ UnlinkFails(s)
    PROVE  FilesInv'
<1>1. /\ k \in Pair(k) /\ Sidecar[k] \in Pair(k) /\ Pair(k) \subseteq Paths /\ k \in Paths
      /\ Sidecar[k] /= k
  BY PathTypes, FilesAssumption DEF Pair
<1>2. job'[s].arg = k /\ job'[s].op = "remove" /\ job[s].arg = k /\ job[s].op = "remove"
  BY DEF Steps, Mine
<1>3. CallKnows(s) /\ Placed(s) /\ AloneKnows(s)
  BY DEF FilesInv, CallKnows
<1>4. CASE RemoveStarts(s, k)
  <2>1. PICK p \in Pair(k) : disk[p] /= None /\ (p /= k => disk[k] = None) /\ Turns(s, p)
    BY <1>4 DEF RemoveStarts
  <2>2. at[s] = "no" /\ Enters(s, Pair(k)) /\ Comes(s, "unlink") /\ disk' = disk
    BY <1>4 DEF RemoveStarts
  <2>3. at'[s] = "unlink" /\ path'[s] = p /\ under'[s] = Pair(k)
    BY <1>1, <2>1, <2>2 DEF FTypeOK, Comes, Turns, Enters
  <2>4. Placed(s)' /\ Finds(s)'
    BY <1>2, <2>1, <2>2, <2>3 DEF Placed, Finds, FirstDone
  <2> QED  BY <1>1, <2>1, <2>2, <2>4, BeginsStep DEF Changing
<1>5. ASSUME Unlinks(s, k) PROVE FilesInv'
  <2>1. at[s] = "unlink" /\ at[s] \in Changing /\ Holds(path[s], None)
    BY <1>5 DEF Unlinks, Changing
  <2>2. under[s] = Pair(k) /\ path[s] \in Pair(k)
    BY <1>2, <1>3, <2>1 DEF Placed
  <2>3. disk'[path[s]] = None
    BY <2>1 DEF Holds, FTypeOK
  <2>4. CASE path[s] = k
    <3>1. Cuts(s, "next") /\ GoesOn /\ UNCHANGED path
      BY <1>5, <2>4 DEF Unlinks
    <3>2. at'[s] = "next" /\ path'[s] = k /\ under'[s] = Pair(k)
      BY <2>2, <2>4, <3>1 DEF FTypeOK, Cuts, GoesOn
    <3>3. Placed(s)' /\ Finds(s)'
      BY <1>1, <1>2, <2>3, <2>4, <3>2 DEF Placed, Finds, FirstDone
    <3> QED  BY <2>1, <2>2, <3>1, <3>3, GoesOnStep DEF Changing
  <2>5. CASE path[s] /= k
    <3>1. Cuts(s, "done") /\ Leaves(s, None) /\ Owned /\ UNCHANGED refused
      BY <1>5, <2>5 DEF Unlinks
    <3>2. s \in alone => disk[k] = None
      BY <1>2, <1>3, <2>1, <2>5 DEF AloneKnows, Finds, FirstDone
    <3>3. disk'[k] = disk[k]
      BY <2>1, <2>5, <1>1 DEF Holds, FTypeOK
    <3>4. s \in alone => \A p \in under[s] : disk'[p] = None
      BY <2>2, <2>3, <2>5, <3>2, <3>3 DEF Pair
    <3> QED  BY <2>1, <2>2, <3>1, <3>4, EndsStep
  <2> QED  BY <2>4, <2>5
<1>6. ASSUME UnlinksNext(s, k) PROVE FilesInv'
  <2>1. at[s] = "next" /\ at[s] \in Changing /\ disk' = disk
    BY <1>6 DEF UnlinksNext, Changing
  <2>2. under[s] = Pair(k)
    BY <1>2, <1>3, <2>1 DEF Placed
  <2>3. s \in alone => disk[k] = None
    BY <1>2, <1>3, <2>1 DEF AloneKnows, Finds, FirstDone
  <2>4. CASE disk[Sidecar[k]] = None
    <3>1. Comes(s, "done") /\ Leaves(s, None) /\ Owned /\ UNCHANGED refused
      BY <1>6, <2>4 DEF UnlinksNext
    <3>2. s \in alone => \A p \in under[s] : disk'[p] = None
      BY <2>1, <2>2, <2>3, <2>4 DEF Pair
    <3> QED  BY <2>1, <3>1, <3>2, EndsStep
  <2>5. CASE disk[Sidecar[k]] /= None
    <3>1. Comes(s, "unlink") /\ Turns(s, Sidecar[k]) /\ GoesOn
      BY <1>6, <2>5 DEF UnlinksNext
    <3>2. at'[s] = "unlink" /\ path'[s] = Sidecar[k] /\ under'[s] = Pair(k)
      BY <1>1, <2>2, <3>1 DEF FTypeOK, Comes, Turns, GoesOn
    <3>3. Placed(s)' /\ (s \in alone => Finds(s)')
      BY <1>1, <1>2, <2>1, <2>3, <3>2 DEF Placed, Finds, FirstDone
    <3> QED  BY <2>1, <3>1, <3>3, GoesOnStep DEF Changing
  <2> QED  BY <2>4, <2>5
<1>7. ASSUME UnlinkFails(s) PROVE FilesInv'
  <2>1. /\ at[s] \in Changing /\ Comes(s, "raised") /\ Leaves(s, Unknown) /\ Owned
        /\ refused' = refused /\ disk' = disk
    BY <1>7 DEF UnlinkFails, Changing
  <2> QED  BY <2>1, EndsStep
<1> QED  BY <1>4, <1>5, <1>6, <1>7

LEMMA ProbeSteps ==
    ASSUME FilesInv, FTypeOK, NEW s \in Sessions, Steps(s), job[s].op = "probe",
           ProbeWrites(s) \/ ProbeRemoves(s) \/ ProbeFails(s)
    PROVE  FilesInv'
<1>1. Probe \in Paths /\ job'[s].op = "probe" /\ Part /= None
  BY PathTypes, FilesAssumption DEF Steps
<1>2. CallKnows(s) /\ Placed(s) /\ AloneKnows(s)
  BY DEF FilesInv, CallKnows
<1>3. at[s] = "probing" => at[s] \in Changing /\ under[s] = {Probe}
  BY <1>2 DEF Placed, Changing
<1>4. CASE ProbeWrites(s)
  <2>1. /\ at[s] = "no" /\ Enters(s, {Probe}) /\ Turns(s, Probe) /\ Holds(Probe, Part)
        /\ Comes(s, "probing")
    BY <1>4 DEF ProbeWrites
  <2>2. at'[s] = "probing" /\ path'[s] = Probe /\ under'[s] = {Probe} /\ disk'[Probe] = Part
    BY <1>1, <2>1 DEF FTypeOK, Comes, Turns, Enters, Holds
  <2>3. Placed(s)' /\ Finds(s)'
    BY <1>1, <2>2 DEF Placed, Finds, FirstDone
  <2> QED  BY <1>1, <2>1, <2>3, BeginsStep DEF Changing
<1>5. ASSUME ProbeRemoves(s) PROVE FilesInv'
  <2>1. /\ at[s] = "probing" /\ Holds(Probe, None) /\ Leaves(s, None) /\ Owned /\ refused' = refused
    BY <1>5 DEF ProbeRemoves
  <2>2. \A p \in under[s] : disk'[p] = None
    BY <1>1, <1>3, <2>1 DEF Holds, FTypeOK
  <2>3. CASE disk[Probe] /= None
    BY <1>3, <1>5, <2>1, <2>2, <2>3, EndsStep DEF ProbeRemoves
  <2>4. CASE disk[Probe] = None
    <3>1. s \notin alone
      BY <1>2, <2>1, <2>4 DEF AloneKnows, Finds
    <3> QED  BY <1>3, <1>5, <2>1, <2>2, <2>4, <3>1, EndsStep DEF ProbeRemoves
  <2> QED  BY <2>3, <2>4
<1>6. ASSUME ProbeFails(s), at[s] = "no" PROVE FilesInv'
  <2>1. settled' = settled
    BY <1>1, <1>6 DEF ProbeFails, FTypeOK
  <2> QED  BY <1>6, <2>1, IdlesStep DEF ProbeFails, Idles, Owned
<1>7. ASSUME ProbeFails(s), at[s] = "probing" PROVE FilesInv'
  <2>1. Leaves(s, Unknown)
    BY <1>1, <1>3, <1>7 DEF ProbeFails, Leaves, FTypeOK
  <2>2. Comes(s, "sick") /\ disk' = disk /\ refused' = refused \union {s} /\ Owned
    BY <1>7 DEF ProbeFails
  <2> QED  BY <1>3, <1>7, <2>1, <2>2, EndsStep
<1> QED  BY <1>4, <1>5, <1>6, <1>7 DEF ProbeFails

LEMMA SendSteps ==
    ASSUME FilesInv, FTypeOK, NEW s \in Sessions, Steps(s),
           (\E k \in Keys : PutSends(s, k)) \/ PutLands(s) \/ PutFails(s) \/ LateLands(s)
    PROVE  FilesInv'
<1>1. CallKnows(s) /\ Placed(s) /\ AloneKnows(s)
  BY DEF FilesInv, CallKnows
<1>2. at[s] \in {"send", "late"} => at[s] \in Changing /\ under[s] = {path[s]}
  BY <1>1 DEF Placed, Changing
<1>3. ASSUME NEW k \in Keys, PutSends(s, k) PROVE FilesInv'
  <2>1. /\ at[s] = "no" /\ Enters(s, {k}) /\ Comes(s, "send") /\ Turns(s, k) /\ disk' = disk
        /\ k \in Paths
    BY <1>3, PathTypes DEF PutSends
  <2>2. at'[s] = "send" /\ path'[s] = k /\ under'[s] = {k}
    BY <2>1 DEF FTypeOK, Comes, Turns, Enters
  <2>3. Placed(s)' /\ Finds(s)'
    BY <2>2 DEF Placed, Finds, FirstDone
  <2> QED  BY <2>1, <2>3, BeginsStep DEF Changing
<1>4. ASSUME PutLands(s) PROVE FilesInv'
  <2>1. /\ at[s] = "send" /\ Holds(path[s], s) /\ Comes(s, "done") /\ Leaves(s, s) /\ Owned
        /\ refused' = refused
    BY <1>4 DEF PutLands, Lands
  <2>2. \A p \in under[s] : disk'[p] = s
    BY <1>2, <2>1 DEF Holds, FTypeOK
  <2> QED  BY <1>2, <2>1, <2>2, EndsStep
<1>5. ASSUME PutFails(s) \/ LateLands(s) PROVE FilesInv'
  <2>1. /\ at[s] \in {"send", "late"} /\ Leaves(s, Unknown) /\ Owned /\ refused' = refused
        /\ UNCHANGED disk \/ Holds(path[s], s)
        /\ Comes(s, "raised") \/ (at[s] = "send" /\ Comes(s, "late"))
    BY <1>5 DEF PutFails, LateLands, Lands
  <2> QED  BY <1>2, <2>1, EndsStep
<1> QED  BY <1>3, <1>4, <1>5

LEMMA LookSteps ==
    ASSUME FilesInv, FTypeOK, NEW s \in Sessions, Steps(s), NEW a \in {"done", "raised", "sick", "read"},
           Looks(s, "no", a) \/ (Looks(s, "read", a) /\ a /= "sick")
    PROVE  FilesInv'
BY IdlesStep DEF Idles, Looks

\* A step of a call, whatever it is.
LEMMA CallFiles ==
    ASSUME FilesInv, TypeInv, NEW s \in Sessions, FileCall(s)
    PROVE  FilesInv'
<1> DEFINE k  == job[s].arg
           op == job[s].op
<1>1. FTypeOK /\ phase[s] = "open" /\ op \in FileOps /\ (op \notin {"list", "probe"} => k \in Keys)
  BY DEF TypeInv, StorageTypeOK, KeysGiven, FileCall
<1>2. Mine(s, k, op)
  BY DEF Mine
<1>3. Steps(s)
  <2>1. /\ job' = job /\ phase \in [Sessions -> Phases]
        /\ Goes(s, IF at'[s] \in {"raised", "late"} THEN "failed"
                   ELSE IF at'[s] \in Ended THEN "both" ELSE "open")
    BY DEF FileCall, TypeInv, StorageTypeOK
  <2>2. /\ \A u \in Sessions \ {s} : phase'[u] = phase[u]
        /\ phase'[s] = IF at'[s] \in {"raised", "late"} THEN "failed"
                       ELSE IF at'[s] \in Ended THEN "both" ELSE "open"
    BY <2>1 DEF Goes
  <2>3. at'[s] /= "no"
    <3>1. at \in [Sessions -> Ended \union Changing \union {"read"}]
      BY <1>1 DEF FTypeOK
    <3>2. \E a : a /= "no" /\ (Comes(s, a) \/ Cuts(s, a))
      BY DEF FileCall, FCall, Local, Minio, PutOpens, OpenFails, PutWrites, SidecarOpens, WriteFails,
         GetStarts, GetReads, RemoveStarts, RemoveNothing, Unlinks, UnlinksNext, UnlinkFails,
         LocalList, LocalLink, ProbeWrites, ProbeRemoves, ProbeFails, PutSends, PutLands, PutFails,
         MinioGet, MinioRemove, MinioList, MinioLink, MinioHealth, Unsafe, Raises, Answers, Looks
    <3> QED  BY <3>1, <3>2 DEF Comes, Cuts
  <2> QED  BY <1>1, <2>1, <2>2, <2>3 DEF Steps, Changing, Ended
<1> HIDE DEF k, op
<1>4. CASE Local(s, k, op)
  <2>1. CASE op \in {"put", "describe"}
    <3>1. OpenFails(s, k) => Looks(s, "no", "raised")
      BY DEF OpenFails, Raises
    <3> QED  BY <1>1, <1>2, <1>3, <1>4, <2>1, <3>1, PutSteps, LookSteps DEF Local
  <2>2. CASE op = "get"
    <3>1. \E a \in {"done", "raised", "read"} : Looks(s, "no", a) \/ Looks(s, "read", a)
      BY <1>4, <2>2 DEF Local, GetStarts, GetReads
    <3> QED  BY <1>1, <1>3, <3>1, LookSteps
  <2>3. CASE op = "remove"
    <3>1. RemoveNothing(s, k) => Looks(s, "no", "done")
      BY DEF RemoveNothing, Answers
    <3> QED  BY <1>1, <1>2, <1>3, <1>4, <2>3, <3>1, RemoveSteps, LookSteps DEF Local
  <2>4. CASE op \in {"list", "link"}
    <3>1. Looks(s, "no", "done")
      BY <1>4, <2>4 DEF Local, LocalList, LocalLink, Answers
    <3> QED  BY <1>1, <1>3, <3>1, LookSteps
  <2>5. CASE op = "probe"
    <3>1. job[s].op = "probe"
      BY <1>2, <2>5 DEF Mine
    <3> QED  BY <1>1, <1>3, <1>4, <2>5, <3>1, ProbeSteps DEF Local
  <2> QED  BY <1>4, <2>1, <2>2, <2>3, <2>4, <2>5 DEF Local
<1>5. CASE Minio(s, k, op)
  <2>1. CASE op \in {"put", "describe"}
    BY <1>1, <1>3, <1>5, <2>1, SendSteps DEF Minio
  <2>2. CASE op \notin {"put", "describe"}
    <3>1. \E a \in {"done", "raised", "sick"} : Looks(s, "no", a)
      BY <1>5, <2>2 DEF Minio, MinioGet, MinioRemove, MinioList, MinioLink, MinioHealth, Answers,
         Raises
    <3> QED  BY <1>1, <1>3, <3>1, LookSteps
  <2> QED  BY <2>1, <2>2
<1>6. CASE Unsafe(s, k)
  <2>1. Looks(s, "no", "raised")
    BY <1>6 DEF Unsafe, Raises
  <2> QED  BY <1>1, <1>3, <2>1, LookSteps
<1> QED  BY <1>4, <1>5, <1>6 DEF FileCall, FCall, k, op

LEMMA LateFiles ==
    ASSUME FilesInv, TypeInv, NEW s \in Sessions, Late(s)
    PROVE  FilesInv'
<1>1. FTypeOK /\ LateLands(s) /\ phase' = phase /\ job' = job /\ at[s] = "late"
  BY DEF Late, LateLands, svars, TypeInv, StorageTypeOK
<1>2. at'[s] = "raised"
  BY <1>1 DEF LateLands, Comes, FTypeOK
<1>3. phase[s] /= "idle"
  BY <1>1 DEF FilesInv, CallKnows
<1>4. Steps(s)
  BY <1>1, <1>2, <1>3 DEF Steps, Changing
<1> QED  BY <1>1, <1>4, SendSteps

LEMMA CrashFiles == ASSUME FilesInv, TypeInv, Crash PROVE FilesInv'
<1>1. /\ at' = [u \in Sessions |-> IF at[u] \in Ended THEN at[u] ELSE "raised"]
      /\ settled' = [p \in Paths |-> IF AtWork(p) = {} THEN settled[p] ELSE Unknown]
      /\ UNCHANGED <<disk, path, under, alone, refused>>
      /\ phase' = [u \in Sessions |-> IF u \in Active THEN "failed" ELSE phase[u]]
  BY DEF Crash, FCrash
<1>2. \A u \in Sessions : at'[u] \notin Changing /\ at'[u] /= "read" /\ (at'[u] = at[u] \/ at'[u] = "raised")
  BY <1>1 DEF Ended, Changing
<1>3. ASSUME NEW u \in Sessions PROVE CallKnows(u)'
  <2>1. CallKnows(u)
    BY DEF FilesInv
  <2>2. phase'[u] = "idle" => phase[u] = "idle"
    BY <1>1
  <2>3. phase[u] = "idle" => at'[u] = "no"
    BY <1>1, <2>1 DEF CallKnows, Ended
  <2>4. at'[u] = "no" => at[u] = "no"
    BY <1>2
  <2> QED  BY <1>1, <1>2, <2>1, <2>2, <2>3, <2>4 DEF CallKnows, Placed, Changing
<1>4. ASSUME NEW u \in Sessions PROVE AloneKnows(u)'
  <2>1. at'[u] = "sick" => at[u] = "sick"
    BY <1>2
  <2> QED  BY <1>1, <1>2, <2>1 DEF FilesInv, AloneKnows, Finds, FirstDone, Changing
<1>5. ASSUME NEW p \in Paths PROVE LastPutAt(p)'
  BY <1>1 DEF FilesInv, LastPutAt
<1> QED  BY <1>3, <1>4, <1>5 DEF FilesInv

LEMMA NextFiles == FilesInv /\ TypeInv /\ [StorageNext]_storageVars => FilesInv'
<1> SUFFICES ASSUME FilesInv, TypeInv, [StorageNext]_storageVars PROVE FilesInv'
  OBVIOUS
<1>1. ASSUME NEW s \in Sessions, Open(s) PROVE FilesInv'
  <2>1. UNCHANGED fcalls /\ phase[s] = "idle"
    BY <1>1 DEF Open, FOpen
  <2>2. /\ \A u \in Sessions \ {s} : job'[u] = job[u] /\ phase'[u] = phase[u]
        /\ phase'[s] = "open"
    BY <1>1 DEF Open, Goes, Assigned, TypeInv, StorageTypeOK
  <2>3. at[s] \notin Changing
    BY <2>1 DEF FilesInv, CallKnows, Changing
  <2> QED  BY <2>1, <2>2, <2>3, FilesFrame
<1>2. ASSUME NEW s \in Sessions,
             \/ Insert(s) \/ InsertRaises(s) \/ IndexIt(s) \/ DeleteVectors(s)
             \/ DeleteHits(s) \/ DeleteRaises(s) \/ Close(s) \/ CloseFails(s)
      PROVE  FilesInv'
  <2>1. CASE Close(s) \/ CloseFails(s)
    <3>1. Closing(s)
      BY <2>1 DEF Close, CloseFails
    <3>2. UNCHANGED fcalls /\ phase[s] = "both"
      BY <3>1 DEF Closing, FClose
    <3>3. /\ \A u \in Sessions \ {s} : job'[u] = job[u] /\ phase'[u] = phase[u]
          /\ phase'[s] = "done"
      BY <3>1 DEF Closing, Goes, TypeInv, StorageTypeOK
    <3>4. at[s] \notin Changing \ {"late"}
      BY <3>2 DEF FilesInv, CallKnows
    <3> QED  BY <3>2, <3>3, <3>4, FilesFrame
  <2>2. CASE ~(Close(s) \/ CloseFails(s))
    <3>1. UNCHANGED fcalls /\ job' = job
      BY <1>2, <2>2
      DEF Insert, InsertRaises, IndexIt, DeleteVectors, DeleteHits, DeleteRaises, fvars
    <3>2. job[s].op \in {"store", "delete"}
      <4>1. (\E f : Stores(s, f)) \/ (\E n : Deletes(s, n))
        BY <1>2, <2>2
        DEF Insert, InsertRaises, IndexIt, DeleteVectors, DeleteHits, DeleteRaises
      <4>2. \A f : Stores(s, f) => job[s].op = "store"
        BY DEF Stores
      <4>3. \A n : Deletes(s, n) => job[s].op = "delete"
        BY DEF Deletes
      <4> QED  BY <4>1, <4>2, <4>3
    <3>3. \E t \in {"half", "both", "failed"} : Goes(s, t)
      BY <1>2, <2>2 DEF Insert, InsertRaises, IndexIt, DeleteVectors, DeleteHits, DeleteRaises
    <3>4. /\ \A u \in Sessions \ {s} : phase'[u] = phase[u]
          /\ phase'[s] /= "idle"
      BY <3>3 DEF Goes, TypeInv, StorageTypeOK
    <3>5. at[s] \notin Changing \ {"late"}
      BY <3>2 DEF FilesInv, CallKnows, FileOps
    <3> QED  BY <3>1, <3>4, <3>5, FilesFrame
  <2> QED  BY <2>1, <2>2
<1>3. ASSUME NEW s \in Sessions, Session(s) \/ Late(s) PROVE FilesInv'
  BY <1>1, <1>2, <1>3, CallFiles, LateFiles DEF Session
<1>4. CASE Server \/ UNCHANGED storageVars
  <2>1. UNCHANGED <<fcalls, job, phase>>
    BY <1>4 DEF Server, storageVars, fvars, svars
  <2>2. CASE \E s \in Sessions : TRUE
    BY <2>1, <2>2, FilesFrame
  <2>3. CASE ~\E s \in Sessions : TRUE
    <3>1. \A p : AtWork(p) = {} /\ AtWork(p)' = {}
      BY <2>3 DEF AtWork
    <3>2. \A p \in Paths : LastPutAt(p)'
      BY <2>1, <3>1 DEF FilesInv, LastPutAt, fcalls
    <3> QED  BY <2>3, <3>2 DEF FilesInv
  <2> QED  BY <2>2, <2>3
<1>5. CASE Crash
  BY <1>5, CrashFiles
<1> QED  BY <1>3, <1>4, <1>5 DEF StorageNext

LEMMA InitFiles == StorageInit => FilesInv
<1> SUFFICES ASSUME StorageInit PROVE FilesInv
  OBVIOUS
<1>1. PICK b : FInit(b)
  BY DEF StorageInit
<1>2. \A p \in Paths : disk[p] = None /\ settled[p] = None
  BY <1>1 DEF FInit
<1>3. \A p \in Paths : LastPutAt(p)
  BY <1>2 DEF LastPutAt
<1>4. \A s \in Sessions : at[s] = "no" /\ phase[s] = "idle" /\ s \notin alone
  BY <1>1 DEF FInit, StorageInit
<1> QED  BY <1>3, <1>4 DEF FilesInv, CallKnows, Placed, AloneKnows, Changing

\* At every path, of files, of sidecars or of the probe, there is what the last call
\* about it left, whatever fails half way, and however the names of the keys and of
\* their sidecars coincide.
THEOREM FilesLast == StorageSpec => []FileIsLastPut
<1>1. FilesInv => FileIsLastPut
  BY DEF FilesInv, LastPutAt, FileIsLastPut
<1> QED  BY <1>1, InitFiles, NextFiles, InitType, NextType, PTL DEF StorageSpec

\* A LocalFS that calls itself sick was refused something by its file system, or
\* met another call at the probe's file.
THEOREM SickExplained == StorageSpec => []SickForReason
<1>1. FilesInv => SickForReason
  BY DEF FilesInv, AloneKnows, Finds, SickForReason
<1> QED  BY <1>1, InitFiles, NextFiles, InitType, NextType, PTL DEF StorageSpec

=============================================================================
