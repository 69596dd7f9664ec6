----------------------------- MODULE Ingestion -----------------------------
(***************************************************************************)
(* How documents come in: POST /api/v1/documents/upload of the gateway     *)
(* (routes/documents.py) forwards a file to POST /parse of M1's web server *)
(* (m1_parser/standalone/web_server.py), whose own page posts there too,   *)
(* and the command line (standalone/cli.py) converts files in a process of *)
(* its own.  All of them end in convert() (core/converter.py), which gives *)
(* each document a directory under the same output directory.              *)
(*                                                                         *)
(* convert() is not a coroutine: while it runs, the web server's event     *)
(* loop does nothing else, but the gateway, commands and the clock go on.  *)
(* What a parser finds in a document is left out.                          *)
(***************************************************************************)
EXTENDS Integers, FiniteSets

CONSTANTS
    Uploads,    \* files sent to the gateway
    Forms,      \* files sent from the web server's own page
    Commands,   \* files given to commands, a process each
    Names,      \* file names without suffix, which name the directories
    MaxTime,    \* bound: the clock, in seconds, stops here
    Nil        \* no directory, no time, no suffix

ASSUME NilIsNew == Nil \notin Names \cup Nat \cup (Names \X (Nat \cup {Nil}))
ASSUME KindsDiffer == Commands \cap (Uploads \cup Forms) = {}
ASSUME MaxTimeNat == MaxTime \in Nat

Served == Uploads \cup Forms
Jobs == Served \cup Commands

VARIABLES
    now,        \* datetime.now(), in seconds
    gateway,    \* where the gateway is with an upload
    sent,       \* temporary files of the gateway
    parserUp,   \* the web server runs
    stage,      \* where a conversion is
    held,       \* temporary files of the web server
    dir,        \* doc_basename: a name, and the suffix it has got
    chosen,     \* when it was chosen
    created,    \* when the directory was there
    dirs,       \* the directories under the output directory
    reply       \* what the conversion reported

gatewayVars == <<gateway, sent>>
outputVars == <<dir, chosen, created, dirs>>
vars == <<now, gatewayVars, parserUp, stage, held, outputVars, reply>>

Times == 0..MaxTime
Directories == Names \X (Times \cup {Nil})
Busy == {"parsing", "writing", "storing"}
Stages == {"new", "reading", "ended", "rejected", "unsaved", "lost"} \cup Busy

TypeOK ==
    /\ now \in Times
    /\ gateway \in [Uploads -> {"new", "received", "unsaved", "posted", "timed out",
                             "answered", "lost", "cut off"}]
    /\ sent \subseteq Uploads
    /\ parserUp \in BOOLEAN
    /\ stage \in [Jobs -> Stages]
    /\ held \subseteq Served
    /\ dir \in [Jobs -> Directories \cup {Nil}]
    /\ chosen \in [Jobs -> Times \cup {Nil}]
    /\ created \in [Jobs -> Times \cup {Nil}]
    /\ dirs \subseteq Directories
    /\ reply \in [Jobs -> {"none", "success", "error"}]

Init ==
    /\ now = 0
    /\ gateway = [u \in Uploads |-> "new"]
    /\ sent = {}
    /\ parserUp = TRUE
    /\ stage = [j \in Jobs |-> "new"]
    /\ held = {}
    /\ dir = [j \in Jobs |-> Nil]
    /\ chosen = [j \in Jobs |-> Nil]
    /\ created = [j \in Jobs |-> Nil]
    /\ dirs = {}
    /\ reply = [j \in Jobs |-> "none"]

-----------------------------------------------------------------------------
(***************************************************************************)
(* The gateway.  A file that is too large or of another type leaves no     *)
(* trace.                                                                  *)
(***************************************************************************)
At(u, where) == gateway' = [gateway EXCEPT ![u] = where]

\* The file is written to a temporary file that closing does not delete.  A write
\* that fails (a full disk) raises before the try block: 500, and the file stays.
Upload(u) ==
    /\ gateway[u] = "new"
    /\ At(u, "received") \/ At(u, "unsaved")
    /\ sent' = sent \cup {u}
    /\ UNCHANGED <<now, parserUp, stage, held, outputVars, reply>>

\* Whatever is raised, the finally clause removes the temporary file.
Finally(u, where) ==
    /\ At(u, where)
    /\ sent' = sent \ {u}

\* A web server that is down refuses the connection: 503.
Post(u) ==
    /\ gateway[u] = "received"
    /\ IF parserUp
       THEN /\ At(u, "posted")
            /\ UNCHANGED sent
       ELSE Finally(u, "answered")
    /\ UNCHANGED <<now, parserUp, stage, held, outputVars, reply>>

\* The web server has answered or is gone.  Its answer, a success or not, ends
\* in the NameError of form_data, which the handler does not define: 500.
Answer(u) ==
    /\ gateway[u] = "posted"
    /\ stage[u] \in {"ended", "unsaved", "lost"}
    /\ Finally(u, "answered")
    /\ UNCHANGED <<now, parserUp, stage, held, outputVars, reply>>

\* (mutation) no timeout.
TimeoutNever(u) ==
    /\ gateway[u] = "posted"
    /\ stage[u] = "ended"
    /\ Finally(u, "timed out")
    /\ UNCHANGED <<now, parserUp, stage, held, outputVars, reply>>

\* (mutation) the file is removed only when the web server has answered.
TimeoutLeavingFile(u) ==
    /\ gateway[u] = "posted"
    /\ At(u, "timed out")
    /\ UNCHANGED <<now, sent, parserUp, stage, held, outputVars, reply>>

\* No answer for 120 seconds: httpx.ReadTimeout, which is no ConnectError.
Timeout(u) ==
    /\ gateway[u] = "posted"
    /\ Finally(u, "timed out")
    /\ UNCHANGED <<now, parserUp, stage, held, outputVars, reply>>

\* The gateway stops or crashes and starts again.
GatewayRestart ==
    /\ gateway' = [u \in Uploads |-> CASE gateway[u] = "received" -> "lost"
                                        [] gateway[u] = "posted" -> "cut off"
                                        [] OTHER -> gateway[u]]
    /\ UNCHANGED <<now, sent, parserUp, stage, held, outputVars, reply>>

(***************************************************************************)
(* The web server and the commands.                                        *)
(***************************************************************************)
Goto(j, where) == stage' = [stage EXCEPT ![j] = where]

\* The event loop is free.
LoopFree == parserUp /\ \A j \in Served : stage[j] \notin Busy

Pending == {u \in Uploads : stage[u] = "new" /\ gateway[u] \in {"posted", "timed out", "cut off"}}

\* parse() makes its temporary file and reads the upload, the only await it gets to.  A request
\* whose sender has given up may still be taken.
Receive(j) ==
    /\ LoopFree
    /\ stage[j] = "new"
    /\ j \in Uploads => j \in Pending
    /\ Goto(j, "reading")
    /\ held' = held \cup {j}
    /\ UNCHANGED <<now, gatewayVars, parserUp, outputVars, reply>>

\* What was read cannot be written, or could not be read: the exception leaves
\* parse() before its try block (500), and the temporary file stays.
SaveFails(j) ==
    /\ j \in Served
    /\ LoopFree
    /\ stage[j] = "reading"
    /\ Goto(j, "unsaved")
    /\ reply' = [reply EXCEPT ![j] = "error"]
    /\ UNCHANGED <<now, gatewayVars, parserUp, held, outputVars>>

\* A page count that is no number from 1 to 5000 returns before the try block
\* whose finally clause would remove the temporary file.
RejectPages(j) ==
    /\ j \in Forms
    /\ LoopFree
    /\ stage[j] = "reading"
    /\ Goto(j, "rejected")
    /\ reply' = [reply EXCEPT ![j] = "error"]
    /\ UNCHANGED <<now, gatewayVars, parserUp, held, outputVars>>

\* (mutation) a failing document of a batch counts as done.
EndUnnoticed(j, how) ==
    /\ Goto(j, "ended")
    /\ reply' = [reply EXCEPT ![j] = IF j \in Commands THEN "success" ELSE how]
    /\ held' = held \ {j}

End(j, how) ==
    /\ Goto(j, "ended")
    /\ reply' = [reply EXCEPT ![j] = how]
    /\ held' = held \ {j}

CanStart(j) ==
    IF j \in Commands THEN stage[j] = "new" ELSE LoopFree /\ stage[j] = "reading"

\* (mutation) no suffix.
DirectoryUnsuffixed(n) == <<n, Nil>>

\* A name that is taken gets the time as a suffix, to the second.
Directory(n) == <<n, IF <<n, Nil>> \in dirs THEN now ELSE Nil>>

\* convert() on its way to docling, with an output directory.
Choose(j, n) ==
    /\ CanStart(j)
    /\ Goto(j, "parsing")
    /\ dir' = [dir EXCEPT ![j] = Directory(n)]
    /\ chosen' = [chosen EXCEPT ![j] = now]
    /\ UNCHANGED <<now, gatewayVars, parserUp, held, created, dirs, reply>>

\* The web server's page may leave the output directory empty.
ChooseNone(j) ==
    /\ j \in Served
    /\ CanStart(j)
    /\ Goto(j, "parsing")
    /\ UNCHANGED <<now, gatewayVars, parserUp, held, outputVars, reply>>

\* A format or a backend nobody knows raises at once.  A PDF or an image for
\* Marker or MinerU is converted, by docling if the tool is not there; then
\* reading out_dir, which only docling's branch assigns, raises.
RouteElsewhere(j) ==
    /\ CanStart(j)
    /\ End(j, "error")
    /\ UNCHANGED <<now, gatewayVars, parserUp, outputVars>>

\* docling has parsed the document and saves its images.
Parse(j) ==
    /\ stage[j] = "parsing"
    /\ Goto(j, "writing")
    /\ IF dir[j] = Nil
       THEN UNCHANGED <<created, dirs>>
       ELSE /\ created' = [created EXCEPT ![j] = now]
            /\ dirs' = dirs \cup {dir[j]}
    /\ UNCHANGED <<now, gatewayVars, parserUp, held, dir, chosen, reply>>

\* Exceptions of docling, the disk or the tools.  parse() catches them, and
\* convert_batch() does for a command.
Fail(j) ==
    /\ stage[j] \in {"parsing", "writing"}
    /\ End(j, "error")
    /\ UNCHANGED <<now, gatewayVars, parserUp, outputVars>>

\* Metadata and quality, whose exceptions are only logged, and the files: a
\* command is done.
Write(j) ==
    /\ stage[j] = "writing"
    /\ IF j \in Commands
       THEN End(j, "success")
       ELSE /\ Goto(j, "storing")
            /\ UNCHANGED <<held, reply>>
    /\ UNCHANGED <<now, gatewayVars, parserUp, outputVars>>

\* parse() looks for os.environ in a module that does not import os.  The
\* NameError is caught, and the next statement reads chunks, which was to be
\* assigned after it: the outer handler answers with an error.
StoreChunks(j) ==
    /\ stage[j] = "storing"
    /\ End(j, "error")
    /\ UNCHANGED <<now, gatewayVars, parserUp, outputVars>>

\* The web server stops or crashes, or a command is interrupted.
Lose(lost) ==
    /\ stage' = [j \in Jobs |-> IF j \in lost THEN "lost" ELSE stage[j]]
    /\ UNCHANGED <<now, gatewayVars, held, outputVars, reply>>

InWork == {j \in Jobs : stage[j] \in Busy \cup {"reading"}}

ParserDown ==
    /\ parserUp
    /\ parserUp' = FALSE
    /\ Lose(Pending \cup (InWork \cap Served))

ParserStart ==
    /\ ~parserUp
    /\ parserUp' = TRUE
    /\ Lose({})

Interrupt(j) ==
    /\ j \in InWork \cap Commands
    /\ Lose({j})
    /\ UNCHANGED parserUp

Tick ==
    /\ now < MaxTime
    /\ now' = now + 1
    /\ UNCHANGED <<gatewayVars, parserUp, stage, held, outputVars, reply>>

Gateway(u) == Post(u) \/ Answer(u) \/ Timeout(u)

Convert(j) ==
    \/ \E n \in Names : Choose(j, n)
    \/ ChooseNone(j) \/ RouteElsewhere(j) \/ Parse(j) \/ Fail(j) \/ Write(j)
    \/ StoreChunks(j)

Next ==
    \/ \E u \in Uploads : Upload(u) \/ Gateway(u)
    \/ \E j \in Served : Receive(j) \/ SaveFails(j) \/ RejectPages(j)
    \/ \E j \in Jobs : Convert(j) \/ Interrupt(j)
    \/ GatewayRestart \/ ParserDown \/ ParserStart
    \/ Tick

\* The event loop of the gateway resumes its handlers, and httpx times out.
\* Nothing is asked of the web server, whose conversions have no limit.
Fairness == \A u \in Uploads : WF_vars(Gateway(u))

Spec == Init /\ [][Next]_vars /\ Fairness

-----------------------------------------------------------------------------
(***************************************************************************)
(* Properties                                                              *)
(***************************************************************************)

\* No path through the two handlers leaves a temporary file behind, timeouts,
\* refused connections and failing conversions included, but for the three the code
\* has: a process that dies, a temporary file that could not be written, and a page
\* count that is rejected.
TempsAreOwned ==
    /\ \A u \in sent : gateway[u] \in {"received", "posted", "unsaved", "lost", "cut off"}
    /\ \A j \in held : stage[j] \in Busy \cup {"reading", "unsaved", "lost", "rejected"}

\* A directory is meant for one document.  Two share one only when, to the
\* second, each chose its name before the other's directory was there: by a
\* command running beside the web server, or by conversions of the same second.
SharedOnlyIfOverlapping ==
    \A i, j \in Jobs :
        i # j /\ created[i] # Nil /\ created[j] # Nil /\ dir[i] = dir[j] =>
            chosen[i] <= created[j] /\ chosen[j] <= created[i]

\* A conversion reports success only for a document whose directory is there.
SuccessMeansWritten ==
    \A j \in Jobs : reply[j] = "success" => created[j] # Nil /\ dir[j] \in dirs

\* Every upload is answered, even if the web server never does.
EveryUploadEnds ==
    \A u \in Uploads :
        gateway[u] = "received" ~> gateway[u] \in {"answered", "timed out", "lost", "cut off"}
=============================================================================
