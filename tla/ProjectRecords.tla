--------------------------- MODULE ProjectRecords ---------------------------
(***************************************************************************)
(* What ProjectStore leaves out of a project's workspace: its conclusions  *)
(* with the clauses they cite and their links to other projects, and its   *)
(* compliance matrix. The requests about them run among those of           *)
(* ProjectStore, and share with them the handlers and the bound.           *)
(*                                                                         *)
(* A conclusion goes by its id, whatever project the path names. A link is *)
(* what the caller says, a project and a conclusion, and neither need be   *)
(* there. Rows come from aiosqlite as tuples, so the code that updates the *)
(* matrix for a citation, and reads them by name, ends with an exception   *)
(* at the first item that it finds.                                        *)
(***************************************************************************)
EXTENDS ProjectStore, Sequences

CONSTANTS
    Projects,   \* ids that a link can name
    Notes,      \* ids of conclusions, a new one each time
    Elsewhere,  \* those that other projects have had from the start
    Clauses,    \* what a citation can name
    Template,   \* the clauses of the project's regulation list
    Statuses,   \* of an item, those that a request asks for
    Depth       \* max_depth (5)

ASSUME RecordsAssumption ==
    /\ Elsewhere \subseteq Notes /\ Template \subseteq Clauses
    /\ Statuses \subseteq {"unverified", "needs_review", "verified", "not_applicable"}
    /\ Depth \in Nat \ {0}

VARIABLES
    conclusions, \* table project_conclusions: of each id, its row or None
    matrix,      \* table compliance_items: of each clause, its status or None
    made,        \* ids given out so far
    job,         \* what a handler does after or beside ProjectStore's request
    linked,      \* history: <<id, link>> that were answered "linked"
    overwritten, \* history: those of them that another request's list left out
    unchecked    \* history: ids with a link whose check saw no list, or another

records == <<conclusions, matrix, made>>
linkHistory == <<linked, overwritten, unchecked>>
recVars == <<records, job, linkHistory>>
others == <<born, there, row, archived, filled, reqVars, entitled, roleHistory, overlapped, late>>
allVars == <<vars, recVars>>

Links == [project : Projects, note : Notes]

WorkspaceInit ==
    /\ Init
    /\ conclusions = [n \in Notes |-> IF n \in Elsewhere
                                      THEN [here |-> FALSE, cites |-> {}, links |-> <<>>]
                                      ELSE None]
    /\ matrix = [c \in Clauses |-> None]
    /\ made = Elsewhere
    /\ job = [h \in Handlers |-> None]
    /\ linked = {} /\ overwritten = {} /\ unchecked = {}

There(n) == conclusions[n] # None
InProject == {n \in Notes : There(n) /\ conclusions[n].here}
MayAsk(h) == stage[h] = "idle" /\ job[h] = None /\ born /\ received < MaxRequests
Continue(h, j) == job' = [job EXCEPT ![h] = j]
End(h) == Continue(h, None)

(***************************************************************************)
(* create_conclusion and delete_conclusion. The row is committed before    *)
(* the matrix is looked at, over another connection.                       *)
(***************************************************************************)
CreateConclusion(h) ==
    /\ InsertChild(h) /\ call[h].table = "conclusions"
    /\ \E n \in Notes \ made, C \in SUBSET Clauses :
         /\ conclusions' = [conclusions EXCEPT ![n] = [here |-> TRUE, cites |-> C, links |-> <<>>]]
         /\ made' = made \cup {n}
         /\ Continue(h, IF C = {} THEN None ELSE [op |-> "cite", cites |-> C])
    /\ UNCHANGED <<matrix, linkHistory>>

DeleteConclusion(h) ==
    /\ EraseChild(h) /\ call[h].table = "conclusions"
    /\ \/ \E n \in InProject :
            /\ conclusions' = [conclusions EXCEPT ![n] = None]
            /\ Continue(h, IF conclusions[n].cites = {} THEN None
                           ELSE [op |-> "rollback", cites |-> conclusions[n].cites])
       \/ UNCHANGED <<conclusions, job>>
    /\ ("conclusions" \in filled' <=> InProject' # {})
    /\ UNCHANGED <<matrix, made, linkHistory>>

\* _auto_update_compliance and _rollback_compliance, clause by clause: one that
\* the matrix does not have is passed over, and one that it has raises TypeError.
\* Either way nothing is written, and the last clause ends the request.
LookUp(h) ==
    /\ job[h] # None /\ job[h].op \in {"cite", "rollback"}
    /\ \E c \in job[h].cites :
         IF matrix[c] = None /\ job[h].cites # {c}
         THEN Continue(h, [job[h] EXCEPT !.cites = @ \ {c}])
         ELSE End(h)
    /\ UNCHANGED <<vars, records, linkHistory>>

(***************************************************************************)
(* update_compliance. The write right is checked first; the UPDATE finds   *)
(* no row when the project has been deleted since.                         *)
(***************************************************************************)
AskCompliance(h, c, status) ==
    /\ MayAsk(h) /\ there
    /\ Continue(h, [op |-> "verify", clause |-> c, status |-> status])
    /\ received' = received + 1
    /\ UNCHANGED <<others, records, linkHistory>>

UpdateCompliance(h) ==
    /\ job[h] # None /\ job[h].op = "verify"
    /\ matrix' = [matrix EXCEPT ![job[h].clause] = IF @ = None THEN None ELSE job[h].status]
    /\ End(h)
    /\ UNCHANGED <<vars, conclusions, made, linkHistory>>

(***************************************************************************)
(* link_conclusion_to_project: the list of links is read, extended,        *)
(* checked and written back, and nothing looks at the link's target. The   *)
(* check (_detect_circular) walks from the source over the links that are  *)
(* there by then, and reads each conclusion on its way over a connection   *)
(* of its own. An error of a read is taken for "not circular".             *)
(***************************************************************************)
LinkList(n) == IF There(n) THEN conclusions[n].links ELSE <<>>
Refs(n) == {LinkList(n)[i] : i \in DOMAIN LinkList(n)}

\* A call of the check: the project it is at, the conclusion whose links it reads,
\* the projects before, and how much deeper it may go.
Walks == [project : Projects, note : Notes, visited : SUBSET Projects, left : 0..Depth]
Start(link, n) == [project |-> link.project, note |-> n, visited |-> {}, left |-> Depth]

\* (mutation) A project that was visited is walked again.
CircularTooDeep(w) == w.left = 0

\* What a call answers before it reads: too deep, or back where it was.
Circular(w) == w.left = 0 \/ w.project \in w.visited

\* The calls that follow from the links it reads; one back to its own project is
\* circular at once.
Below(w) ==
    {[project |-> r.project, note |-> r.note,
      visited |-> w.visited \cup {w.project}, left |-> w.left - 1] :
        r \in {s \in Refs(w.note) : s.project \notin w.visited}}

Linking(h) == job[h] # None /\ job[h].op = "link"
NewLink(h) == job[h].list[Len(job[h].list)]
Answers(n) == {l \in Links : <<n, l>> \in linked}

ReadLinks(h, n, l) ==
    /\ MayAsk(h) /\ There(n)
    /\ received' = received + 1
    /\ Continue(h, [op |-> "link", from |-> n, list |-> Append(LinkList(n), l),
                    walks |-> {Start(l, n)}, failed |-> FALSE, missed |-> {}])
    /\ UNCHANGED <<others, records, linkHistory>>

\* One call of the check reads the links. The calls come in any order; the code
\* goes depth first, which matters only to what of others' writes it sees.
WalkOn(h) ==
    /\ Linking(h)
    /\ \E w \in job[h].walks :
         /\ ~Circular(w)
         /\ Continue(h, [job[h] EXCEPT !.walks = (@ \ {w}) \cup Below(w)])
    /\ UNCHANGED <<vars, records, linkHistory>>

\* "On error, allow the link": the call and those below it are passed over. What
\* counts for the list itself is the first call, that of its own conclusion.
WalkFails(h) ==
    /\ Linking(h)
    /\ \E w \in job[h].walks :
         /\ ~Circular(w)
         /\ Continue(h, [job[h] EXCEPT !.walks = @ \ {w}, !.failed = @ \/ w.visited = {}])
    /\ UNCHANGED <<vars, records, linkHistory>>

RefuseLink(h) ==
    /\ Linking(h)
    /\ \E w \in job[h].walks : Circular(w)
    /\ End(h)
    /\ UNCHANGED <<vars, records, linkHistory>>

\* The others that hold the list have not seen what is written now.
Missing(n, written) ==
    [g \in Handlers |-> IF Linking(g) /\ job[g].from = n
                        THEN [job[g] EXCEPT !.missed = @ \cup written] ELSE job[g]]

\* The UPDATE, which finds no row when the conclusion was deleted meanwhile.
WriteLinks(h) ==
    /\ Linking(h) /\ job[h].walks = {}
    /\ LET n == job[h].from
           written == {job[h].list[i] : i \in DOMAIN job[h].list}
           checked == ~job[h].failed /\ job[h].missed = {}
       IN  /\ linked' = linked \cup {<<n, NewLink(h)>>}
           /\ IF There(n)
              THEN
                /\ conclusions' = [conclusions EXCEPT ![n].links = job[h].list]
                /\ overwritten' = (overwritten \cup {<<n, l>> : l \in job[h].missed})
                                    \ {<<n, l>> : l \in written}
                /\ unchecked' = IF checked THEN unchecked ELSE unchecked \cup {n}
                /\ job' = [Missing(n, written) EXCEPT ![h] = None]
              ELSE End(h) /\ UNCHANGED <<conclusions, overwritten, unchecked>>
    /\ UNCHANGED <<vars, matrix, made>>

(***************************************************************************)
(* The steps of ProjectStore, with what they do to the records.            *)
(***************************************************************************)
Emptied == /\ conclusions' = [n \in Notes |-> IF n \in InProject THEN None ELSE conclusions[n]]
           /\ matrix' = [c \in Clauses |-> None]

\* Items that are there already are left as they are (INSERT OR IGNORE).
Filled == matrix' = [c \in Clauses |-> IF c \in Template /\ matrix[c] = None
                                       THEN "unverified" ELSE matrix[c]]

Unrecorded(h) ==
    \/ CreateProject(h) \/ CheckAccess(h) \/ ReadProject(h) \/ ReadExisting(h)
    \/ WriteRow(h) \/ ArchiveProject(h) \/ UpdateCaseDetails(h)
    \/ InsertChild(h) /\ call[h].table # "conclusions"
    \/ EraseChild(h) /\ call[h].table # "conclusions"

StoreStep(h) ==
    /\ job[h] = None
    /\ \/ Unrecorded(h) /\ UNCHANGED <<conclusions, matrix>>
       \/ DeleteProject(h) /\ Emptied
       \/ /\ InitComplianceMatrix(h)
          /\ IF "compliance" \in filled' THEN Filled ELSE UNCHANGED matrix
          /\ UNCHANGED conclusions
    /\ UNCHANGED <<made, job, linkHistory>>

StoreReceive(h, c) == MayAsk(h) /\ Receive(h, c) /\ UNCHANGED recVars

RestartAll ==
    /\ \E h \in Handlers : stage[h] # "idle" \/ job[h] # None
    /\ job' = [h \in Handlers |-> None]
    /\ Restart \/ (InFlight = {} /\ UNCHANGED vars)
    /\ UNCHANGED <<records, linkHistory>>

WorkspaceNext ==
    \/ \E h \in Handlers :
         \/ StoreStep(h) \/ CreateConclusion(h) \/ DeleteConclusion(h) \/ LookUp(h)
         \/ UpdateCompliance(h)
         \/ WalkOn(h) \/ WalkFails(h) \/ RefuseLink(h) \/ WriteLinks(h)
         \/ \E c \in Requests : StoreReceive(h, c)
         \/ \E c \in Clauses, s \in Statuses : AskCompliance(h, c, s)
         \/ \E n \in Notes, l \in Links : ReadLinks(h, n, l)
    \/ RestartAll

WorkspaceSpec == WorkspaceInit /\ [][WorkspaceNext]_allVars

-----------------------------------------------------------------------------
(***************************************************************************)
(* Properties                                                              *)
(***************************************************************************)

\* A conclusion has the links that were answered "linked" and no other, but for
\* those that a request which had read the list before they were written left out of
\* the list that it wrote. It has one at most to any project, unless the check of a
\* link failed, or looked at a list that others changed while it went on.
LinksKept ==
    \A n \in Notes : There(n) =>
        /\ Refs(n) = {l \in Answers(n) : <<n, l>> \notin overwritten}
        /\ n \notin unchecked =>
             \A i, j \in DOMAIN LinkList(n) :
                LinkList(n)[i].project = LinkList(n)[j].project => i = j
=============================================================================
