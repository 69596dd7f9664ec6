---------------------------- MODULE ProjectStore ----------------------------
(***************************************************************************)
(* One project's workspace: the handlers of routes/projects.py, the access *)
(* check of auth/project_permissions.py and the ProjectManager methods     *)
(* they call (m5_qa/project/manager.py).  Every manager method opens a     *)
(* connection of its own, so a request is a chain of separate reads and    *)
(* writes, and other requests run between them.                            *)
(*                                                                         *)
(* update_project reads the row, merges the caller's keys into what it     *)
(* read and writes every column back; is_archived and owner_id are the     *)
(* columns it leaves alone.  Foreign keys are declared but not enforced.   *)
(*                                                                         *)
(* The routes are taken as routes/projects.py mounts them on its own.  In  *)
(* the app that create_app builds, routes/extras.py is included before it  *)
(* and answers a few of the same paths from the gateway's own database.    *)
(***************************************************************************)
EXTENDS Integers, FiniteSets

CONSTANTS
    Handlers,   \* requests the event loop holds at one time
    Owner,      \* owner_id of the project
    Others,     \* other users, those the team is made of
    Names,      \* values of the column name, for the columns PATCH can set
    Inserted,   \* the tables requests insert into
    MaxRequests,\* bound: requests after the project's creation
    None        \* no role, no request, no row

ASSUME HandlersFinite == IsFiniteSet(Handlers) /\ Handlers # {}
ASSUME OwnerIsOne == Owner \notin Others
ASSUME NamesExist == Names # {}
ASSUME MaxRequestsNat == MaxRequests \in Nat
ASSUME NoneIsNew == None \notin Others \cup {Owner}

Users == Others \cup {Owner}
Roles == {"viewer", "editor", "owner"}
Teams == [Others -> Roles \cup {None}]

\* PERMISSIONS, the actions of each role.
Permissions == [viewer |-> {"read", "comment"},
                editor |-> {"read", "comment", "write"},
                owner  |-> {"read", "comment", "write", "admin"}]

\* The tables that refer to a project.
Cascaded == {"conversations", "documents", "issues", "conclusions", "compliance"}
Tables == Cascaded \cup {"comments"}

\* Their rows can be removed one by one, those of the others cannot.
Erasable == {"conversations", "documents", "conclusions"}

ASSUME InsertedType == Inserted \subseteq Tables \ {"compliance"}

\* The columns update_project writes: the team, one that PATCH sets, the tags
\* (does the project carry "case_study") and the case texts (are they filled).
Columns == {"team", "name", "tags", "case"}
Only(c, v) == [x \in {c} |-> v]
Rows == [team : Teams, name : Names, tags : BOOLEAN, case : BOOLEAN]

\* A request: what it does, who asks, and the member, role, name or table asked
\* for.
MemberOps == {"add", "role", "remove"}
Requests ==
    [op : {"add", "role"}, by : Users, user : Others, role : Roles]
    \cup [op : {"remove"}, by : Users, user : Others]
    \cup [op : {"team"}, by : Users, team : Teams]
    \cup [op : {"name"}, by : Users, name : Names]
    \cup [op : {"mark", "archive", "case", "delete"}, by : Users]
    \cup [op : {"insert"}, by : Users, table : Inserted]
    \cup [op : {"erase"}, by : Users, table : Inserted \cap Erasable]

VARIABLES
    born,       \* the project was created, once
    there,      \* its row is in table projects
    row,        \* the columns of the row
    archived,   \* is_archived
    filled,     \* the tables holding rows of the project
    stage,      \* where each handler is
    call,       \* its request
    data,       \* the columns it hands to update_project
    existing,   \* the row update_project read
    received,   \* requests so far
    entitled,   \* history: handlers whose caller may manage members
    granted,    \* history: of each member, the role that such callers last gave
    patched,    \* history: members whose role was set by an editor's PATCH
    restored,   \* history: members whose role was written back from an old copy
    behind,     \* history: members whose role changed since a handler read the team
    overlapped, \* history: two requests were in flight at once
    late        \* history: tables filled after the project was gone

reqVars == <<stage, call, data, existing>>
roleHistory == <<granted, patched, restored, behind>>
vars == <<born, there, row, archived, filled, reqVars, received, entitled, roleHistory, overlapped, late>>

Stages == {"idle", "access", "read", "reread", "write", "matrix"}
Changes == [{"team"} -> Teams] \cup [{"name"} -> Names] \cup [{"tags"} -> {TRUE}]

TypeOK ==
    /\ born \in BOOLEAN
    /\ there \in BOOLEAN
    /\ row \in Rows
    /\ archived \in BOOLEAN
    /\ filled \subseteq Tables
    /\ stage \in [Handlers -> Stages]
    /\ call \in [Handlers -> Requests \cup {None}]
    /\ data \in [Handlers -> Changes \cup {None}]
    /\ existing \in [Handlers -> Rows \cup {None}]
    /\ received \in 0..MaxRequests
    /\ entitled \subseteq Handlers
    /\ granted \in Teams
    /\ patched \subseteq Others /\ restored \subseteq Others
    /\ behind \in [Handlers -> SUBSET Others]
    /\ overlapped \in BOOLEAN
    /\ late \subseteq Tables

NoTeam == [u \in Others |-> None]

\* "row" already holds what the creator's request will insert: any team, any
\* tags, no case texts.
Init ==
    /\ born = FALSE
    /\ there = FALSE
    /\ row \in {r \in Rows : ~r.case}
    /\ archived = FALSE
    /\ filled = {}
    /\ stage = [h \in Handlers |-> "idle"]
    /\ call = [h \in Handlers |-> None]
    /\ data = [h \in Handlers |-> None]
    /\ existing = [h \in Handlers |-> None]
    /\ received = 0
    /\ entitled = {}
    /\ granted = row["team"]
    /\ patched = {} /\ restored = {}
    /\ behind = [h \in Handlers |-> {}]
    /\ overlapped = FALSE
    /\ late = {}

-----------------------------------------------------------------------------
Goto(h, s) == stage' = [stage EXCEPT ![h] = s]

Finish(h) ==
    /\ Goto(h, "idle")
    /\ call' = [call EXCEPT ![h] = None]
    /\ data' = [data EXCEPT ![h] = None]
    /\ existing' = [existing EXCEPT ![h] = None]
    /\ entitled' = entitled \ {h}

InFlight == {h \in Handlers : stage[h] # "idle"}
Overlap == overlapped' = (overlapped \/ InFlight # {})

(***************************************************************************)
(* create_project: the row is committed, then the compliance items of the  *)
(* regulation template in a transaction of their own.  Its owner can find  *)
(* the project in the list in between.                                     *)
(***************************************************************************)
CreateProject(h) ==
    /\ stage[h] = "idle"
    /\ ~born
    /\ born' = TRUE
    /\ there' = TRUE
    /\ Goto(h, "matrix")
    /\ Overlap
    /\ UNCHANGED <<row, archived, filled, call, data, existing, received, entitled, roleHistory, late>>

\* Rows written for a project that is gone stay behind.
Fill(t) ==
    /\ filled' = filled \cup {t}
    /\ late' = IF there THEN late ELSE late \cup {t}

\* Nothing is inserted when no template fits the project.
InitComplianceMatrix(h) ==
    /\ stage[h] = "matrix"
    /\ Fill("compliance") \/ UNCHANGED <<filled, late>>
    /\ Finish(h)
    /\ UNCHANGED <<born, there, row, archived, received, roleHistory, overlapped>>

(***************************************************************************)
(* Every other request starts with the access check of its action; PATCH   *)
(* /case-details has none.                                                 *)
(***************************************************************************)
Receive(h, c) ==
    /\ stage[h] = "idle"
    /\ born
    /\ received < MaxRequests
    /\ received' = received + 1
    /\ call' = [call EXCEPT ![h] = c]
    /\ Goto(h, IF c.op = "case" THEN "write" ELSE "access")
    /\ Overlap
    /\ UNCHANGED <<born, there, row, archived, filled, data, existing, entitled, roleHistory, late>>

Action(c) ==
    CASE c.op \in MemberOps \cup {"delete"} -> "admin"
      [] c.op \in {"team", "name", "mark", "archive", "erase"} -> "write"
      [] c.op = "insert" -> IF c.table = "comments" THEN "comment" ELSE "write"

\* (mutation) a member's role is not looked at.
MayDoAnyMember(u, action) == u = Owner \/ row["team"][u] # None

\* check_project_access: the owner, or a member whose role allows the action.
MayDo(u, action) ==
    u = Owner \/ (row["team"][u] # None /\ action \in Permissions[row["team"][u]])

\* "Editor cannot ... manage members": who may is the owner, or has that role.
Manages(u) == u = Owner \/ row["team"][u] = "owner"

\* The stage after the check; PATCH goes straight to update_project.
Body(c) ==
    CASE c.op \in MemberOps \cup {"mark"} -> "read"
      [] c.op \in {"team", "name"} -> "reread"
      [] c.op \in {"archive", "delete", "insert", "erase"} -> "write"

Patch(c) ==
    CASE c.op = "team" -> Only("team", c.team)
      [] c.op = "name" -> Only("name", c.name)
      [] OTHER -> None

CheckAccess(h) ==
    /\ stage[h] = "access"
    /\ IF there /\ MayDo(call[h].by, Action(call[h]))
       THEN /\ Goto(h, Body(call[h]))
            /\ data' = [data EXCEPT ![h] = Patch(call[h])]
            /\ entitled' = IF Manages(call[h].by) THEN entitled \cup {h} ELSE entitled
            /\ UNCHANGED <<call, existing>>
       ELSE Finish(h)
    /\ UNCHANGED <<born, there, row, archived, filled, received, roleHistory, overlapped, late>>

(***************************************************************************)
(* add_member, update_member_role, remove_member and mark_as_case_study    *)
(* read the row and work out the column they want.                         *)
(***************************************************************************)

\* Adding a member who is one, or a role for who is none, raises ValueError.
Applies(c) ==
    CASE c.op = "add" -> row["team"][c.user] = None
      [] c.op = "role" -> row["team"][c.user] # None
      [] OTHER -> TRUE

Column(c) ==
    IF c.op = "mark" THEN Only("tags", TRUE)
    ELSE Only("team", [row["team"] EXCEPT ![c.user] = IF c.op = "remove" THEN None ELSE c.role])

ReadProject(h) ==
    /\ stage[h] = "read"
    /\ IF there /\ Applies(call[h])
       THEN /\ Goto(h, "reread")
            /\ data' = [data EXCEPT ![h] = Column(call[h])]
            /\ UNCHANGED <<call, existing, entitled>>
       ELSE Finish(h)
    /\ UNCHANGED <<born, there, row, archived, filled, received, roleHistory, overlapped, late>>

(***************************************************************************)
(* update_project: read, merge, write all columns.                         *)
(***************************************************************************)
ReadExisting(h) ==
    /\ stage[h] = "reread"
    /\ IF there
       THEN /\ Goto(h, "write")
            /\ existing' = [existing EXCEPT ![h] = row]
            /\ UNCHANGED <<call, data, entitled>>
       ELSE Finish(h)
    /\ UNCHANGED <<born, there, row, archived, filled, received, roleHistory, overlapped, late>>

\* (mutation) the caller's keys alone make the row, the others are reset.
MergedDropping(d, e) ==
    [c \in Columns |-> IF c \in DOMAIN d THEN d[c]
                       ELSE IF c = "team" THEN NoTeam ELSE e[c]]

Merged(d, e) == [c \in Columns |-> IF c \in DOMAIN d THEN d[c] ELSE e[c]]

Updates(c) == c.op \in MemberOps \cup {"team", "name", "mark"}

\* The members whose role a request sets, and what it sets it to. A PATCH of the
\* team sets everyone's.
Named(c) == IF c.op = "team" THEN Others ELSE IF c.op \in MemberOps THEN {c.user} ELSE {}
Wanted(c, u) == IF c.op = "team" THEN c.team[u] ELSE IF c.op = "remove" THEN None ELSE c.role

\* A handler that has read the team and is going to write it back.
HoldsTeam(g) ==
    \/ stage[g] = "reread" /\ call[g].op \in MemberOps
    \/ stage[g] = "write" /\ Updates(call[g])

\* What an UPDATE is to the members' roles: those it names are given by who may
\* give them or by an editor's PATCH, and the others are as the request read them.
Account(h, names) ==
    /\ granted' = IF h \in entitled
                  THEN [u \in Others |-> IF u \in names THEN Wanted(call[h], u) ELSE granted[u]]
                  ELSE granted
    /\ patched' = IF h \notin entitled /\ call[h].op = "team"
                  THEN patched \cup names ELSE patched \ names
    /\ restored' = (restored \cup behind[h]) \ names
    /\ LET changed == {u \in Others : row'["team"][u] # row["team"][u]}
       IN  behind' = [g \in Handlers |-> IF g # h /\ HoldsTeam(g) THEN behind[g] \cup changed
                                         ELSE {}]

\* The UPDATE finds no row when the project was deleted meanwhile.
WriteRow(h) ==
    /\ stage[h] = "write"
    /\ Updates(call[h])
    /\ IF there
       THEN row' = Merged(data[h], existing[h]) /\ Account(h, Named(call[h]))
       ELSE UNCHANGED <<row, roleHistory>>
    /\ Finish(h)
    /\ UNCHANGED <<born, there, archived, filled, received, overlapped, late>>

(***************************************************************************)
(* The methods that are one statement or one transaction.                  *)
(***************************************************************************)
ArchiveProject(h) ==
    /\ stage[h] = "write"
    /\ call[h].op = "archive"
    /\ archived' = (archived \/ there)
    /\ Finish(h)
    /\ UNCHANGED <<born, there, row, filled, received, roleHistory, overlapped, late>>

UpdateCaseDetails(h) ==
    /\ stage[h] = "write"
    /\ call[h].op = "case"
    /\ row' = IF there THEN [row EXCEPT !["case"] = TRUE] ELSE row
    /\ Finish(h)
    /\ UNCHANGED <<born, there, archived, filled, received, roleHistory, overlapped, late>>

\* (mutation) one of the six DELETE statements is missing.
DeleteLeavingConclusions(h) ==
    /\ stage[h] = "write"
    /\ call[h].op = "delete"
    /\ there' = FALSE
    /\ filled' = filled \ (Cascaded \ {"conclusions"})
    /\ Finish(h)
    /\ UNCHANGED <<born, row, archived, received, roleHistory, overlapped, late>>

\* delete_project, six DELETEs in one transaction; none for project_comments.
DeleteProject(h) ==
    /\ stage[h] = "write"
    /\ call[h].op = "delete"
    /\ there' = FALSE
    /\ filled' = filled \ Cascaded
    /\ Finish(h)
    /\ UNCHANGED <<born, row, archived, received, roleHistory, overlapped, late>>

\* link_conversation, add_document, create_issue, create_conclusion and
\* add_comment insert without looking at table projects.
InsertChild(h) ==
    /\ stage[h] = "write"
    /\ call[h].op = "insert"
    /\ Fill(call[h].table)
    /\ Finish(h)
    /\ UNCHANGED <<born, there, row, archived, received, roleHistory, overlapped>>

\* unlink_conversation, delete_document and delete_conclusion remove the row of
\* an id: the last of the project's, one of several, or none.
EraseChild(h) ==
    /\ stage[h] = "write"
    /\ call[h].op = "erase"
    /\ filled' \in {filled, filled \ {call[h].table}}
    /\ Finish(h)
    /\ UNCHANGED <<born, there, row, archived, received, roleHistory, overlapped, late>>

\* The gateway restarts: requests in flight end where they are.
Restart ==
    /\ InFlight # {}
    /\ stage' = [h \in Handlers |-> "idle"]
    /\ call' = [h \in Handlers |-> None]
    /\ data' = [h \in Handlers |-> None]
    /\ existing' = [h \in Handlers |-> None]
    /\ entitled' = {}
    /\ behind' = [h \in Handlers |-> {}]
    /\ UNCHANGED <<born, there, row, archived, filled, received, granted, patched, restored,
                   overlapped, late>>

Step(h) ==
    \/ InitComplianceMatrix(h) \/ CheckAccess(h) \/ ReadProject(h)
    \/ ReadExisting(h) \/ WriteRow(h) \/ ArchiveProject(h)
    \/ UpdateCaseDetails(h) \/ DeleteProject(h) \/ InsertChild(h) \/ EraseChild(h)

Next ==
    \/ \E h \in Handlers : CreateProject(h) \/ Step(h)
    \/ \E h \in Handlers, c \in Requests : Receive(h, c)
    \/ Restart

Spec == Init /\ [][Next]_vars

-----------------------------------------------------------------------------
(***************************************************************************)
(* Properties                                                              *)
(***************************************************************************)

\* A member has the role, or none, that the last request of someone who may manage
\* members gave. There are two exceptions. An editor's PATCH can carry a team, which
\* project_permissions.py:8-9 says an editor cannot manage; and a request that read
\* the team before another changed a role writes the old one back, until the next
\* request that names the member.
RolesAsGiven ==
    \A u \in Others \ (patched \cup restored) : row["team"][u] = granted[u]

\* Deleting a project leaves no row of it behind in the five tables it deletes
\* from, but for requests that were past their check and inserted afterwards.
DeleteIsClean == born /\ ~there => filled \subseteq late \cup {"comments"}

\* The columns a request did not name keep their values in its UPDATE.
KeepsOtherColumns(h) ==
    stage[h] = "write" /\ stage'[h] = "idle" /\ data[h] # None =>
        \A c \in Columns \ DOMAIN data[h] : row'[c] = row[c]

\* "Update project fields. Only updates provided keys." (project/manager.py:246)
\* holds for requests that come one at a time.
SerialOnlyProvidedKeys ==
    [][~overlapped => \A h \in Handlers : KeepsOtherColumns(h)]_vars
=============================================================================
