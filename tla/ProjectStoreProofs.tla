------------------------ MODULE ProjectStoreProofs ------------------------
(***************************************************************************)
(* What concurrent requests can do to the roles of a project's members, to *)
(* the links of its conclusions and to what its deletion leaves behind:    *)
(* for every number of requests and of users, in ProjectStore and with the *)
(* requests of ProjectRecords.                                             *)
(***************************************************************************)
EXTENDS ProjectRecords, Induction

\* Where a request is, it is one that gets there; those about members were let in
\* because their caller may manage them.
CallKept(h) ==
    /\ stage[h] \in {"access", "read", "reread", "write"} => call[h] \in Requests
    /\ stage[h] = "access" => call[h].op # "case"
    /\ stage[h] = "read" => call[h].op \in MemberOps \cup {"mark"}
    /\ stage[h] = "reread" => Updates(call[h])
    /\ stage[h] \in {"read", "reread", "write"} /\ call[h].op \in MemberOps => h \in entitled

\* The columns that a request is going to write.
Prepared(h) == stage[h] = "reread" \/ (stage[h] = "write" /\ Updates(call[h]))
SetsTeam(c) == c.op \in MemberOps \cup {"team"}
DataKept(h) ==
    Prepared(h) => /\ "team" \in DOMAIN data[h] <=> SetsTeam(call[h])
                   /\ call[h].op = "team" => data[h]["team"] = call[h].team

\* The team that it writes: as it asks for those it names, and for the others as the
\* row has it, unless it is behind on them.
Copy(h) == IF SetsTeam(call[h]) THEN data[h]["team"] ELSE existing[h]["team"]
CopyKept(h) ==
    HoldsTeam(h) =>
        /\ Copy(h) \in Teams
        /\ \A u \in Named(call[h]) : Copy(h)[u] = Wanted(call[h], u)
        /\ \A u \in Others \ (Named(call[h]) \cup behind[h]) : Copy(h)[u] = row["team"][u]

HandlerKept(h) == CallKept(h) /\ DataKept(h) /\ CopyKept(h)

Shape ==
    /\ stage \in [Handlers -> Stages]
    /\ DOMAIN call = Handlers /\ DOMAIN data = Handlers /\ DOMAIN existing = Handlers

RowKept == row["team"] \in Teams /\ RolesAsGiven

IInv == Shape /\ RowKept /\ \A h \in Handlers : HandlerKept(h)

-----------------------------------------------------------------------------
\* The requests there are.
LEMMA Ops ==
    ASSUME NEW c \in Requests
    PROVE  c.op \in {"add", "role", "remove", "team", "name", "mark", "archive",
                     "case", "delete", "insert", "erase"}
BY DEF Requests, Erasable

\* Whom a request names, and what a team it carries is.
LEMMA NamedOthers ==
    ASSUME NEW c \in Requests
    PROVE  /\ Named(c) \subseteq Others
           /\ c.op \in MemberOps => c.user \in Others /\ Named(c) = {c.user}
           /\ c.op = "team" => c.team \in Teams /\ Named(c) = Others
           /\ ~SetsTeam(c) => Named(c) = {}
<1>1. CASE c.op \in MemberOps
  BY <1>1 DEF Requests, Named, SetsTeam, MemberOps
<1>2. CASE c.op = "team"
  BY <1>2 DEF Requests, Named, SetsTeam, MemberOps
<1>3. CASE ~SetsTeam(c)
  BY <1>3 DEF Named, SetsTeam
<1> QED  BY <1>1, <1>2, <1>3 DEF SetsTeam

\* What a merged row makes of the team.
LEMMA MergedTeam ==
    ASSUME NEW d, NEW e
    PROVE  Merged(d, e)["team"] = IF "team" \in DOMAIN d THEN d["team"] ELSE e["team"]
BY DEF Merged, Columns

\* check_project_access lets nobody manage members who may not.
LEMMA AccessEntitles ==
    ASSUME row["team"] \in Teams, NEW c \in Requests, c.op \in MemberOps, MayDo(c.by, Action(c))
    PROVE  Manages(c.by)
<1>1. Action(c) = "admin" /\ c.by \in Users
  BY DEF Action, Requests, MemberOps, Erasable
<1>2. CASE c.by = Owner
  BY <1>2 DEF Manages
<1>3. CASE c.by # Owner
  <2>1. row["team"][c.by] \in Roles /\ "admin" \in Permissions[row["team"][c.by]]
    BY <1>1, <1>3 DEF MayDo, Users, Teams
  <2>2. row["team"][c.by] = "owner"
    BY <2>1 DEF Permissions, Roles
  <2> QED  BY <2>2 DEF Manages
<1> QED  BY <1>2, <1>3

-----------------------------------------------------------------------------
LEMMA InitIInv == Init => IInv
<1> SUFFICES ASSUME Init PROVE IInv
  OBVIOUS
<1>1. RowKept
  BY DEF Init, RowKept, RolesAsGiven, Rows
<1>2. Shape
  BY DEF Init, Shape, Stages
<1>3. \A h \in Handlers : HandlerKept(h)
  BY DEF Init, HandlerKept, CallKept, DataKept, CopyKept, Prepared, HoldsTeam
<1> QED  BY <1>1, <1>2, <1>3 DEF IInv

\* A handler that a step leaves alone keeps its part, if it is behind on whom the
\* step gives another role.
LEMMA OtherHandlers ==
    ASSUME IInv, NEW g \in Handlers, stage'[g] = stage[g], call'[g] = call[g],
           data'[g] = data[g], existing'[g] = existing[g], g \in entitled' <=> g \in entitled,
           \A u \in Others : HoldsTeam(g) /\ u \notin behind'[g] =>
                                u \notin behind[g] /\ row'["team"][u] = row["team"][u]
    PROVE  HandlerKept(g)'
<1>0. HandlerKept(g)
  BY DEF IInv
<1>1. CallKept(g)' /\ DataKept(g)'
  BY <1>0 DEF HandlerKept, CallKept, DataKept, Prepared, Updates, SetsTeam
<1>2. (HoldsTeam(g)' <=> HoldsTeam(g)) /\ Copy(g)' = Copy(g)
      /\ Named(call'[g]) = Named(call[g]) /\ \A u : Wanted(call'[g], u) = Wanted(call[g], u)
  BY DEF HoldsTeam, Copy, Updates, SetsTeam, Named, Wanted
<1>3. ASSUME HoldsTeam(g) PROVE
        /\ Copy(g) \in Teams
        /\ \A u \in Named(call[g]) : Copy(g)[u] = Wanted(call[g], u)
        /\ \A u \in Others \ (Named(call[g]) \cup behind'[g]) : Copy(g)[u] = row'["team"][u]
  BY <1>0, <1>3 DEF HandlerKept, CopyKept
<1>4. CopyKept(g)'
  BY <1>2, <1>3 DEF CopyKept
<1> QED  BY <1>1, <1>4 DEF HandlerKept

\* A handler that finishes owes nothing.
LEMMA FinishStep ==
    ASSUME IInv, NEW h \in Handlers, Finish(h), RowKept',
           \A g \in Handlers \ {h} : \A u \in Others : HoldsTeam(g) /\ u \notin behind'[g] =>
                                u \notin behind[g] /\ row'["team"][u] = row["team"][u]
    PROVE  IInv'
<1>1. Shape'
  BY DEF Finish, Goto, IInv, Shape, Stages
<1>2. ASSUME NEW g \in Handlers PROVE HandlerKept(g)'
  <2>1. CASE g = h
    <3>1. stage'[g] = "idle"
      BY <2>1 DEF Finish, Goto, IInv, Shape
    <3> QED  BY <3>1 DEF HandlerKept, CallKept, DataKept, CopyKept, Prepared, HoldsTeam
  <2>2. CASE g # h
    <3>1. /\ stage'[g] = stage[g] /\ call'[g] = call[g] /\ data'[g] = data[g]
          /\ existing'[g] = existing[g] /\ (g \in entitled' <=> g \in entitled)
      BY <2>2 DEF Finish, Goto, IInv, Shape
    <3> QED  BY <2>2, <3>1, OtherHandlers
  <2> QED  BY <2>1, <2>2
<1> QED  BY <1>1, <1>2 DEF IInv

\* So does one that finishes without another role for anyone.
LEMMA FinishQuietly ==
    ASSUME IInv, NEW h \in Handlers, Finish(h), row'["team"] = row["team"], UNCHANGED roleHistory
    PROVE  IInv'
<1>1. RowKept'
  BY DEF IInv, RowKept, RolesAsGiven, roleHistory
<1>2. \A g \in Handlers \ {h} : \A u \in Others : HoldsTeam(g) /\ u \notin behind'[g] =>
                                u \notin behind[g] /\ row'["team"][u] = row["team"][u]
  BY DEF roleHistory
<1> QED  BY <1>1, <1>2, FinishStep

\* A handler's step that does not finish it.
LEMMA OwnStep ==
    ASSUME IInv, NEW h \in Handlers, NEW s \in Stages, Goto(h, s), row' = row, UNCHANGED roleHistory,
           DOMAIN call' = Handlers, DOMAIN data' = Handlers, DOMAIN existing' = Handlers,
           \A g \in Handlers \ {h} :
              /\ call'[g] = call[g] /\ data'[g] = data[g] /\ existing'[g] = existing[g]
              /\ g \in entitled' <=> g \in entitled,
           HandlerKept(h)'
    PROVE  IInv'
<1>1. Shape' /\ RowKept'
  BY DEF Goto, IInv, Shape, RowKept, RolesAsGiven, roleHistory
<1>2. ASSUME NEW g \in Handlers \ {h} PROVE HandlerKept(g)'
  <2>1. stage'[g] = stage[g] /\ behind' = behind
    BY DEF Goto, IInv, Shape, roleHistory
  <2> QED  BY <2>1, OtherHandlers
<1> QED  BY <1>1, <1>2 DEF IInv

LEMMA CheckAccessStep ==
    ASSUME IInv, NEW h \in Handlers, CheckAccess(h)
    PROVE  IInv'
<1>1. CASE ~(there /\ MayDo(call[h].by, Action(call[h])))
  BY <1>1, FinishQuietly DEF CheckAccess
<1>2. CASE there /\ MayDo(call[h].by, Action(call[h]))
  <2>0. PICK c : c = call[h]
    OBVIOUS
  <2>1. c \in Requests /\ c.op # "case"
    BY <2>0 DEF CheckAccess, IInv, HandlerKept, CallKept
  <2>2. Body(c) \in {"read", "reread", "write"}
    BY <2>1, Ops DEF Body, MemberOps
  <2>3. /\ stage'[h] = Body(c) /\ call' = call /\ existing' = existing
        /\ data' = [data EXCEPT ![h] = Patch(c)] /\ row' = row /\ UNCHANGED roleHistory
        /\ entitled' = IF Manages(c.by) THEN entitled \cup {h} ELSE entitled
        /\ Goto(h, Body(c))
    BY <2>0, <1>2 DEF CheckAccess, Goto, IInv, Shape
  <2>4. c.op \in MemberOps => h \in entitled'
    BY <1>2, <2>0, <2>1, <2>3, AccessEntitles DEF IInv, RowKept
  <2>5. /\ Body(c) = "read" => c.op \in MemberOps \cup {"mark"}
        /\ Body(c) = "reread" => c.op \in {"team", "name"}
        /\ Body(c) = "write" => ~Updates(c)
    BY <2>1, Ops DEF Body, MemberOps, Updates
  <2>6. CallKept(h)'
    BY <2>0, <2>1, <2>2, <2>3, <2>4, <2>5 DEF CallKept, Updates
  <2>7. DataKept(h)'
    <3>1. data'[h] = Patch(c)
      BY <2>3 DEF IInv, Shape
    <3>2. ASSUME c.op \in {"team", "name"}
          PROVE  ("team" \in DOMAIN Patch(c) <=> SetsTeam(c)) /\ (c.op = "team" => Patch(c)["team"] = c.team)
      BY <3>2 DEF Patch, Only, SetsTeam, MemberOps
    <3> QED  BY <2>0, <2>2, <2>3, <2>5, <3>1, <3>2 DEF DataKept, Prepared
  <2>8. CopyKept(h)'
    BY <2>0, <2>2, <2>3, <2>5 DEF CopyKept, HoldsTeam, MemberOps
  <2>9. Body(c) \in Stages
    BY <2>2 DEF Stages
  <2>10. /\ DOMAIN call' = Handlers /\ DOMAIN data' = Handlers /\ DOMAIN existing' = Handlers
         /\ \A g \in Handlers \ {h} : /\ call'[g] = call[g] /\ data'[g] = data[g] /\ existing'[g] = existing[g]
                                      /\ g \in entitled' <=> g \in entitled
    BY <2>3 DEF IInv, Shape
  <2>11. HandlerKept(h)'
    BY <2>6, <2>7, <2>8 DEF HandlerKept
  <2> QED  BY <2>3, <2>9, <2>10, <2>11, OwnStep
<1> QED  BY <1>1, <1>2

\* What a member request makes of the team that it reads.
LEMMA ColumnOf ==
    ASSUME row["team"] \in Teams, NEW c \in Requests, c.op \in MemberOps
    PROVE  /\ DOMAIN Column(c) = {"team"}
           /\ Column(c)["team"] \in Teams
           /\ \A u \in Others : Column(c)["team"][u] = IF u \in Named(c) THEN Wanted(c, u) ELSE row["team"][u]
<1>1. c.user \in Others /\ Named(c) = {c.user}
  BY NamedOthers
<1>2. Wanted(c, c.user) \in Roles \cup {None} /\ Wanted(c, c.user) = IF c.op = "remove" THEN None ELSE c.role
  BY DEF Wanted, MemberOps, Requests
<1>3. Column(c) = Only("team", [row["team"] EXCEPT ![c.user] = Wanted(c, c.user)])
  BY <1>2 DEF Column, MemberOps
<1> QED  BY <1>1, <1>2, <1>3 DEF Only, Teams

LEMMA ReadProjectStep ==
    ASSUME IInv, NEW h \in Handlers, ReadProject(h)
    PROVE  IInv'
<1>1. CASE ~(there /\ Applies(call[h]))
  BY <1>1, FinishQuietly DEF ReadProject
<1>2. CASE there /\ Applies(call[h])
  <2>0. PICK c : c = call[h]
    OBVIOUS
  <2>1. c \in Requests /\ c.op \in MemberOps \cup {"mark"} /\ (c.op \in MemberOps => h \in entitled)
    BY <2>0 DEF ReadProject, IInv, HandlerKept, CallKept
  <2>2. /\ stage'[h] = "reread" /\ call' = call /\ existing' = existing /\ UNCHANGED <<roleHistory, entitled>>
        /\ data'[h] = Column(c) /\ row' = row /\ Goto(h, "reread")
        /\ \A g \in Handlers : g # h => data'[g] = data[g]
        /\ DOMAIN data' = Handlers
    BY <2>0, <1>2 DEF ReadProject, Goto, IInv, Shape
  <2>3. row["team"] \in Teams
    BY DEF IInv, RowKept
  <2>4. CallKept(h)'
    BY <2>0, <2>1, <2>2 DEF CallKept, Updates
  <2>5. DataKept(h)'
    <3>1. CASE c.op \in MemberOps
      <4>1. DOMAIN Column(c) = {"team"}
        BY <2>1, <2>3, <3>1, ColumnOf
      <4> QED  BY <2>0, <2>2, <3>1, <4>1 DEF DataKept, SetsTeam, MemberOps
    <3>2. CASE c.op = "mark"
      BY <2>0, <2>2, <3>2 DEF DataKept, SetsTeam, MemberOps, Column, Only
    <3> QED  BY <2>1, <3>1, <3>2
  <2>6. CopyKept(h)'
    <3>1. CASE c.op \in MemberOps
      <4>1. Copy(h)' = Column(c)["team"]
        BY <2>0, <2>2, <3>1 DEF Copy, SetsTeam
      <4>2. Named(c) \subseteq Others
        BY <2>1, NamedOthers
      <4>3. /\ Column(c)["team"] \in Teams
            /\ \A u \in Others : Column(c)["team"][u] = IF u \in Named(c) THEN Wanted(c, u) ELSE row["team"][u]
        BY <2>1, <2>3, <3>1, ColumnOf
      <4> QED  BY <2>0, <2>2, <4>1, <4>2, <4>3 DEF CopyKept
    <3>2. CASE c.op = "mark"
      BY <2>0, <2>2, <3>2 DEF CopyKept, HoldsTeam, MemberOps
    <3> QED  BY <2>1, <3>1, <3>2
  <2>7. HandlerKept(h)'
    BY <2>4, <2>5, <2>6 DEF HandlerKept
  <2>8. /\ DOMAIN call' = Handlers /\ DOMAIN existing' = Handlers
    BY <2>2 DEF IInv, Shape
  <2> QED  BY <2>2, <2>7, <2>8, OwnStep DEF Stages
<1> QED  BY <1>1, <1>2

LEMMA ReadExistingStep ==
    ASSUME IInv, NEW h \in Handlers, ReadExisting(h)
    PROVE  IInv'
<1>1. CASE ~there
  BY <1>1, FinishQuietly DEF ReadExisting
<1>2. CASE there
  <2>0. PICK c : c = call[h]
    OBVIOUS
  <2>1. /\ stage'[h] = "write" /\ call' = call /\ data' = data /\ UNCHANGED <<roleHistory, entitled>>
        /\ existing'[h] = row /\ row' = row /\ Goto(h, "write") /\ stage[h] = "reread"
        /\ \A g \in Handlers : g # h => existing'[g] = existing[g]
        /\ DOMAIN existing' = Handlers
    BY <1>2 DEF ReadExisting, Goto, IInv, Shape
  <2>2. CallKept(h) /\ DataKept(h) /\ CopyKept(h) /\ Updates(c) /\ c \in Requests
    BY <2>0, <2>1 DEF IInv, HandlerKept, CallKept
  <2>3. CallKept(h)' /\ DataKept(h)'
    BY <2>0, <2>1, <2>2 DEF CallKept, DataKept, Prepared
  <2>4. CopyKept(h)'
    <3>1. CASE c.op \in MemberOps
      <4>1. HoldsTeam(h) /\ Copy(h)' = Copy(h)
        BY <2>0, <2>1, <3>1 DEF HoldsTeam, Copy, SetsTeam
      <4>2. Copy(h) \in Teams
            /\ (\A u \in Named(c) : Copy(h)[u] = Wanted(c, u))
            /\ (\A u \in Others \ (Named(c) \cup behind[h]) : Copy(h)[u] = row["team"][u])
        BY <2>0, <2>2, <4>1 DEF CopyKept
      <4> QED  BY <2>0, <2>1, <4>1, <4>2 DEF CopyKept, roleHistory
    <3>2. CASE c.op = "team"
      <4>1. Copy(h)' = c.team /\ c.team \in Teams /\ Named(c) = Others
        BY <2>0, <2>1, <2>2, <3>2, NamedOthers DEF Copy, SetsTeam, DataKept, Prepared
      <4>2. \A u : Wanted(c, u) = c.team[u]
        BY <3>2 DEF Wanted
      <4> QED  BY <2>0, <2>1, <4>1, <4>2 DEF CopyKept
    <3>3. CASE ~SetsTeam(c)
      <4>1. Copy(h)' = row["team"] /\ Named(c) = {}
        BY <2>0, <2>1, <2>2, <3>3, NamedOthers DEF Copy, SetsTeam
      <4>2. row["team"] \in Teams
        BY DEF IInv, RowKept
      <4> QED  BY <2>0, <2>1, <4>1, <4>2 DEF CopyKept
    <3> QED  BY <3>1, <3>2, <3>3 DEF SetsTeam
  <2>5. HandlerKept(h)'
    BY <2>3, <2>4 DEF HandlerKept
  <2>6. /\ DOMAIN call' = Handlers /\ DOMAIN data' = Handlers
    BY <2>1 DEF IInv, Shape
  <2> QED  BY <2>1, <2>5, <2>6, OwnStep DEF Stages
<1> QED  BY <1>1, <1>2

\* Those whom the UPDATE names have the role that it asks for, and the others the one
\* they had, unless the request was behind on them; the accounts say the same.
LEMMA WriteRowStep ==
    ASSUME IInv, NEW h \in Handlers, WriteRow(h)
    PROVE  IInv'
<1>1. CASE ~there
  BY <1>1, FinishQuietly DEF WriteRow
<1>2. CASE there
  <2>0. PICK c : c = call[h]
    OBVIOUS
  <2>1. /\ stage[h] = "write" /\ Updates(c) /\ Finish(h)
        /\ row' = Merged(data[h], existing[h]) /\ Account(h, Named(c))
    BY <1>2, <2>0 DEF WriteRow
  <2>2. c \in Requests /\ DataKept(h) /\ CopyKept(h) /\ HoldsTeam(h)
        /\ (c.op \in MemberOps => h \in entitled)
    BY <2>0, <2>1 DEF IInv, HandlerKept, CallKept, HoldsTeam
  <2>3. row'["team"] = Copy(h)
    BY <2>0, <2>1, <2>2, MergedTeam DEF DataKept, Prepared, Copy
  <2>4. /\ Copy(h) \in Teams
        /\ \A u \in Named(c) : Copy(h)[u] = Wanted(c, u)
        /\ \A u \in Others \ (Named(c) \cup behind[h]) : Copy(h)[u] = row["team"][u]
    BY <2>0, <2>2 DEF CopyKept
  <2>5. ASSUME NEW u \in Others, u \notin patched', u \notin restored'
        PROVE  row'["team"][u] = granted'[u]
    <3>1. CASE u \in Named(c)
      <4>1. h \in entitled
        <5>1. SetsTeam(c)
          BY <2>2, <3>1, NamedOthers
        <5>2. c.op = "team" /\ h \notin entitled => u \in patched'
          BY <2>0, <2>1, <3>1 DEF Account
        <5> QED  BY <2>2, <2>5, <5>1, <5>2 DEF SetsTeam
      <4>2. granted'[u] = Wanted(c, u)
        BY <2>0, <2>1, <3>1, <4>1 DEF Account
      <4> QED  BY <2>3, <2>4, <3>1, <4>2
    <3>2. CASE u \notin Named(c)
      <4>1. u \notin behind[h] /\ u \notin patched /\ u \notin restored /\ granted'[u] = granted[u]
        BY <2>0, <2>1, <2>5, <3>2 DEF Account
      <4>2. row["team"][u] = granted[u]
        BY <4>1 DEF IInv, RowKept, RolesAsGiven
      <4> QED  BY <2>3, <2>4, <3>2, <4>1, <4>2
    <3> QED  BY <3>1, <3>2
  <2>6. RowKept'
    BY <2>3, <2>4, <2>5 DEF RowKept, RolesAsGiven
  <2>7. ASSUME NEW g \in Handlers, g # h, NEW u \in Others, HoldsTeam(g), u \notin behind'[g]
        PROVE  u \notin behind[g] /\ row'["team"][u] = row["team"][u]
    BY <2>1, <2>7 DEF Account
  <2> QED  BY <2>1, <2>6, <2>7, FinishStep
<1> QED  BY <1>1, <1>2

LEMMA ReceiveStep ==
    ASSUME IInv, NEW h \in Handlers, NEW c \in Requests, Receive(h, c)
    PROVE  IInv'
<1> DEFINE s == IF c.op = "case" THEN "write" ELSE "access"
<1>1. /\ Goto(h, s) /\ s \in Stages /\ stage'[h] = s /\ call' = [call EXCEPT ![h] = c]
      /\ call'[h] = c /\ row' = row /\ data' = data /\ existing' = existing
      /\ UNCHANGED <<roleHistory, entitled>>
  BY DEF Receive, Goto, Stages, IInv, Shape
<1>2. s = "write" => ~Updates(c) /\ c.op \notin MemberOps
  BY DEF Updates, MemberOps
<1>3. HandlerKept(h)'
  BY <1>1, <1>2 DEF HandlerKept, CallKept, DataKept, CopyKept, Prepared, HoldsTeam
<1>4. /\ DOMAIN call' = Handlers /\ DOMAIN data' = Handlers /\ DOMAIN existing' = Handlers
      /\ \A g \in Handlers \ {h} : call'[g] = call[g]
  BY <1>1 DEF IInv, Shape
<1> HIDE DEF s
<1> QED  BY <1>1, <1>3, <1>4, OwnStep

LEMMA CreateStep ==
    ASSUME IInv, NEW h \in Handlers, CreateProject(h)
    PROVE  IInv'
<1>1. /\ Goto(h, "matrix") /\ stage'[h] = "matrix" /\ row' = row
      /\ call' = call /\ data' = data /\ existing' = existing /\ UNCHANGED <<roleHistory, entitled>>
  BY DEF CreateProject, Goto, IInv, Shape
<1>2. HandlerKept(h)'
  BY <1>1 DEF HandlerKept, CallKept, DataKept, CopyKept, Prepared, HoldsTeam
<1>3. DOMAIN call' = Handlers /\ DOMAIN data' = Handlers /\ DOMAIN existing' = Handlers
  BY <1>1 DEF IInv, Shape
<1> QED  BY <1>1, <1>2, <1>3, OwnStep DEF Stages

LEMMA RestartStep == ASSUME IInv, Restart PROVE IInv'
<1>1. RowKept'
  BY DEF Restart, IInv, RowKept, RolesAsGiven
<1>2. Shape'
  BY DEF Restart, Shape, Stages
<1>3. \A h \in Handlers : HandlerKept(h)'
  BY DEF Restart, HandlerKept, CallKept, DataKept, CopyKept, Prepared, HoldsTeam
<1> QED  BY <1>1, <1>2, <1>3 DEF IInv

\* A step that leaves the requests, the team and the accounts of it.
LEMMA QuietStep ==
    ASSUME IInv, UNCHANGED <<row, reqVars, entitled, roleHistory>>
    PROVE  IInv'
<1>1. Shape' /\ RowKept'
  BY DEF reqVars, roleHistory, IInv, Shape, RowKept, RolesAsGiven
<1>2. \A g \in Handlers : HandlerKept(g)'
  BY OtherHandlers DEF reqVars, roleHistory
<1> QED  BY <1>1, <1>2 DEF IInv

LEMMA NextIInv == IInv /\ [Next]_vars => IInv'
<1> SUFFICES ASSUME IInv, [Next]_vars PROVE IInv'
  OBVIOUS
<1>1. ASSUME NEW h \in Handlers, CreateProject(h) PROVE IInv'
  BY <1>1, CreateStep
<1>2. ASSUME NEW h \in Handlers, NEW c \in Requests, Receive(h, c) PROVE IInv'
  BY <1>2, ReceiveStep
<1>3. ASSUME NEW h \in Handlers, Step(h) PROVE IInv'
  <2>1. CASE CheckAccess(h)
    BY <2>1, CheckAccessStep
  <2>2. CASE ReadProject(h)
    BY <2>2, ReadProjectStep
  <2>3. CASE ReadExisting(h)
    BY <2>3, ReadExistingStep
  <2>4. CASE WriteRow(h)
    BY <2>4, WriteRowStep
  <2>5. CASE InitComplianceMatrix(h) \/ ArchiveProject(h) \/ DeleteProject(h) \/ InsertChild(h) \/ EraseChild(h)
    BY <2>5, FinishQuietly DEF InitComplianceMatrix, ArchiveProject, DeleteProject, InsertChild, EraseChild
  <2>6. CASE UpdateCaseDetails(h)
    <3>1. row'["team"] = row["team"]
      BY <2>6 DEF UpdateCaseDetails
    <3> QED  BY <2>6, <3>1, FinishQuietly DEF UpdateCaseDetails
  <2> QED  BY <1>3, <2>1, <2>2, <2>3, <2>4, <2>5, <2>6 DEF Step
<1>4. CASE Restart
  BY <1>4, RestartStep
<1>5. CASE UNCHANGED vars
  BY <1>5, QuietStep DEF vars
<1> QED  BY <1>1, <1>2, <1>3, <1>4, <1>5 DEF Next

\* A member has the role, or none, that the last request of someone who may manage
\* members gave, but for an editor's PATCH of the team and for roles written back from
\* a copy of the team read before another's change.
THEOREM RolesGiven == Spec => []RolesAsGiven
<1>1. IInv => RolesAsGiven
  BY DEF IInv, RowKept
<1> QED  BY <1>1, InitIInv, NextIInv, PTL DEF Spec

-----------------------------------------------------------------------------
(***************************************************************************)
(* What a deletion leaves behind.                                          *)
(***************************************************************************)

\* The tables with rows are tables, and once the project is gone they hold late
\* rows only, but for the comments.
Clean ==
    /\ filled \subseteq Tables
    /\ born /\ ~there => filled \subseteq late \cup {"comments"}

\* What is inserted and not late was inserted while the project was there.
LEMMA FillClean ==
    ASSUME Clean, NEW t \in Tables, Fill(t), born' = born, there' = there
    PROVE  Clean'
BY DEF Clean, Fill

LEMMA SameTables ==
    ASSUME Clean, UNCHANGED <<born, there, filled, late>>
    PROVE  Clean'
BY DEF Clean

LEMMA StepClean ==
    ASSUME IInv, Clean, NEW h \in Handlers, CreateProject(h) \/ Step(h)
    PROVE  Clean'
<1>1. CASE CreateProject(h)
  BY <1>1 DEF CreateProject, Clean
<1>2. CASE InitComplianceMatrix(h)
  <2>1. born' = born /\ there' = there
    BY <1>2 DEF InitComplianceMatrix
  <2>2. CASE Fill("compliance")
    BY <2>1, <2>2, FillClean DEF Tables, Cascaded
  <2>3. CASE UNCHANGED <<filled, late>>
    BY <2>1, <2>3, SameTables
  <2> QED  BY <1>2, <2>2, <2>3 DEF InitComplianceMatrix
<1>3. CASE CheckAccess(h) \/ ReadProject(h) \/ ReadExisting(h) \/ WriteRow(h)
           \/ ArchiveProject(h) \/ UpdateCaseDetails(h)
  BY <1>3, SameTables DEF CheckAccess, ReadProject, ReadExisting, WriteRow,
     ArchiveProject, UpdateCaseDetails
<1>4. CASE DeleteProject(h)
  <2>1. filled \ Cascaded \subseteq {"comments"}
    BY DEF Clean, Tables
  <2> QED  BY <1>4, <2>1 DEF DeleteProject, Clean, Tables
<1>5. CASE InsertChild(h)
  <2>1. call[h] \in Requests /\ call[h].op = "insert"
    BY <1>5 DEF InsertChild, IInv, HandlerKept, CallKept
  <2>2. call[h].table \in Tables
    BY <2>1, InsertedType DEF Requests
  <2> QED  BY <1>5, <2>2, FillClean DEF InsertChild
<1>6. CASE EraseChild(h)
  BY <1>6 DEF EraseChild, Clean
<1> QED  BY <1>1, <1>2, <1>3, <1>4, <1>5, <1>6 DEF Step

LEMMA NextClean == IInv /\ Clean /\ [Next]_vars => Clean'
<1> SUFFICES ASSUME IInv, Clean, [Next]_vars PROVE Clean'
  OBVIOUS
<1>1. ASSUME NEW h \in Handlers, CreateProject(h) \/ Step(h) PROVE Clean'
  BY <1>1, StepClean
<1>2. ASSUME NEW h \in Handlers, NEW c \in Requests, Receive(h, c) PROVE Clean'
  BY <1>2, SameTables DEF Receive
<1>3. CASE Restart \/ UNCHANGED vars
  BY <1>3, SameTables DEF Restart, vars
<1> QED  BY <1>1, <1>2, <1>3 DEF Next

LEMMA InitClean == Init => Clean
BY DEF Init, Clean

\* Deleting a project leaves no row of it in the five tables that it deletes from,
\* but for requests past their check that inserted afterwards.
THEOREM DeletionClean == Spec => []DeleteIsClean
<1>1. Clean => DeleteIsClean
  BY DEF Clean, DeleteIsClean
<1> QED  BY <1>1, InitIInv, NextIInv, InitClean, NextClean, PTL DEF Spec

-----------------------------------------------------------------------------
(***************************************************************************)
(* The same with the requests of ProjectRecords: each of its steps is one  *)
(* of ProjectStore's, or changes nothing of it but the count of requests.  *)
(***************************************************************************)
LEMMA WorkspaceStep == [WorkspaceNext]_allVars => [Next]_vars \/ UNCHANGED others
<1> SUFFICES ASSUME [WorkspaceNext]_allVars PROVE [Next]_vars \/ UNCHANGED others
  OBVIOUS
<1>1. ASSUME NEW h \in Handlers, StoreStep(h) PROVE Next
  <2>1. CreateProject(h) \/ Step(h)
    BY <1>1 DEF StoreStep, Unrecorded, Step
  <2> QED  BY <2>1 DEF Next
<1>2. ASSUME NEW h \in Handlers, CreateConclusion(h) \/ DeleteConclusion(h) PROVE Next
  <2>1. Step(h)
    BY <1>2 DEF CreateConclusion, DeleteConclusion, Step
  <2> QED  BY <2>1 DEF Next
<1>3. ASSUME NEW h \in Handlers,
             LookUp(h) \/ UpdateCompliance(h) \/ WalkOn(h) \/ WalkFails(h)
             \/ RefuseLink(h) \/ WriteLinks(h)
      PROVE  UNCHANGED vars
  BY <1>3 DEF LookUp, UpdateCompliance, WalkOn, WalkFails, RefuseLink, WriteLinks
<1>4. ASSUME NEW h \in Handlers, NEW c \in Requests, StoreReceive(h, c) PROVE Next
  BY <1>4 DEF StoreReceive, Next
<1>5. ASSUME NEW h \in Handlers, NEW c \in Clauses, NEW s \in Statuses, AskCompliance(h, c, s)
      PROVE  UNCHANGED others
  BY <1>5 DEF AskCompliance
<1>6. ASSUME NEW h \in Handlers, NEW n \in Notes, NEW l \in Links, ReadLinks(h, n, l)
      PROVE  UNCHANGED others
  BY <1>6 DEF ReadLinks
<1>7. ASSUME RestartAll PROVE [Next]_vars
  BY <1>7 DEF RestartAll, Next
<1>8. CASE UNCHANGED allVars
  BY <1>8 DEF allVars
<1> QED  BY <1>1, <1>2, <1>3, <1>4, <1>5, <1>6, <1>7, <1>8 DEF WorkspaceNext

LEMMA WorkspaceInvariant == IInv /\ Clean /\ [WorkspaceNext]_allVars => IInv' /\ Clean'
<1> SUFFICES ASSUME IInv, Clean, [WorkspaceNext]_allVars PROVE IInv' /\ Clean'
  OBVIOUS
<1>1. CASE [Next]_vars
  BY <1>1, NextIInv, NextClean
<1>2. CASE UNCHANGED others
  BY <1>2, QuietStep, SameTables DEF others
<1> QED  BY <1>1, <1>2, WorkspaceStep

\* Both hold of the workspace as a whole, with conclusions, their links and the
\* compliance matrix.
THEOREM WorkspaceSafe == WorkspaceSpec => [](RolesAsGiven /\ DeleteIsClean)
<1>1. IInv /\ Clean => RolesAsGiven /\ DeleteIsClean
  BY DEF IInv, RowKept, Clean, DeleteIsClean
<1>2. WorkspaceInit => IInv /\ Clean
  BY InitIInv, InitClean DEF WorkspaceInit
<1> QED  BY <1>1, <1>2, WorkspaceInvariant, PTL DEF WorkspaceSpec

-----------------------------------------------------------------------------
(***************************************************************************)
(* Conclusions and their links.  A request holds the list that it read, to *)
(* which it has added its own link; what others write meanwhile, it has    *)
(* missed.  An id is not given out twice.                                  *)
(***************************************************************************)
Conclusions == [here : BOOLEAN, cites : SUBSET Clauses, links : Seq(Links)]
LinkJobs == [op : {"link"}, from : Notes, list : Seq(Links), walks : SUBSET Walks,
             failed : BOOLEAN, missed : SUBSET Links]
Jobs == [op : {"cite", "rollback"}, cites : SUBSET Clauses]
        \cup [op : {"verify"}, clause : Clauses, status : Statuses]
        \cup LinkJobs

RecordsTyped ==
    /\ conclusions \in [Notes -> Conclusions \cup {None}]
    /\ made \subseteq Notes
    /\ job \in [Handlers -> Jobs \cup {None}]

Listed(j) == {j.list[i] : i \in DOMAIN j.list}
Latest(j) == j.list[Len(j.list)]

\* The check of a link to a project that the list has one to ends with a refusal:
\* the call that will see it is to come, or the one that it leads to is.
Refused(j) ==
    (\E r \in Refs(j.from) : r.project = Latest(j).project) =>
        \E w \in j.walks : w = Start(Latest(j), j.from) \/ Circular(w)

\* Of a request that holds a list.
JobKept(j) ==
    /\ j.from \in made /\ Len(j.list) > 0
    /\ There(j.from) =>
         /\ \A i \in DOMAIN j.list : i = Len(j.list) \/ j.list[i] \in Answers(j.from)
         /\ \A l \in Answers(j.from) : <<j.from, l>> \in overwritten \/ l \in j.missed \/ l \in Listed(j)
         /\ j.missed = {} => /\ j.list = Append(LinkList(j.from), Latest(j))
                             /\ j.failed \/ Refused(j)

\* Of a conclusion: it was made, and so was what was ever linked from.
NoteKept(n) ==
    /\ There(n) => n \in made
    /\ \A l \in Links : <<n, l>> \in linked => n \in made

\* LinksKept, of one conclusion.
OneEach(s) == \A i, j \in DOMAIN s : s[i].project = s[j].project => i = j
ListKept(n) ==
    There(n) => /\ Refs(n) = {l \in Answers(n) : <<n, l>> \notin overwritten}
                /\ n \notin unchecked => OneEach(LinkList(n))

LinksInv ==
    /\ RecordsTyped
    /\ \A n \in Notes : NoteKept(n) /\ ListKept(n)
    /\ \A h \in Handlers : Linking(h) => JobKept(job[h])

LEMMA LinksInit == WorkspaceInit => LinksInv
<1> SUFFICES ASSUME WorkspaceInit PROVE LinksInv
  OBVIOUS
<1>1. RecordsTyped
  BY RecordsAssumption DEF WorkspaceInit, RecordsTyped, Conclusions
<1>2. ASSUME NEW n \in Notes PROVE NoteKept(n) /\ ListKept(n)
  <2>1. There(n) => n \in made /\ LinkList(n) = <<>>
    BY DEF WorkspaceInit, There, LinkList
  <2> QED  BY <2>1 DEF WorkspaceInit, NoteKept, ListKept, Refs, Answers, OneEach
<1>3. \A h \in Handlers : ~Linking(h)
  BY DEF WorkspaceInit, Linking
<1> QED  BY <1>1, <1>2, <1>3 DEF LinksInv

\* What is as before of conclusion n, or gone with it.
SameLinks(n) ==
    /\ conclusions'[n] \in {conclusions[n], None}
    /\ \A l \in Links : <<n, l>> \in linked' <=> <<n, l>> \in linked
    /\ \A l \in Links : <<n, l>> \in overwritten' <=> <<n, l>> \in overwritten
    /\ n \in unchecked => n \in unchecked'

LEMMA SameNote ==
    ASSUME LinksInv, NEW n \in Notes, made \subseteq made', SameLinks(n)
    PROVE  NoteKept(n)' /\ ListKept(n)'
<1>1. There(n)' => There(n) /\ LinkList(n)' = LinkList(n) /\ Refs(n)' = Refs(n)
  BY DEF There, LinkList, Refs, SameLinks
<1>2. NoteKept(n) /\ ListKept(n)
  BY DEF LinksInv
<1>3. Answers(n)' = Answers(n)
  BY DEF Answers, SameLinks
<1>4. NoteKept(n)'
  BY <1>1, <1>2 DEF NoteKept, SameLinks
<1>5. \A l \in Answers(n) : <<n, l>> \notin overwritten' <=> <<n, l>> \notin overwritten
  BY DEF Answers, SameLinks
<1>6. ListKept(n)'
  BY <1>1, <1>2, <1>3, <1>5 DEF ListKept, OneEach, SameLinks
<1> QED  BY <1>4, <1>6

LEMMA SameJob ==
    ASSUME NEW j, JobKept(j), made \subseteq made', SameLinks(j.from)
    PROVE  JobKept(j)'
<1>1. There(j.from)' => There(j.from) /\ LinkList(j.from)' = LinkList(j.from) /\ Refs(j.from)' = Refs(j.from)
  BY DEF There, LinkList, Refs, SameLinks
<1>2. Answers(j.from)' = Answers(j.from)
  BY DEF Answers, SameLinks
<1>3. \A l \in Answers(j.from) : <<j.from, l>> \in overwritten' <=> <<j.from, l>> \in overwritten
  BY DEF Answers, SameLinks
<1>4. Refs(j.from)' = Refs(j.from) => (Refused(j)' <=> Refused(j))
  BY DEF Refused, Latest, Start, Circular
<1>5. JobKept(j)'
  BY <1>1, <1>2, <1>3, <1>4 DEF JobKept, Listed, Latest
<1> QED  BY <1>5

\* A step that answers no link: a request that still holds a list is as it was, or
\* further in its check.
LEMMA Unlinked ==
    ASSUME LinksInv, RecordsTyped', made \subseteq made', UNCHANGED linkHistory,
           \A n \in Notes : conclusions'[n] \in {conclusions[n], None},
           \A h \in Handlers : Linking(h)' => job'[h] = job[h]
    PROVE  LinksInv'
<1>1. \A n \in Notes : SameLinks(n)
  BY DEF SameLinks, linkHistory
<1>2. \A n \in Notes : NoteKept(n)' /\ ListKept(n)'
  BY <1>1, SameNote
<1>3. ASSUME NEW h \in Handlers, Linking(h)' PROVE JobKept(job[h])'
  <2>0. PICK j : j = job[h]
    OBVIOUS
  <2>1. j = job'[h] /\ Linking(h)
    BY <1>3, <2>0 DEF Linking
  <2>2. JobKept(j) /\ j.from \in Notes
    BY <2>0, <2>1 DEF LinksInv, RecordsTyped, Jobs, LinkJobs, Linking
  <2>3. JobKept(j)'
    BY <1>1, <2>2, SameJob
  <2> QED  BY <2>1, <2>3
<1> QED  BY <1>2, <1>3 DEF LinksInv

\* The calls that a call of the check leads to.
LEMMA BelowWalks ==
    ASSUME RecordsTyped, NEW w \in Walks, ~Circular(w)
    PROVE  Below(w) \subseteq Walks
<1>1. Refs(w.note) \subseteq Links
  <2>1. w.note \in Notes
    BY DEF Walks
  <2>2. LinkList(w.note) \in Seq(Links)
    BY <2>1 DEF RecordsTyped, Conclusions, There, LinkList
  <2> QED  BY <2>2 DEF Refs
<1>2. w.visited \cup {w.project} \in SUBSET Projects /\ w.left - 1 \in 0..Depth
  BY RecordsAssumption DEF Walks, Circular
<1>3. \A r \in Refs(w.note) : r.project \in Projects /\ r.note \in Notes
  BY <1>1 DEF Links
<1> QED  BY <1>2, <1>3 DEF Below, Walks

\* The types of what a step sets.
LEMMA RecordsStep ==
    ASSUME RecordsTyped, [WorkspaceNext]_allVars PROVE RecordsTyped'
<1>1. ASSUME NEW h \in Handlers, NEW j, Continue(h, j), j \in Jobs \cup {None}
      PROVE  job' \in [Handlers -> Jobs \cup {None}]
  BY <1>1 DEF RecordsTyped, Continue
<1>2. ASSUME NEW n \in Notes, There(n)
      PROVE  conclusions[n] \in Conclusions /\ LinkList(n) \in Seq(Links)
  BY <1>2 DEF RecordsTyped, Conclusions, There, LinkList
<1>3. ASSUME NEW h \in Handlers, StoreStep(h) PROVE RecordsTyped'
  <2>1. CASE Emptied /\ UNCHANGED <<made, job>>
    BY <2>1 DEF Emptied, RecordsTyped
  <2>2. CASE UNCHANGED <<conclusions, made, job>>
    BY <2>2 DEF RecordsTyped
  <2> QED  BY <1>3, <2>1, <2>2 DEF StoreStep
<1>4. ASSUME NEW h \in Handlers, CreateConclusion(h) PROVE RecordsTyped'
  <2>1. PICK n \in Notes \ made : \E C \in SUBSET Clauses :
          /\ conclusions' = [conclusions EXCEPT ![n] = [here |-> TRUE, cites |-> C, links |-> <<>>]]
          /\ made' = made \cup {n}
          /\ Continue(h, IF C = {} THEN None ELSE [op |-> "cite", cites |-> C])
    BY <1>4 DEF CreateConclusion
  <2>2. PICK C \in SUBSET Clauses :
          /\ conclusions' = [conclusions EXCEPT ![n] = [here |-> TRUE, cites |-> C, links |-> <<>>]]
          /\ made' = made \cup {n}
          /\ Continue(h, IF C = {} THEN None ELSE [op |-> "cite", cites |-> C])
    BY <2>1
  <2>3. job' \in [Handlers -> Jobs \cup {None}]
    BY <1>1, <2>2 DEF Jobs
  <2>4. conclusions' \in [Notes -> Conclusions \cup {None}]
    BY <2>2 DEF RecordsTyped, Conclusions
  <2> QED  BY <2>2, <2>3, <2>4 DEF RecordsTyped
<1>5. ASSUME NEW h \in Handlers, DeleteConclusion(h) PROVE RecordsTyped'
  <2>1. CASE UNCHANGED <<conclusions, job>>
    BY <1>5, <2>1 DEF DeleteConclusion, RecordsTyped
  <2>2. ASSUME NEW n \in InProject,
               conclusions' = [conclusions EXCEPT ![n] = None],
               Continue(h, IF conclusions[n].cites = {} THEN None
                           ELSE [op |-> "rollback", cites |-> conclusions[n].cites])
        PROVE  RecordsTyped'
    <3>1. conclusions[n].cites \in SUBSET Clauses
      BY <1>2 DEF InProject, Conclusions
    <3>2. job' \in [Handlers -> Jobs \cup {None}]
      BY <1>1, <2>2, <3>1 DEF Jobs
    <3> QED  BY <1>5, <2>2, <3>2 DEF RecordsTyped, DeleteConclusion
  <2> QED  BY <1>5, <2>1, <2>2 DEF DeleteConclusion
<1>6. ASSUME NEW h \in Handlers, LookUp(h) PROVE RecordsTyped'
  <2>1. job[h] \in [op : {"cite", "rollback"}, cites : SUBSET Clauses]
    BY <1>6 DEF LookUp, RecordsTyped, Jobs, LinkJobs
  <2>2. \A c \in job[h].cites : [job[h] EXCEPT !.cites = @ \ {c}] \in Jobs
    BY <2>1 DEF Jobs
  <2>3. job' \in [Handlers -> Jobs \cup {None}]
    BY <1>1, <1>6, <2>2 DEF LookUp, End
  <2> QED  BY <1>6, <2>3 DEF LookUp, records, RecordsTyped
<1>7. ASSUME NEW h \in Handlers, UpdateCompliance(h) \/ RefuseLink(h) PROVE RecordsTyped'
  <2>1. job' \in [Handlers -> Jobs \cup {None}]
    BY <1>1, <1>7 DEF UpdateCompliance, RefuseLink, End
  <2> QED  BY <1>7, <2>1 DEF UpdateCompliance, RefuseLink, records, RecordsTyped
<1>14. ASSUME NEW h \in Handlers, Linking(h) PROVE job[h] \in LinkJobs
  BY <1>14 DEF Linking, RecordsTyped, Jobs, LinkJobs
<1>15. ASSUME NEW h \in Handlers, WalkOn(h) \/ WalkFails(h) PROVE RecordsTyped'
  <2>0. PICK j : j = job[h]
    OBVIOUS
  <2>1. j \in LinkJobs
    BY <1>14, <1>15, <2>0 DEF WalkOn, WalkFails
  <2>2. ASSUME NEW w \in j.walks, ~Circular(w) PROVE Below(w) \subseteq Walks
    BY <1>2, <2>1, <2>2, BelowWalks DEF LinkJobs, RecordsTyped
  <2>3. ASSUME NEW w \in j.walks, ~Circular(w)
        PROVE  /\ [j EXCEPT !.walks = (@ \ {w}) \cup Below(w)] \in Jobs
               /\ [j EXCEPT !.walks = @ \ {w}, !.failed = @ \/ w.visited = {}] \in Jobs
    <3>1. (j.walks \ {w}) \cup Below(w) \in SUBSET Walks /\ j.walks \ {w} \in SUBSET Walks
      BY <2>1, <2>2, <2>3 DEF LinkJobs
    <3>2. (j.failed \/ w.visited = {}) \in BOOLEAN
      OBVIOUS
    <3>3. [j EXCEPT !.walks = (@ \ {w}) \cup Below(w)] \in LinkJobs
      BY <2>1, <3>1 DEF LinkJobs
    <3>4. [j EXCEPT !.walks = @ \ {w}, !.failed = @ \/ w.visited = {}] \in LinkJobs
      BY <2>1, <3>1, <3>2 DEF LinkJobs
    <3> QED  BY <3>3, <3>4 DEF Jobs
  <2>4. job' \in [Handlers -> Jobs \cup {None}]
    BY <1>1, <1>15, <2>0, <2>3 DEF WalkOn, WalkFails
  <2> QED  BY <1>15, <2>4 DEF WalkOn, WalkFails, records, RecordsTyped
<1>8. ASSUME NEW h \in Handlers, WriteLinks(h) PROVE RecordsTyped'
  <2>0. PICK n, L : n = job[h].from /\ L = job[h].list
    OBVIOUS
  <2>1. n \in Notes /\ L \in Seq(Links)
    BY <1>8, <1>14, <2>0 DEF WriteLinks, LinkJobs
  <2>2. CASE ~There(n)
    <3>1. End(h) /\ UNCHANGED <<conclusions, made>>
      BY <1>8, <2>0, <2>2 DEF WriteLinks
    <3>2. job' \in [Handlers -> Jobs \cup {None}]
      BY <1>1, <3>1 DEF End
    <3> QED  BY <3>1, <3>2 DEF RecordsTyped
  <2>3. CASE There(n)
    <3> DEFINE written == {L[i] : i \in DOMAIN L}
    <3>1. /\ conclusions' = [conclusions EXCEPT ![n].links = L] /\ made' = made
          /\ job' = [Missing(n, written) EXCEPT ![h] = None]
      BY <1>8, <2>0, <2>3 DEF WriteLinks
    <3>2. written \subseteq Links
      BY <2>1
    <3> HIDE DEF written
    <3>3. ASSUME NEW g \in Handlers PROVE Missing(n, written)[g] \in Jobs \cup {None}
      <4>1. CASE Linking(g) /\ job[g].from = n
        <5>1. job[g] \in LinkJobs
          BY <1>14, <4>1
        <5>2. job[g].missed \cup written \in SUBSET Links
          BY <3>2, <5>1 DEF LinkJobs
        <5>3. [job[g] EXCEPT !.missed = @ \cup written] \in LinkJobs
          BY <5>1, <5>2 DEF LinkJobs
        <5> QED  BY <4>1, <5>3 DEF Missing, Jobs
      <4>2. CASE ~(Linking(g) /\ job[g].from = n)
        BY <4>2 DEF Missing, RecordsTyped
      <4> QED  BY <4>1, <4>2
    <3>4. job' \in [Handlers -> Jobs \cup {None}]
      BY <3>1, <3>3 DEF Missing
    <3>5. conclusions' \in [Notes -> Conclusions \cup {None}]
      <4>1. conclusions[n] \in Conclusions
        BY <1>2, <2>1, <2>3
      <4>2. [conclusions[n] EXCEPT !.links = L] \in Conclusions
        BY <2>1, <4>1 DEF Conclusions
      <4> QED  BY <2>1, <3>1, <4>2 DEF RecordsTyped
    <3> QED  BY <3>1, <3>4, <3>5 DEF RecordsTyped
  <2> QED  BY <2>2, <2>3
<1>9. ASSUME NEW h \in Handlers, NEW c \in Requests, StoreReceive(h, c) PROVE RecordsTyped'
  BY <1>9 DEF StoreReceive, recVars, records, RecordsTyped
<1>10. ASSUME NEW h \in Handlers, NEW c \in Clauses, NEW s \in Statuses, AskCompliance(h, c, s)
       PROVE  RecordsTyped'
  <2>1. job' \in [Handlers -> Jobs \cup {None}]
    BY <1>1, <1>10 DEF AskCompliance, Jobs
  <2> QED  BY <1>10, <2>1 DEF AskCompliance, records, RecordsTyped
<1>11. ASSUME NEW h \in Handlers, NEW n \in Notes, NEW l \in Links, ReadLinks(h, n, l)
       PROVE  RecordsTyped'
  <2>1. Append(LinkList(n), l) \in Seq(Links)
    BY <1>2, <1>11 DEF ReadLinks
  <2>2. Start(l, n) \in Walks
    BY RecordsAssumption DEF Start, Walks, Links
  <2>3. [op |-> "link", from |-> n, list |-> Append(LinkList(n), l),
         walks |-> {Start(l, n)}, failed |-> FALSE, missed |-> {}] \in LinkJobs
    BY <2>1, <2>2 DEF LinkJobs
  <2>4. job' \in [Handlers -> Jobs \cup {None}]
    BY <1>1, <1>11, <2>3 DEF ReadLinks, Jobs
  <2> QED  BY <1>11, <2>4 DEF ReadLinks, records, RecordsTyped
<1>12. CASE RestartAll
  BY <1>12 DEF RestartAll, records, RecordsTyped
<1>13. CASE UNCHANGED allVars
  BY <1>13 DEF allVars, recVars, records, RecordsTyped
<1> QED  BY <1>3, <1>4, <1>5, <1>6, <1>7, <1>8, <1>9, <1>10, <1>11, <1>12, <1>13, <1>15 DEF WorkspaceNext

\* A new conclusion has an id that no request holds and no answer names.
LEMMA CreateKeeps ==
    ASSUME LinksInv, RecordsTyped', NEW h \in Handlers, CreateConclusion(h)
    PROVE  LinksInv'
<1>1. PICK n \in Notes \ made : \E C \in SUBSET Clauses :
        /\ conclusions' = [conclusions EXCEPT ![n] = [here |-> TRUE, cites |-> C, links |-> <<>>]]
        /\ made' = made \cup {n}
        /\ Continue(h, IF C = {} THEN None ELSE [op |-> "cite", cites |-> C])
  BY DEF CreateConclusion
<1>2. PICK C \in SUBSET Clauses :
        /\ conclusions' = [conclusions EXCEPT ![n] = [here |-> TRUE, cites |-> C, links |-> <<>>]]
        /\ made' = made \cup {n}
        /\ Continue(h, IF C = {} THEN None ELSE [op |-> "cite", cites |-> C])
  BY <1>1
<1>3. UNCHANGED linkHistory /\ made \subseteq made' /\ n \in made'
  BY <1>2 DEF CreateConclusion
<1>4. \A g \in Handlers : Linking(g)' => job'[g] = job[g]
  BY <1>2 DEF Continue, Linking, LinksInv, RecordsTyped
<1>5. \A m \in Notes : m # n => SameLinks(m)
  BY <1>2, <1>3 DEF LinksInv, RecordsTyped, SameLinks, linkHistory
<1>6. ASSUME NEW m \in Notes PROVE NoteKept(m)' /\ ListKept(m)'
  <2>1. CASE m # n
    BY <1>3, <1>5, <2>1, SameNote
  <2>2. CASE m = n
    <3>1. conclusions'[n].links = <<>>
      BY <1>2 DEF LinksInv, RecordsTyped
    <3>2. There(n)' => LinkList(n)' = <<>> /\ Refs(n)' = {}
      BY <3>1 DEF There, LinkList, Refs
    <3>3. Answers(n)' = {}
      <4>1. \A l \in Links : <<n, l>> \notin linked
        BY DEF LinksInv, NoteKept
      <4> QED  BY <1>3, <4>1 DEF Answers, linkHistory
    <3>4. NoteKept(n)'
      BY <1>3, <3>3 DEF NoteKept, Answers
    <3>5. ListKept(n)'
      BY <3>2, <3>3 DEF ListKept, OneEach
    <3> QED  BY <2>2, <3>4, <3>5
  <2> QED  BY <2>1, <2>2
<1>7. ASSUME NEW g \in Handlers, Linking(g)' PROVE JobKept(job[g])'
  <2>0. PICK j : j = job[g]
    OBVIOUS
  <2>1. j = job'[g] /\ Linking(g)
    BY <1>4, <1>7, <2>0 DEF Linking
  <2>2. JobKept(j) /\ j.from \in Notes
    BY <2>0, <2>1 DEF LinksInv, RecordsTyped, Jobs, LinkJobs, Linking
  <2>3. j.from # n
    BY <2>2 DEF JobKept
  <2>4. JobKept(j)'
    BY <1>3, <1>5, <2>2, <2>3, SameJob
  <2> QED  BY <2>1, <2>4
<1> QED  BY <1>6, <1>7 DEF LinksInv

\* A list and one link more.
LEMMA Appended ==
    ASSUME NEW s \in Seq(Links), NEW l \in Links
    PROVE  LET t == Append(s, l)
           IN  /\ Len(t) = Len(s) + 1 /\ t[Len(t)] = l /\ DOMAIN t = 1..Len(s) + 1
               /\ \A i \in DOMAIN s : i \in DOMAIN t /\ t[i] = s[i]
               /\ {t[i] : i \in DOMAIN t} = {s[i] : i \in DOMAIN s} \cup {l}
<1> DEFINE t == Append(s, l)
<1>1. /\ DOMAIN s = 1..Len(s) /\ DOMAIN t = 1..Len(s) + 1 /\ t[Len(s) + 1] = l
      /\ Len(s) \in Nat /\ Len(t) = Len(s) + 1 /\ \A i \in DOMAIN s : t[i] = s[i]
  OBVIOUS
<1> HIDE DEF t
<1>2. \A i \in DOMAIN t : i \in DOMAIN s \/ i = Len(s) + 1
  BY <1>1
<1>3. DOMAIN s \subseteq DOMAIN t /\ Len(s) + 1 \in DOMAIN t
  BY <1>1
<1>4. {t[i] : i \in DOMAIN t} = {s[i] : i \in DOMAIN s} \cup {l}
  BY <1>1, <1>2, <1>3
<1>5. QED
  BY <1>1, <1>3, <1>4 DEF t

\* A request that comes takes the list as it is, and its check is yet to begin.
LEMMA ReadKeeps ==
    ASSUME LinksInv, RecordsTyped', NEW h \in Handlers, NEW n \in Notes, NEW l \in Links,
           ReadLinks(h, n, l)
    PROVE  LinksInv'
<1>0. PICK j : j = [op |-> "link", from |-> n, list |-> Append(LinkList(n), l),
                    walks |-> {Start(l, n)}, failed |-> FALSE, missed |-> {}]
  OBVIOUS
<1>1. There(n) /\ n \in made /\ LinkList(n) \in Seq(Links)
  BY DEF ReadLinks, LinksInv, NoteKept, There, LinkList, RecordsTyped, Conclusions
<1>2. /\ job'[h] = j /\ conclusions' = conclusions /\ made' = made /\ UNCHANGED linkHistory
      /\ \A g \in Handlers : g # h => job'[g] = job[g]
  BY <1>0 DEF ReadLinks, Continue, records, LinksInv, RecordsTyped
<1>3. \A m \in Notes : SameLinks(m)
  BY <1>2 DEF SameLinks, linkHistory
<1>4. \A m \in Notes : NoteKept(m)' /\ ListKept(m)'
  BY <1>2, <1>3, SameNote
<1>5. JobKept(j)
  <2>1. /\ j.from = n /\ j.list = Append(LinkList(n), l) /\ j.walks = {Start(l, n)} /\ j.missed = {}
    BY <1>0
  <2>2. /\ Len(j.list) > 0 /\ Latest(j) = l
        /\ \A i \in DOMAIN j.list : i = Len(j.list) \/ (i \in DOMAIN LinkList(n) /\ j.list[i] = LinkList(n)[i])
        /\ Listed(j) = Refs(n) \cup {l}
    <3>1. DOMAIN LinkList(n) = 1..Len(LinkList(n)) /\ Len(LinkList(n)) \in Nat
      BY <1>1
    <3> QED  BY <1>1, <2>1, <3>1, Appended DEF Latest, Listed, Refs
  <2>3. Refs(n) = {k \in Answers(n) : <<n, k>> \notin overwritten}
    BY <1>1 DEF LinksInv, ListKept
  <2>4. \A i \in DOMAIN j.list : i = Len(j.list) \/ j.list[i] \in Answers(n)
    BY <2>2, <2>3 DEF Refs
  <2>5. \A k \in Answers(n) : <<n, k>> \in overwritten \/ k \in Listed(j)
    BY <2>2, <2>3
  <2>6. Refused(j)
    BY <2>1, <2>2 DEF Refused
  <2> QED  BY <1>1, <2>1, <2>2, <2>4, <2>5, <2>6 DEF JobKept
<1>6. ASSUME NEW g \in Handlers, Linking(g)' PROVE JobKept(job[g])'
  <2>0. PICK i : i = job'[g]
    OBVIOUS
  <2>1. JobKept(i) /\ i.from \in Notes
    <3>1. CASE g = h
      BY <1>0, <1>2, <1>5, <2>0, <3>1
    <3>2. CASE g # h
      BY <1>2, <1>6, <2>0, <3>2 DEF LinksInv, RecordsTyped, Jobs, LinkJobs, Linking
    <3> QED  BY <3>1, <3>2
  <2>2. JobKept(i)'
    BY <1>2, <1>3, <2>1, SameJob
  <2> QED  BY <2>0, <2>2
<1> QED  BY <1>4, <1>6 DEF LinksInv

\* A call of the check that reads a link back to the project leads to one that is
\* circular, and one that fails is on record.
LEMMA WalkKeeps ==
    ASSUME LinksInv, RecordsTyped', NEW h \in Handlers, WalkOn(h) \/ WalkFails(h)
    PROVE  LinksInv'
<1>0. PICK j : j = job[h]
  OBVIOUS
<1>1. Linking(h) /\ j \in LinkJobs /\ JobKept(j)
  BY <1>0 DEF WalkOn, WalkFails, LinksInv, RecordsTyped, Linking, Jobs, LinkJobs
<1>2. PICK w \in j.walks : /\ ~Circular(w)
                           /\ \/ Continue(h, [j EXCEPT !.walks = (@ \ {w}) \cup Below(w)])
                              \/ Continue(h, [j EXCEPT !.walks = @ \ {w}, !.failed = @ \/ w.visited = {}])
  BY <1>0 DEF WalkOn, WalkFails
<1>3. PICK k : /\ \/ k = [j EXCEPT !.walks = (@ \ {w}) \cup Below(w)]
                  \/ k = [j EXCEPT !.walks = @ \ {w}, !.failed = @ \/ w.visited = {}]
               /\ Continue(h, k)
  BY <1>2
<1>4. /\ k.from = j.from /\ k.list = j.list /\ k.missed = j.missed
      /\ \/ k.walks = (j.walks \ {w}) \cup Below(w) /\ k.failed = j.failed
         \/ k.walks = j.walks \ {w} /\ k.failed = (j.failed \/ w.visited = {})
  BY <1>1, <1>3 DEF LinkJobs
<1>5. /\ job'[h] = k /\ \A g \in Handlers : g # h => job'[g] = job[g]
  BY <1>3 DEF Continue, LinksInv, RecordsTyped
<1>6. conclusions' = conclusions /\ made' = made /\ UNCHANGED linkHistory
  BY DEF WalkOn, WalkFails, records
<1>7. ASSUME Refused(j), ~k.failed PROVE Refused(k)
  <2> SUFFICES ASSUME NEW r \in Refs(j.from), r.project = Latest(j).project
               PROVE  \E v \in k.walks : v = Start(Latest(j), j.from) \/ Circular(v)
    BY <1>4 DEF Refused, Latest
  <2>1. PICK v \in j.walks : v = Start(Latest(j), j.from) \/ Circular(v)
    BY <1>7 DEF Refused
  <2>2. CASE v # w
    BY <1>4, <2>1, <2>2
  <2>3. CASE v = w
    <3>1. w = Start(Latest(j), j.from)
      BY <1>2, <2>1, <2>3
    <3>2. w.visited = {} /\ w.project = Latest(j).project /\ w.note = j.from
      BY <3>1 DEF Start
    <3>3. k.walks = (j.walks \ {w}) \cup Below(w)
      BY <1>4, <1>7, <3>2
    <3> DEFINE v2 == [project |-> r.project, note |-> r.note,
                      visited |-> w.visited \cup {w.project}, left |-> w.left - 1]
    <3>4. v2 \in Below(w)
      BY <3>2 DEF Below
    <3>5. Circular(v2)
      BY <2>1, <3>2 DEF Circular
    <3> QED  BY <3>3, <3>4, <3>5
  <2> QED  BY <2>2, <2>3
<1>8. JobKept(k)
  <2>1. k.failed = FALSE => j.failed = FALSE
    BY <1>1, <1>4 DEF LinkJobs
  <2>2. k.failed \in BOOLEAN
    BY <1>1, <1>4 DEF LinkJobs
  <2> QED  BY <1>1, <1>4, <1>7, <2>1, <2>2 DEF JobKept, Latest, Listed
<1>9. \A m \in Notes : SameLinks(m)
  BY <1>6 DEF SameLinks, linkHistory
<1>10. \A m \in Notes : NoteKept(m)' /\ ListKept(m)'
  BY <1>6, <1>9, SameNote
<1>11. ASSUME NEW g \in Handlers, Linking(g)' PROVE JobKept(job[g])'
  <2>0. PICK i : i = job'[g]
    OBVIOUS
  <2>1. JobKept(i) /\ i.from \in Notes
    <3>1. CASE g = h
      BY <1>1, <1>4, <1>5, <1>8, <2>0, <3>1 DEF LinkJobs
    <3>2. CASE g # h
      BY <1>5, <1>11, <2>0, <3>2 DEF LinksInv, RecordsTyped, Jobs, LinkJobs, Linking
    <3> QED  BY <3>1, <3>2
  <2>2. JobKept(i)'
    BY <1>6, <1>9, <2>1, SameJob
  <2> QED  BY <2>0, <2>2
<1> QED  BY <1>10, <1>11 DEF LinksInv

\* A list with a link more, to a project that it had none to.
LEMMA OneMore ==
    ASSUME NEW s \in Seq(Links), NEW l \in Links, OneEach(s),
           \A i \in DOMAIN s : s[i].project # l.project
    PROVE  OneEach(Append(s, l))
<1>1. PICK t : t = Append(s, l)
  OBVIOUS
<1>2. /\ DOMAIN s = 1..Len(s) /\ Len(s) \in Nat /\ DOMAIN t = 1..Len(s) + 1 /\ t[Len(s) + 1] = l
      /\ \A i \in DOMAIN s : t[i] = s[i]
  BY <1>1
<1>3. \A i \in DOMAIN t : i \in DOMAIN s \/ i = Len(s) + 1
  BY <1>2
<1> QED  BY <1>1, <1>2, <1>3 DEF OneEach

\* The list that is written holds what was answered, but for what was overwritten
\* before or is now, and the others that hold one have missed it.
LEMMA WriteKeeps ==
    ASSUME LinksInv, RecordsTyped', NEW h \in Handlers, WriteLinks(h)
    PROVE  LinksInv'
<1>0. PICK j, n, l : j = job[h] /\ n = job[h].from /\ l = NewLink(h)
  OBVIOUS
<1>1. Linking(h) /\ j \in LinkJobs /\ JobKept(j) /\ j.walks = {} /\ j.from = n
  BY <1>0 DEF WriteLinks, LinksInv, RecordsTyped, Linking, Jobs, LinkJobs
<1>2. n \in Notes /\ j.list \in Seq(Links) /\ n \in made /\ Len(j.list) > 0 /\ Latest(j) = l /\ l \in Links
      /\ l \in Listed(j) /\ Listed(j) \subseteq Links
  <2>1. Len(j.list) > 0 /\ j.list \in Seq(Links) /\ Latest(j) = l /\ n \in Notes /\ n \in made
    BY <1>0, <1>1 DEF JobKept, LinkJobs, NewLink, Latest
  <2>2. Len(j.list) \in DOMAIN j.list
    BY <2>1
  <2>3. \A i \in DOMAIN j.list : j.list[i] \in Links
    BY <2>1
  <2> QED  BY <2>1, <2>2, <2>3 DEF Latest, Listed
<1>3. made' = made /\ linked' = linked \cup {<<n, l>>}
  BY <1>0 DEF WriteLinks
<1>4. \A m \in Notes : m # n => Answers(m)' = Answers(m)
  BY <1>3 DEF Answers
<1>5. Answers(n)' = Answers(n) \cup {l}
  BY <1>2, <1>3 DEF Answers
<1>6. CASE ~There(n)
  <2>1. End(h) /\ UNCHANGED <<conclusions, overwritten, unchecked>>
    BY <1>0, <1>6 DEF WriteLinks
  <2>2. \A g \in Handlers : Linking(g)' => g # h /\ job'[g] = job[g] /\ Linking(g)
    BY <2>1 DEF End, Continue, Linking, LinksInv, RecordsTyped
  <2>3. \A m \in Notes : m # n => SameLinks(m)
    BY <1>3, <2>1 DEF SameLinks
  <2>4. ASSUME NEW m \in Notes PROVE NoteKept(m)' /\ ListKept(m)'
    <3>1. CASE m # n
      BY <1>3, <2>3, <3>1, SameNote
    <3>2. CASE m = n
      <4>1. ~There(n)'
        BY <1>6, <2>1 DEF There
      <4> QED  BY <1>2, <1>3, <3>2, <4>1 DEF NoteKept, ListKept
    <3> QED  BY <3>1, <3>2
  <2>5. ASSUME NEW g \in Handlers, Linking(g)' PROVE JobKept(job[g])'
    <3>0. PICK i : i = job'[g]
      OBVIOUS
    <3>1. JobKept(i) /\ i.from \in Notes
      BY <2>2, <2>5, <3>0 DEF LinksInv, RecordsTyped, Jobs, LinkJobs, Linking
    <3>2. CASE i.from # n
      <4>1. JobKept(i)'
        BY <1>3, <2>3, <3>1, <3>2, SameJob
      <4> QED  BY <3>0, <4>1
    <3>3. CASE i.from = n
      <4>1. ~There(i.from)'
        BY <1>6, <2>1, <3>3 DEF There
      <4>2. JobKept(i)'
        BY <1>3, <3>1, <4>1 DEF JobKept
      <4> QED  BY <3>0, <4>2
    <3> QED  BY <3>2, <3>3
  <2> QED  BY <2>4, <2>5 DEF LinksInv
<1>7. CASE There(n)
  <2>1. /\ conclusions' = [conclusions EXCEPT ![n].links = j.list]
        /\ overwritten' = (overwritten \cup {<<n, k>> : k \in j.missed}) \ {<<n, k>> : k \in Listed(j)}
        /\ unchecked' = IF ~j.failed /\ j.missed = {} THEN unchecked ELSE unchecked \cup {n}
        /\ job' = [Missing(n, Listed(j)) EXCEPT ![h] = None]
    BY <1>0, <1>7 DEF WriteLinks, Listed
  <2>2. \A m \in Notes : m # n => SameLinks(m)
    <3>1. \A m \in Notes : m # n => conclusions'[m] = conclusions[m]
      BY <2>1 DEF LinksInv, RecordsTyped
    <3> QED  BY <1>3, <2>1, <3>1 DEF SameLinks
  <2>3. There(n)' => LinkList(n)' = j.list /\ Refs(n)' = Listed(j)
    <3>1. conclusions[n] \in Conclusions
      BY <1>2, <1>7 DEF There, LinksInv, RecordsTyped
    <3>2. conclusions'[n] = [conclusions[n] EXCEPT !.links = j.list]
      BY <1>2, <2>1 DEF LinksInv, RecordsTyped
    <3>3. conclusions'[n].links = j.list
      BY <3>1, <3>2 DEF Conclusions
    <3> QED  BY <3>3 DEF There, LinkList, Refs, Listed
  <2>4. \A k \in Links : <<n, k>> \in overwritten' <=> k \notin Listed(j) /\ (<<n, k>> \in overwritten \/ k \in j.missed)
    BY <2>1
  <2>5. ListKept(n)'
    <3>1. Listed(j) \subseteq Answers(n)'
      BY <1>1, <1>2, <1>5, <1>7 DEF JobKept, Listed, Latest
    <3>2. ASSUME NEW k \in Answers(n)', <<n, k>> \notin overwritten' PROVE k \in Listed(j)
      <4>1. k \in Links
        BY <1>2 DEF Answers
      <4>2. k = l \/ k \in Answers(n)
        BY <1>5
      <4> QED  BY <1>1, <1>2, <1>7, <2>4, <3>2, <4>1, <4>2 DEF JobKept
    <3>3. Listed(j) = {k \in Answers(n)' : <<n, k>> \notin overwritten'}
      BY <1>2, <2>4, <3>1, <3>2
    <3>4. ASSUME n \notin unchecked' PROVE OneEach(j.list)
      <4>1. ~j.failed /\ j.missed = {} /\ n \notin unchecked
        BY <2>1, <3>4
      <4>2. j.list = Append(LinkList(n), l) /\ Refused(j)
        BY <1>1, <1>2, <1>7, <4>1 DEF JobKept
      <4>3. \A r \in Refs(n) : r.project # l.project
        BY <1>1, <1>2, <4>2 DEF Refused
      <4>4. OneEach(LinkList(n))
        BY <1>2, <1>7, <4>1 DEF LinksInv, ListKept
      <4>5. LinkList(n) \in Seq(Links)
        BY <1>2, <1>7 DEF LinksInv, RecordsTyped, Conclusions, There, LinkList
      <4> QED  BY <1>2, <4>2, <4>3, <4>4, <4>5, OneMore DEF Refs
    <3> QED  BY <2>3, <3>3, <3>4 DEF ListKept, OneEach
  <2>6. ASSUME NEW m \in Notes PROVE NoteKept(m)' /\ ListKept(m)'
    <3>1. CASE m # n
      BY <1>3, <2>2, <3>1, SameNote
    <3>2. CASE m = n
      BY <1>2, <1>3, <2>5, <3>2 DEF NoteKept
    <3> QED  BY <3>1, <3>2
  <2>7. ASSUME NEW g \in Handlers, Linking(g)' PROVE JobKept(job[g])'
    <3>1. g # h /\ job'[g] = Missing(n, Listed(j))[g]
      BY <2>1, <2>7 DEF Linking, Missing
    <3>2. PICK i, k : i = job[g] /\ k = job'[g]
      OBVIOUS
    <3>3. Linking(g) /\ i \in LinkJobs /\ JobKept(i)
      <4>1. Linking(g)
        BY <2>7, <3>1 DEF Linking, Missing
      <4> QED  BY <3>2, <4>1 DEF LinksInv, RecordsTyped, Linking, Jobs, LinkJobs
    <3>4. CASE i.from # n
      <4>1. k = i
        BY <3>1, <3>2, <3>4 DEF Missing
      <4>2. JobKept(i)'
        BY <1>3, <2>2, <3>3, <3>4, SameJob DEF LinkJobs
      <4> QED  BY <3>2, <4>1, <4>2
    <3>5. CASE i.from = n
      <4>1. k = [i EXCEPT !.missed = @ \cup Listed(j)]
        BY <3>1, <3>2, <3>3, <3>5 DEF Missing
      <4>2. k.from = n /\ k.list = i.list /\ k.missed = i.missed \cup Listed(j) /\ k.missed # {}
        BY <1>2, <3>3, <3>5, <4>1 DEF LinkJobs
      <4>3. \A x \in DOMAIN k.list : x = Len(k.list) \/ k.list[x] \in Answers(n)'
        BY <1>5, <1>7, <3>3, <3>5, <4>2 DEF JobKept
      <4>4. ASSUME NEW x \in Answers(n)', <<n, x>> \notin overwritten', x \notin k.missed
            PROVE  x \in Listed(k)
        <5>1. x \in Links /\ x \in Answers(n) /\ x \notin Listed(j)
          BY <1>2, <1>5, <4>2, <4>4 DEF Answers
        <5>2. <<n, x>> \notin overwritten /\ x \notin i.missed
          BY <2>4, <4>2, <4>4, <5>1
        <5> QED  BY <1>7, <3>3, <3>5, <4>2, <5>1, <5>2 DEF JobKept, Listed
      <4>5. k.from \in made' /\ Len(k.list) > 0
        BY <1>3, <3>3, <3>5, <4>2 DEF JobKept
      <4>6. JobKept(k)'
        BY <4>2, <4>3, <4>4, <4>5 DEF JobKept, Listed
      <4> QED  BY <3>2, <4>6
    <3> QED  BY <3>4, <3>5
  <2> QED  BY <2>6, <2>7 DEF LinksInv
<1> QED  BY <1>6, <1>7

\* Any other step answers no link, starts none and changes no list that stays.
LEMMA RestKeeps ==
    ASSUME LinksInv, RecordsTyped', [WorkspaceNext]_allVars,
           ~\E h \in Handlers : CreateConclusion(h) \/ WriteLinks(h) \/ WalkOn(h) \/ WalkFails(h),
           ~\E h \in Handlers, n \in Notes, l \in Links : ReadLinks(h, n, l)
    PROVE  LinksInv'
<1>1. ASSUME NEW h \in Handlers, NEW j, Continue(h, j), j # None => j.op # "link"
      PROVE  \A g \in Handlers : Linking(g)' => job'[g] = job[g]
  <2>1. job'[h] = j /\ \A g \in Handlers : g # h => job'[g] = job[g]
    BY <1>1 DEF Continue, LinksInv, RecordsTyped
  <2> QED  BY <1>1, <2>1 DEF Linking
<1>2. ASSUME NEW h \in Handlers, End(h)
      PROVE  \A g \in Handlers : Linking(g)' => job'[g] = job[g]
  BY <1>1, <1>2 DEF End
<1>3. ASSUME UNCHANGED <<made, linkHistory, conclusions>>,
             \A g \in Handlers : Linking(g)' => job'[g] = job[g]
      PROVE  LinksInv'
  BY <1>3, Unlinked
<1>4. ASSUME NEW h \in Handlers, StoreStep(h) PROVE LinksInv'
  <2>1. \A n \in Notes : conclusions'[n] \in {conclusions[n], None}
    BY <1>4 DEF StoreStep, Emptied
  <2>2. UNCHANGED <<made, job, linkHistory>>
    BY <1>4 DEF StoreStep
  <2> QED  BY <2>1, <2>2, Unlinked
<1>5. ASSUME NEW h \in Handlers, DeleteConclusion(h) PROVE LinksInv'
  <2>1. CASE UNCHANGED <<conclusions, job>>
    BY <1>3, <1>5, <2>1 DEF DeleteConclusion
  <2>2. ASSUME NEW n \in InProject,
               conclusions' = [conclusions EXCEPT ![n] = None],
               Continue(h, IF conclusions[n].cites = {} THEN None
                           ELSE [op |-> "rollback", cites |-> conclusions[n].cites])
        PROVE  LinksInv'
    <3>1. \A m \in Notes : conclusions'[m] \in {conclusions[m], None}
      BY <2>2 DEF LinksInv, RecordsTyped
    <3>2. \A g \in Handlers : Linking(g)' => job'[g] = job[g]
      BY <1>1, <2>2
    <3>3. made' = made /\ UNCHANGED linkHistory
      BY <1>5 DEF DeleteConclusion
    <3> QED  BY <3>1, <3>2, <3>3, Unlinked
  <2> QED  BY <1>5, <2>1, <2>2 DEF DeleteConclusion
<1>6. ASSUME NEW h \in Handlers, LookUp(h) PROVE LinksInv'
  <2>1. job[h] \in [op : {"cite", "rollback"}, cites : SUBSET Clauses]
    BY <1>6 DEF LookUp, LinksInv, RecordsTyped, Jobs, LinkJobs
  <2>2. \A c : [job[h] EXCEPT !.cites = @ \ {c}].op # "link"
    BY <2>1
  <2>3. \A g \in Handlers : Linking(g)' => job'[g] = job[g]
    BY <1>1, <1>2, <1>6, <2>2 DEF LookUp
  <2> QED  BY <1>3, <1>6, <2>3 DEF LookUp, records
<1>7. ASSUME NEW h \in Handlers, UpdateCompliance(h) \/ RefuseLink(h) PROVE LinksInv'
  <2>1. \A g \in Handlers : Linking(g)' => job'[g] = job[g]
    BY <1>2, <1>7 DEF UpdateCompliance, RefuseLink
  <2> QED  BY <1>3, <1>7, <2>1 DEF UpdateCompliance, RefuseLink, records
<1>8. ASSUME NEW h \in Handlers, NEW c \in Requests, StoreReceive(h, c) PROVE LinksInv'
  BY <1>3, <1>8 DEF StoreReceive, recVars, records
<1>9. ASSUME NEW h \in Handlers, NEW c \in Clauses, NEW s \in Statuses, AskCompliance(h, c, s)
      PROVE  LinksInv'
  <2>1. \A g \in Handlers : Linking(g)' => job'[g] = job[g]
    BY <1>1, <1>9 DEF AskCompliance
  <2> QED  BY <1>3, <1>9, <2>1 DEF AskCompliance, records
<1>10. CASE RestartAll
  <2>1. \A g \in Handlers : ~Linking(g)'
    BY <1>10 DEF RestartAll, Linking
  <2> QED  BY <1>3, <1>10, <2>1 DEF RestartAll, records
<1>11. CASE UNCHANGED allVars
  BY <1>3, <1>11 DEF allVars, recVars, records
<1> QED  BY <1>4, <1>5, <1>6, <1>7, <1>8, <1>9, <1>10, <1>11 DEF WorkspaceNext

LEMMA LinksNext == LinksInv /\ [WorkspaceNext]_allVars => LinksInv'
<1> SUFFICES ASSUME LinksInv, [WorkspaceNext]_allVars PROVE LinksInv'
  OBVIOUS
<1>1. RecordsTyped'
  BY RecordsStep DEF LinksInv
<1> QED  BY <1>1, CreateKeeps, WriteKeeps, ReadKeeps, WalkKeeps, RestKeeps

\* A conclusion has the links that were answered "linked" and no other, but for those
\* overwritten by a request that had read the list before, and one at most to any
\* project unless a check failed or looked at another list.
THEOREM LinksAsAnswered == WorkspaceSpec => []LinksKept
<1>1. LinksInv => LinksKept
  BY DEF LinksInv, ListKept, LinksKept, OneEach
<1> QED  BY <1>1, LinksInit, LinksNext, PTL DEF WorkspaceSpec

-----------------------------------------------------------------------------
(***************************************************************************)
(* Requests that come one at a time.  What update_project merged the       *)
(* caller's keys into is then still the row, when it writes it back.       *)
(***************************************************************************)

\* The columns that a handler holds, at any time.
Holding(h) ==
    /\ stage[h] \in {"idle", "access", "read", "matrix"} => data[h] = None
    /\ stage[h] = "write" /\ ~Updates(call[h]) => data[h] = None

Alone ==
    /\ \A g, h \in Handlers : stage[g] # "idle" /\ stage[h] # "idle" => g = h
    /\ \A h \in Handlers : stage[h] = "write" /\ Updates(call[h]) => existing[h] = row

SerialInv ==
    /\ Shape
    /\ \A h \in Handlers : Holding(h)
    /\ overlapped \/ Alone

LEMMA SerialInit == Init => SerialInv
BY DEF Init, SerialInv, Shape, Stages, Holding, Alone

\* A step of one handler, that was alone or on its way to an overlap.
LEMMA HandlerSerial ==
    ASSUME SerialInv, Shape', NEW h \in Handlers,
           \A g \in Handlers \ {h} : UNCHANGED <<stage[g], call[g], data[g], existing[g]>>,
           Holding(h)',
           ~overlapped' => /\ ~overlapped
                           /\ stage[h] # "idle" \/ \A g \in Handlers : stage[g] = "idle",
           stage'[h] = "write" /\ Updates(call'[h]) => existing'[h] = row'
    PROVE  SerialInv'
<1>1. ASSUME NEW g \in Handlers PROVE Holding(g)'
  <2>1. CASE g # h
    <3>1. Holding(g) /\ UNCHANGED <<stage[g], call[g], data[g]>>
      BY <2>1 DEF SerialInv
    <3> QED  BY <3>1 DEF Holding, Updates
  <2> QED  BY <2>1
<1>2. ASSUME ~overlapped' PROVE Alone'
  <2>1. \A g \in Handlers \ {h} : stage[g] = "idle" /\ stage'[g] = "idle"
    BY <1>2 DEF SerialInv, Alone
  <2> QED  BY <2>1 DEF Alone
<1> QED  BY <1>1, <1>2 DEF SerialInv

LEMMA SerialFinish ==
    ASSUME SerialInv, NEW h \in Handlers, Finish(h), stage[h] # "idle", overlapped' = overlapped
    PROVE  SerialInv'
<1>1. /\ stage'[h] = "idle" /\ data'[h] = None /\ Shape'
      /\ \A g \in Handlers \ {h} : UNCHANGED <<stage[g], call[g], data[g], existing[g]>>
  BY DEF Finish, Goto, SerialInv, Shape, Stages
<1>2. Holding(h)'
  BY <1>1 DEF Holding
<1> QED  BY <1>1, <1>2, HandlerSerial DEF SerialInv

LEMMA SerialNext == IInv /\ SerialInv /\ [Next]_vars => SerialInv'
<1> SUFFICES ASSUME IInv, SerialInv, [Next]_vars PROVE SerialInv'
  OBVIOUS
<1>1. IInv' /\ Shape'
  BY NextIInv DEF IInv
<1>2. ASSUME NEW h \in Handlers, CreateProject(h) PROVE SerialInv'
  <2>1. /\ stage'[h] = "matrix" /\ stage[h] = "idle" /\ call' = call /\ data' = data /\ existing' = existing
        /\ \A g \in Handlers \ {h} : stage'[g] = stage[g]
        /\ overlapped' = (overlapped \/ InFlight # {})
    BY <1>2 DEF CreateProject, Goto, Overlap, SerialInv, Shape
  <2>2. Holding(h)'
    BY <2>1 DEF Holding, SerialInv
  <2>3. ~overlapped' => ~overlapped /\ \A g \in Handlers : stage[g] = "idle"
    BY <2>1 DEF InFlight
  <2> QED  BY <1>1, <2>1, <2>2, <2>3, HandlerSerial
<1>3. ASSUME NEW h \in Handlers, NEW c \in Requests, Receive(h, c) PROVE SerialInv'
  <2>1. /\ stage'[h] = IF c.op = "case" THEN "write" ELSE "access"
        /\ stage[h] = "idle" /\ call'[h] = c /\ data' = data /\ existing' = existing
        /\ \A g \in Handlers \ {h} : stage'[g] = stage[g] /\ call'[g] = call[g]
        /\ overlapped' = (overlapped \/ InFlight # {})
    BY <1>3 DEF Receive, Goto, Overlap, SerialInv, Shape
  <2>2. stage'[h] = "write" => ~Updates(c)
    BY <2>1 DEF Updates, MemberOps
  <2>3. data'[h] = None
    BY <2>1 DEF Holding, SerialInv
  <2>4. Holding(h)'
    BY <2>3 DEF Holding
  <2>5. ~overlapped' => ~overlapped /\ \A g \in Handlers : stage[g] = "idle"
    BY <2>1 DEF InFlight
  <2>6. ~Updates(call'[h]) \/ stage'[h] # "write"
    BY <2>1, <2>2
  <2> QED  BY <1>1, <2>1, <2>4, <2>5, <2>6, HandlerSerial
<1>4. ASSUME NEW h \in Handlers, CheckAccess(h) PROVE SerialInv'
  <2>0. stage[h] = "access" /\ overlapped' = overlapped
    BY <1>4 DEF CheckAccess
  <2>1. CASE Finish(h)
    BY <2>0, <2>1, SerialFinish
  <2>2. CASE ~Finish(h)
    <3>0. PICK c : c = call[h]
      OBVIOUS
    <3>1. c \in Requests
      BY <2>0, <3>0 DEF IInv, HandlerKept, CallKept
    <3>2. /\ stage'[h] = Body(c) /\ call' = call /\ existing' = existing
          /\ data'[h] = Patch(c)
          /\ \A g \in Handlers \ {h} : stage'[g] = stage[g] /\ data'[g] = data[g]
      BY <1>4, <2>2, <3>0 DEF CheckAccess, Goto, SerialInv, Shape
    <3>3. Body(c) \in {"read", "write"} => Patch(c) = None /\ (Body(c) = "write" => ~Updates(c))
      <4>1. c.op # "case"
        BY <2>0, <3>0 DEF IInv, HandlerKept, CallKept
      <4> QED  BY <3>1, <4>1, Ops DEF Body, Patch, Updates, MemberOps
    <3>4. Body(c) \in {"read", "reread", "write"}
      <4>1. c.op # "case"
        BY <2>0, <3>0 DEF IInv, HandlerKept, CallKept
      <4> QED  BY <3>1, <4>1, Ops DEF Body, MemberOps
    <3>5. Holding(h)'
      BY <3>0, <3>2, <3>3, <3>4 DEF Holding
    <3>6. stage'[h] = "write" => ~Updates(call'[h])
      BY <3>0, <3>2, <3>3
    <3> QED  BY <1>1, <2>0, <3>2, <3>5, <3>6, HandlerSerial
  <2> QED  BY <2>1, <2>2
<1>5. ASSUME NEW h \in Handlers, ReadProject(h) PROVE SerialInv'
  <2>0. stage[h] = "read" /\ overlapped' = overlapped
    BY <1>5 DEF ReadProject
  <2>1. CASE Finish(h)
    BY <2>0, <2>1, SerialFinish
  <2>2. CASE ~Finish(h)
    <3>1. /\ stage'[h] = "reread" /\ call' = call /\ existing' = existing
          /\ \A g \in Handlers \ {h} : stage'[g] = stage[g] /\ data'[g] = data[g]
      BY <1>5, <2>2 DEF ReadProject, Goto, SerialInv, Shape
    <3>2. Holding(h)'
      BY <3>1 DEF Holding
    <3> QED  BY <1>1, <2>0, <3>1, <3>2, HandlerSerial
  <2> QED  BY <2>1, <2>2
<1>6. ASSUME NEW h \in Handlers, ReadExisting(h) PROVE SerialInv'
  <2>0. stage[h] = "reread" /\ overlapped' = overlapped /\ row' = row
    BY <1>6 DEF ReadExisting
  <2>1. CASE Finish(h)
    BY <2>0, <2>1, SerialFinish
  <2>2. CASE ~Finish(h)
    <3>1. /\ stage'[h] = "write" /\ call' = call /\ data' = data /\ existing'[h] = row
          /\ \A g \in Handlers \ {h} : stage'[g] = stage[g] /\ existing'[g] = existing[g]
      BY <1>6, <2>2 DEF ReadExisting, Goto, SerialInv, Shape
    <3>2. Updates(call[h])
      BY <2>0 DEF IInv, HandlerKept, CallKept
    <3>3. Updates(call'[h])
      BY <3>1, <3>2
    <3>4. Holding(h)'
      BY <3>1, <3>3 DEF Holding
    <3> QED  BY <1>1, <2>0, <3>1, <3>4, HandlerSerial
  <2> QED  BY <2>1, <2>2
<1>7. ASSUME NEW h \in Handlers, Step(h), ~CheckAccess(h), ~ReadProject(h), ~ReadExisting(h)
      PROVE  SerialInv'
  <2>1. Finish(h) /\ stage[h] # "idle" /\ overlapped' = overlapped
    BY <1>7 DEF Step, InitComplianceMatrix, WriteRow, ArchiveProject, UpdateCaseDetails,
       DeleteProject, InsertChild, EraseChild
  <2> QED  BY <2>1, SerialFinish
<1>8. CASE Restart
  <2>1. /\ \A h \in Handlers : stage'[h] = "idle" /\ data'[h] = None
        /\ overlapped' = overlapped
    BY <1>8 DEF Restart
  <2> QED  BY <1>1, <2>1 DEF SerialInv, Holding, Alone
<1>9. CASE UNCHANGED vars
  BY <1>1, <1>9 DEF vars, reqVars, SerialInv, Holding, Alone, Updates
<1> QED  BY <1>2, <1>3, <1>4, <1>5, <1>6, <1>7, <1>8, <1>9 DEF Next, Step

\* A step that ends an update is its own UPDATE, or leaves the row.
LEMMA UpdateKeeps ==
    ASSUME IInv, SerialInv, [Next]_vars, ~overlapped, NEW h \in Handlers
    PROVE  KeepsOtherColumns(h)
<1> SUFFICES ASSUME stage[h] = "write", stage'[h] = "idle", data[h] # None,
                    NEW c \in Columns, c \notin DOMAIN data[h]
             PROVE  row'[c] = row[c]
  BY DEF KeepsOtherColumns
<1>1. Updates(call[h]) /\ existing[h] = row
  BY DEF SerialInv, Holding, Alone
<1>2. CASE WriteRow(h)
  <2>1. row' = IF there THEN Merged(data[h], row) ELSE row
    BY <1>1, <1>2 DEF WriteRow
  <2> QED  BY <2>1 DEF Merged
<1>3. CASE row' = row
  BY <1>3
<1>4. ASSUME NEW g \in Handlers, WriteRow(g) \/ UpdateCaseDetails(g), g # h PROVE FALSE
  <2>1. stage[g] = "write"
    BY <1>4 DEF WriteRow, UpdateCaseDetails
  <2> QED  BY <1>4, <2>1 DEF SerialInv, Alone
<1>5. ~UpdateCaseDetails(h)
  BY <1>1 DEF UpdateCaseDetails, Updates, MemberOps
<1>6. \/ row' = row
      \/ \E g \in Handlers : WriteRow(g) \/ UpdateCaseDetails(g)
  BY DEF Next, Step, CreateProject, InitComplianceMatrix, CheckAccess, ReadProject, ReadExisting,
     ArchiveProject, DeleteProject, InsertChild, EraseChild, Receive, Restart, vars
<1> QED  BY <1>2, <1>3, <1>4, <1>5, <1>6

LEMMA UpdatesKeep ==
    ASSUME IInv, SerialInv, [Next]_vars
    PROVE  [~overlapped => \A h \in Handlers : KeepsOtherColumns(h)]_vars
BY UpdateKeeps

LEMMA WorkspaceSerial ==
    ASSUME IInv, SerialInv, [WorkspaceNext]_allVars
    PROVE  /\ SerialInv'
           /\ [~overlapped => \A h \in Handlers : KeepsOtherColumns(h)]_vars
<1>1. CASE [Next]_vars
  BY <1>1, SerialNext, UpdatesKeep
<1>2. CASE UNCHANGED others
  <2>1. SerialInv'
    BY <1>2 DEF others, reqVars, SerialInv, Shape, Holding, Alone, Updates
  <2>2. \A h \in Handlers : KeepsOtherColumns(h)
    BY <1>2 DEF others, KeepsOtherColumns
  <2> QED  BY <2>1, <2>2
<1> QED  BY <1>1, <1>2, WorkspaceStep

\* Of requests that come one at a time, an update changes the columns that its
\* caller named and no other.
THEOREM SerialUpdates == WorkspaceSpec => SerialOnlyProvidedKeys
<1>1. WorkspaceInit => IInv /\ Clean /\ SerialInv
  BY InitIInv, InitClean, SerialInit DEF WorkspaceInit
<1>2. IInv /\ Clean /\ SerialInv /\ [WorkspaceNext]_allVars => IInv' /\ Clean' /\ SerialInv'
  BY WorkspaceInvariant, WorkspaceSerial
<1>3. IInv /\ SerialInv /\ [WorkspaceNext]_allVars
        => [~overlapped => \A h \in Handlers : KeepsOtherColumns(h)]_vars
  BY WorkspaceSerial
<1> QED  BY <1>1, <1>2, <1>3, PTL DEF WorkspaceSpec, SerialOnlyProvidedKeys
=============================================================================
