-------------------------- MODULE ResearchOutcome ---------------------------
(***************************************************************************)
(* What a client of Deep Research is promised: a study it opened ends with *)
(* a report, with an error, or by its leaving, and the evidence of a study *)
(* is there for follow-up questions from the moment it is reported, until  *)
(* the gateway restarts, and for reported studies only.                    *)
(*                                                                         *)
(* Two comments of progress.py say otherwise.  Line 37 gives the store a   *)
(* TTL of one hour: nothing reads stored_at and nothing removes an entry.  *)
(* Line 13 calls an error event non-fatal, "one agent failed, others       *)
(* continue": every error event is the last one of its stream, and an      *)
(* agent's exception is such an error.  The promise is what the code keeps.*)
(***************************************************************************)

CONSTANT Studies    \* the studies clients open

VARIABLES
    outcome,    \* what each study has come to
    kept        \* studies whose evidence answers follow-up questions

vars == <<outcome, kept>>

Outcomes == {"new", "running", "reported", "failed", "left"}

Init ==
    /\ outcome = [s \in Studies |-> "new"]
    /\ kept = {}

Becomes(s, from, to) ==
    /\ outcome[s] = from
    /\ outcome' = [outcome EXCEPT ![s] = to]

Open(s) ==
    /\ Becomes(s, "new", "running")
    /\ UNCHANGED kept

Report(s) ==
    /\ Becomes(s, "running", "reported")
    /\ kept' = kept \cup {s}

Fail(s) ==
    /\ Becomes(s, "running", "failed")
    /\ UNCHANGED kept

Leave(s) ==
    /\ Becomes(s, "running", "left")
    /\ UNCHANGED kept

Restart ==
    /\ outcome' = [s \in Studies |->
                      IF outcome[s] = "running" THEN "left" ELSE outcome[s]]
    /\ kept' = {}

Next ==
    \/ \E s \in Studies : Open(s) \/ Report(s) \/ Fail(s) \/ Leave(s)
    \/ Restart

Spec == Init /\ [][Next]_vars
=============================================================================
