-------------------------- MODULE ShadowCalendar --------------------------
(***************************************************************************)
(* What the forward-shadow runner promises: a calendar with at most one    *)
(* entry for a date.  An entry is the work of one run, made by a run that  *)
(* has not answered yet; its own run may mark it, which is the commit, and *)
(* nothing else ever happens to it.  An answer is true when it is given.   *)
(***************************************************************************)
CONSTANTS Procs, Dates, Keys

Ids == [date : Dates, key : Keys]
Modes == {"production", "dry-run", "resume"}

VARIABLES day,     \* the entries of each date: what run, by whom, committed?
          who,     \* the last run of each process
          answer   \* what it answered

vars == <<day, who, answer>>

Init ==
    /\ day = [d \in Dates |-> {}]
    /\ who \in [Procs -> [id : Ids, mode : Modes, attempt : {0}]]
    /\ answer = [p \in Procs |-> "NONE"]

Date(p) == who[p].id.date
Made(p, marked) == [id |-> who[p].id, by |-> {who[p].attempt}, marked |-> marked]

\* under a number that no run has had and no entry bears
Begin(p) ==
    /\ who' = [who EXCEPT ![p] = who'[p]]
    /\ who'[p] \in [id : Ids, mode : Modes, attempt : {who'[p].attempt}]
    /\ \A q \in Procs : who[q].attempt # who'[p].attempt
    /\ \A d \in Dates : \A e \in day[d] : who'[p].attempt \notin e.by
    /\ answer' = [answer EXCEPT ![p] = "NONE"]
    /\ UNCHANGED day

Publish(p) ==
    /\ answer[p] = "NONE" /\ who[p].mode # "dry-run"
    /\ day[Date(p)] = {}
    /\ day' = [day EXCEPT ![Date(p)] = {Made(p, FALSE)}]
    /\ UNCHANGED <<who, answer>>

Commit(p) ==
    /\ answer[p] = "NONE"
    /\ day[Date(p)] = {Made(p, FALSE)}
    /\ day' = [day EXCEPT ![Date(p)] = {Made(p, TRUE)}]
    /\ answer' = [answer EXCEPT ![p] = "COMMITTED"]
    /\ UNCHANGED who

TrueOf(p, a) ==
    \/ /\ a = "ALREADY_COMMITTED_IDENTICAL"
       /\ \E e \in day[Date(p)] : e.marked /\ e.id = who[p].id
    \/ /\ a = "CONFLICT_EXISTING_COMMIT"
       /\ \E e \in day[Date(p)] : e.marked /\ e.id # who[p].id
    \/ /\ a \in {"RECOVERY_REQUIRED", "FAILED", "NOT_COMMITTED_DRY_RUN"}
       /\ Made(p, TRUE) \notin day[Date(p)]

Reply(p) ==
    /\ answer[p] = "NONE"
    /\ TrueOf(p, answer'[p])
    /\ answer' = [answer EXCEPT ![p] = answer'[p]]
    /\ UNCHANGED <<day, who>>

Die(p) == answer' = [answer EXCEPT ![p] = "NONE"] /\ UNCHANGED <<day, who>>

Next == \E p \in Procs : Begin(p) \/ Publish(p) \/ Commit(p) \/ Reply(p) \/ Die(p)

Spec == Init /\ [][Next]_vars
=============================================================================
