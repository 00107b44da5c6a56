------------------------- MODULE ResearchRegistry -------------------------
(***************************************************************************)
(* The append-only registry of research entities                           *)
(* (scripts/maintenance/research_registry.py): apply_patch and the reads   *)
(* that every command of the file goes through.                            *)
(*                                                                         *)
(* A registry is a directory: snapshots/<id>, an event log, CURRENT.json   *)
(* and a lock file.  A patch is applied under the lock in three durable    *)
(* writes (snapshot by rename, event by append, pointer by replace); a     *)
(* crash or a failing write may come between any two of them, and readers, *)
(* who take no lock, read the pointer first and the log second.            *)
(*                                                                         *)
(* The id of a snapshot is the hash of its parent and its content.  Here   *)
(* it is the sequence of contents from the first snapshot to it, so that   *)
(* the ancestors of a snapshot are its prefixes and GENESIS is <<>>.       *)
(***************************************************************************)
EXTENDS Integers, FiniteSets, SequencesExt

CONSTANTS Writers,      \* processes that apply patches
          Readers,      \* processes that read
          Entities,     \* entity ids
          Aliases,      \* normalised alias names
          Patches,      \* what a patch may hold: records [boot, ops]
          MaxFail,      \* bound on the failure rows of an entity
          MaxHeads,     \* bound on the length of the history
          None          \* a missing value, entity, lock holder or content

ENTITY_STATUSES == {"OPEN", "CLOSED"}
TERMINAL_STATUSES == {"CLOSED"}
Counts == 0..MaxFail \cup {None}
Entry == [status : ENTITY_STATUSES, fails : Counts]
Contents == [entities : [Entities -> Entry \cup {None}],
             aliases : [Aliases -> Entities \cup {None}]]
Ids == Seq(Contents)
GENESIS == <<>>
Nothing == [entities |-> [e \in Entities |-> None], aliases |-> [a \in Aliases |-> None]]

ASSUME NoneAssumption ==
    /\ None \notin Writers
    /\ None \notin Contents
    /\ None \notin Entry
ASSUME PatchesAssumption == \A p \in Patches :
    /\ p.boot \in BOOLEAN
    /\ Len(p.ops) \in Nat /\ DOMAIN p.ops = 1..Len(p.ops)
    /\ \A i \in DOMAIN p.ops : p.ops[i].entity \in Entities
ASSUME MaxFailAssumption == MaxFail \in Nat

VARIABLES current,      \* the head in CURRENT.json
          snapshots,    \* snapshots/: the id and the patch in the manifest of each
          events,       \* the event log
          torn,         \* the last line of the log is incomplete
          lock,         \* .research_registry.lock: the writer that created it
          writer,       \* what each writer does
          reader        \* what each reader does, and its last answer

vars == <<current, snapshots, events, torn, lock, writer, reader>>

Patch == [base : Ids, boot : BOOLEAN, ops : {p.ops : p \in Patches} \cup {<<>>}]
Idle == [at |-> "idle", new |-> GENESIS, patch |-> [base |-> GENESIS, boot |-> FALSE, ops |-> <<>>]]
Outside == {"idle", "lock"}
Inside == {"check", "snapshot", "event", "pointer", "unlock"}

TypeOK ==
    /\ current \in Ids
    /\ snapshots \subseteq [id : Ids, patch : Patch]
    /\ events \in Seq([base : Ids, new : Ids, patch : Patch])
    /\ torn \in BOOLEAN
    /\ lock \in Writers \cup {None}
    /\ writer \in [Writers -> [at : Outside \cup Inside, patch : Patch, new : Ids]]
    /\ reader \in [Readers -> [at : {"head", "chain"}, want : Ids, head : Ids, got : Ids]]

Init ==
    /\ current = GENESIS
    /\ snapshots = {}
    /\ events = <<>>
    /\ torn = FALSE
    /\ lock = None
    /\ writer = [w \in Writers |-> Idle]
    /\ reader = [r \in Readers |-> [at |-> "head", want |-> GENESIS,
                                    head |-> GENESIS, got |-> GENESIS]]

-----------------------------------------------------------------------------
(* _apply_operations: the operations of a patch on a content.              *)

Terminal(old) == old # None /\ old.status \in TERMINAL_STATUSES

_failure_count_regressed(old, new) == old # None /\ (new = None \/ new < old)

\* merged.update(raw_entity): the fields the operation names replace the old ones
Merged(old, o) == [f \in {"status", "fails"} |-> IF f \in DOMAIN o THEN o[f] ELSE old[f]]
Added(o) == [f \in {"status", "fails"} |-> IF f \in DOMAIN o THEN o[f] ELSE None]

\* a required field is missing, or a status or a count is none
_normalize_entity(raw) == raw \in Entry

\* an update that forgets to ask for the status of what it changes
AllowedAgain(c, o) ==
    LET old == c.entities[o.entity]
    IN  \/ o.op \in {"add", "upsert"} /\ old = None /\ _normalize_entity(Added(o))
        \/ /\ o.op \in {"update", "upsert"} /\ old # None
           /\ _normalize_entity(Merged(old, o))
           /\ ~ _failure_count_regressed(old.fails, Merged(old, o).fails)
        \/ o.op = "close" /\ old # None
        \/ o.op = "alias" /\ old # None /\ c.aliases[o.alias] \in {None, o.entity}
Allowed(c, o) ==
    LET old == c.entities[o.entity]
    IN  \/ o.op \in {"add", "upsert"} /\ old = None /\ _normalize_entity(Added(o))
        \/ /\ o.op \in {"update", "upsert"} /\ old # None
           /\ ~ Terminal(old)
           /\ _normalize_entity(Merged(old, o))
           /\ ~ _failure_count_regressed(old.fails, Merged(old, o).fails)
        \/ o.op = "close" /\ old # None /\ ~ Terminal(old)
        \/ o.op = "alias" /\ old # None /\ c.aliases[o.alias] \in {None, o.entity}

Changed(c, o) ==
    LET old == c.entities[o.entity]
    IN  CASE o.op = "alias" -> [c EXCEPT !.aliases[o.alias] = o.entity]
          [] o.op = "close" -> [c EXCEPT !.entities[o.entity].status = "CLOSED"]
          [] OTHER -> [c EXCEPT !.entities[o.entity] =
                         IF old = None THEN Added(o) ELSE Merged(old, o)]

Applied(d, o) == IF d # None /\ Allowed(d, o) THEN Changed(d, o) ELSE None
_apply_operations(c, ops) == IF ops = <<>> THEN None ELSE FoldLeft(Applied, c, ops)

\* evaluate_proposal is asked about a new entity, except in the bootstrap
Reviewed(c, p) == ~p.boot /\ \E i \in DOMAIN p.ops :
    p.ops[i].op \in {"add", "upsert"} /\ c.entities[p.ops[i].entity] = None
BootstrapOnly(p) == \A i \in DOMAIN p.ops : p.ops[i].op \in {"add", "alias"}

Content(id) == IF id = GENESIS THEN Nothing ELSE Last(id)

-----------------------------------------------------------------------------
(* What the files say.                                                     *)

LogTail == IF events = <<>> THEN GENESIS ELSE Last(events).new
\* validate_event_chain: each line continues the one before and its snapshot is of its patch
ChainPasses ==
    /\ ~torn
    /\ \A i \in DOMAIN events :
         /\ events[i].base = IF i = 1 THEN GENESIS ELSE events[i - 1].new
         /\ events[i].base = Front(events[i].new)
         /\ [id |-> events[i].new, patch |-> events[i].patch] \in snapshots
\* _validated_event_head: the log is sound and ends where the pointer points
HeadUnmatched(head) == ChainPasses
HeadIsTail(head) == ChainPasses /\ LogTail = head
InLineage(id) == \E i \in DOMAIN events : events[i].new = id

Goto(w, at) == writer' = [writer EXCEPT ![w].at = at]
Leave(w) == writer' = [writer EXCEPT ![w] = Idle]

-----------------------------------------------------------------------------
(* apply_patch.                                                            *)

\* a patch is written against the head its author saw
Submit(w, p) ==
    /\ writer[w].at = "idle"
    /\ Len(current) < MaxHeads
    /\ writer' = [writer EXCEPT ![w] = [at |-> "lock", new |-> GENESIS,
                     patch |-> [base |-> current, boot |-> p.boot, ops |-> p.ops]]]
    /\ UNCHANGED <<current, snapshots, events, torn, lock, reader>>

LockNot(w) == TRUE
LockIsFree(w) == lock = None
Lock(w) ==
    /\ writer[w].at = "lock"
    /\ \/ LockIsFree(w) /\ lock' = w /\ Goto(w, "check")
       \/ ~ LockIsFree(w) /\ Leave(w) /\ UNCHANGED lock
    /\ UNCHANGED <<current, snapshots, events, torn, reader>>

Accepted(p) ==
    /\ p.boot => current = GENESIS /\ BootstrapOnly(p)
    /\ p.base = current
    /\ HeadIsTail(current)
    /\ _apply_operations(Content(current), p.ops) # None
Check(w) ==
    LET p == writer[w].patch
        new == Append(current, _apply_operations(Content(current), p.ops))
    IN  /\ writer[w].at = "check"
        /\ \/ /\ Accepted(p)
              /\ writer' = [writer EXCEPT ![w].at = "snapshot", ![w].new = new]
           \/ (~ Accepted(p) \/ Reviewed(Content(current), p)) /\ Goto(w, "unlock")
        /\ UNCHANGED <<current, snapshots, events, torn, lock, reader>>

\* _write_snapshot: the staged directory is renamed to its id, once
WriteSnapshot(w) ==
    LET p == writer[w].patch
        new == writer[w].new
    IN  /\ writer[w].at = "snapshot"
        /\ IF \E s \in snapshots : s.id = new
           THEN Goto(w, "unlock") /\ UNCHANGED snapshots
           ELSE Goto(w, "event") /\ snapshots' = snapshots \cup {[id |-> new, patch |-> p]}
        /\ UNCHANGED <<current, events, torn, lock, reader>>

AppendEvent(w) ==
    /\ writer[w].at = "event"
    /\ events' = Append(events, [base |-> writer[w].patch.base, new |-> writer[w].new,
                                 patch |-> writer[w].patch])
    /\ Goto(w, "pointer")
    /\ UNCHANGED <<current, snapshots, torn, lock, reader>>

WritePointer(w) ==
    /\ writer[w].at = "pointer"
    /\ current' = writer[w].new
    /\ Goto(w, "unlock")
    /\ UNCHANGED <<snapshots, events, torn, lock, reader>>

\* a write raises: the finally of the lock runs all the same
WriteFails(w) ==
    /\ writer[w].at \in {"snapshot", "event", "pointer"}
    /\ Goto(w, "unlock")
    /\ torn' \in IF writer[w].at = "event" THEN BOOLEAN ELSE {torn}
    /\ UNCHANGED <<current, snapshots, events, lock, reader>>

\* the lock file is removed whoever created it
Unlock(w) ==
    /\ writer[w].at = "unlock"
    /\ lock' = None
    /\ Leave(w)
    /\ UNCHANGED <<current, snapshots, events, torn, reader>>

\* the process ends where it is; an append may be cut short
Crash(w) ==
    /\ writer[w].at # "idle"
    /\ Leave(w)
    /\ torn' \in IF writer[w].at = "event" THEN BOOLEAN ELSE {torn}
    /\ UNCHANGED <<current, snapshots, events, lock, reader>>

\* nothing in the program removes the lock of a process that died: a person does
RemoveLock ==
    /\ lock # None
    /\ \A w \in Writers : writer[w].at \in Outside
    /\ lock' = None
    /\ UNCHANGED <<current, snapshots, events, torn, writer, reader>>

-----------------------------------------------------------------------------
(* _load_live_snapshot and _load_snapshot_for_read: no lock is taken.      *)

\* the id asked for, if any, is one a reader can see in the directory
ReadHead(r) ==
    /\ reader[r].at = "head"
    /\ \E want \in {GENESIS} \cup {s.id : s \in snapshots} :
         reader' = [reader EXCEPT ![r].at = "chain", ![r].want = want, ![r].head = current]
    /\ UNCHANGED <<current, snapshots, events, torn, lock, writer>>

Target(r) == IF reader[r].want = GENESIS THEN reader[r].head ELSE reader[r].want
ReadChain(r) ==
    LET served == HeadIsTail(reader[r].head) /\ InLineage(Target(r))
    IN  /\ reader[r].at = "chain"
        /\ reader' = [reader EXCEPT ![r] = [at |-> "head", want |-> GENESIS, head |-> GENESIS,
                                           got |-> IF served THEN Target(r) ELSE @.got]]
        /\ UNCHANGED <<current, snapshots, events, torn, lock, writer>>

-----------------------------------------------------------------------------
ApplyPatch(w) ==
    \/ \E p \in Patches : Submit(w, p)
    \/ Lock(w)
    \/ Check(w)
    \/ WriteSnapshot(w)
    \/ AppendEvent(w)
    \/ WritePointer(w)
    \/ WriteFails(w)
    \/ Unlock(w)
    \/ Crash(w)

Next ==
    \/ \E w \in Writers : ApplyPatch(w)
    \/ RemoveLock
    \/ \E r \in Readers : ReadHead(r) \/ ReadChain(r)

Spec == Init /\ [][Next]_vars

-----------------------------------------------------------------------------
(* Properties.                                                             *)

\* Whatever crashed, failed or ran beside: every line of the log continues the
\* line before it and has its snapshot, no two patches were applied to one
\* head, and the pointer is at the last line or at the one before it
\* (apply_patch's order of snapshot, event and pointer under the lock).
HistoryIsSound ==
    /\ \A i \in DOMAIN events :
         /\ events[i].base = IF i = 1 THEN GENESIS ELSE events[i - 1].new
         /\ events[i].patch.base = events[i].base
         /\ [id |-> events[i].new, patch |-> events[i].patch] \in snapshots
    /\ current \in {LogTail, IF events = <<>> THEN GENESIS ELSE Last(events).base}

\* What was ever served to a reader, by id or as the current state, is part of
\* the present history: orphans of a crash and heads not published yet are not
\* served, and the history never goes back (_load_snapshot_for_read).  Proved
\* (ResearchRegistry_proofs!Reads), not in a run: HistorySpec is near to it.
ReadsAreOfHistory == \A r \in Readers : IsPrefix(reader[r].got, current)

\* From a snapshot to any later one no entity is lost, a terminal entity does
\* not change, the failures counted for an entity are not fewer or unknown
\* again, and an alias does not move (_apply_operations).
EntitiesAreFinal ==
    \A i, j \in DOMAIN current : i < j =>
        /\ \A e \in Entities :
             LET old == current[i].entities[e]
                 new == current[j].entities[e]
             IN  /\ old # None => new # None
                 /\ Terminal(old) => new = old
                 /\ old # None /\ old.fails # None => new.fails # None /\ new.fails >= old.fails
        /\ \A a \in Aliases : current[i].aliases[a] # None => current[j].aliases[a] = current[i].aliases[a]

\* The registry is one history of versions: two patches written against one
\* version are never both applied, and what a reader is served as the current
\* state is the newest version at that instant, although it takes no lock and
\* reads two files (apply_patch, _load_live_snapshot).
OneHistory == INSTANCE ResearchHistory WITH
    history <- LogTail,
    base <- [w \in Writers |-> writer[w].patch.base],
    asked <- [r \in Readers |-> reader[r].want],
    got <- [r \in Readers |-> reader[r].got]
HistorySpec == OneHistory!Spec
=============================================================================
