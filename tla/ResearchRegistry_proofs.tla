---------------------- MODULE ResearchRegistry_proofs ----------------------
(***************************************************************************)
(* What holds of ResearchRegistry for any writers, readers, entities and   *)
(* patches: the history is one, what a reader is served is part of it, and *)
(* from a snapshot to any later one nothing that is final changes.  The    *)
(* last rests on what a fold over the operations of a patch can give.      *)
(***************************************************************************)
EXTENDS ResearchRegistry, Sums, TLAPS

(* Prefixes, element by element. *)
LEMMA PrefixIs ==
  ASSUME NEW S, NEW s \in Seq(S), NEW t \in Seq(S)
  PROVE  IsPrefix(s, t) <=> Len(s) <= Len(t) /\ \A k \in 1..Len(s) : s[k] = t[k]
<1>1. CASE Len(s) <= Len(t)
  <2>1. /\ SubSeq(s, 1, Len(s)) \in Seq(S) /\ Len(SubSeq(s, 1, Len(s))) = Len(s)
        /\ SubSeq(t, 1, Len(s)) \in Seq(S) /\ Len(SubSeq(t, 1, Len(s))) = Len(s)
        /\ \A k \in 1..Len(s) : SubSeq(s, 1, Len(s))[k] = s[k] /\ SubSeq(t, 1, Len(s))[k] = t[k]
    BY <1>1
  <2> QED
    BY <1>1, <2>1 DEF IsPrefix
<1>2. CASE ~(Len(s) <= Len(t))
  BY <1>2 DEF IsPrefix
<1> QED
  BY <1>1, <1>2

LEMMA PrefixTransitive ==
  ASSUME NEW S, NEW s \in Seq(S), NEW t \in Seq(S), NEW u \in Seq(S),
         IsPrefix(s, t), IsPrefix(t, u)
  PROVE  IsPrefix(s, u)
BY PrefixIs

LEMMA PrefixReflexive == ASSUME NEW S, NEW s \in Seq(S) PROVE IsPrefix(s, s)
BY PrefixIs

LEMMA PrefixEmpty ==
  ASSUME NEW S, NEW s \in Seq(S), NEW e \in Seq(S), Len(e) = 0
  PROVE  IsPrefix(e, s)
<1>1. Len(e) <= Len(s) /\ \A k \in 1..Len(e) : e[k] = s[k]
  OBVIOUS
<1> QED
  BY <1>1, PrefixIs

LEMMA PrefixAppend ==
  ASSUME NEW S, NEW s \in Seq(S), NEW x \in S
  PROVE  IsPrefix(s, Append(s, x)) /\ Append(s, x) \in Seq(S) /\ Len(Append(s, x)) = Len(s) + 1
<1> DEFINE t == Append(s, x)
<1>1. /\ t \in Seq(S) /\ Len(t) = Len(s) + 1 /\ Len(s) \in Nat
      /\ \A k \in 1..Len(s) : t[k] = s[k]
  OBVIOUS
<1> HIDE DEF t
<1>2. Len(s) <= Len(t) /\ \A k \in 1..Len(s) : s[k] = t[k]
  BY <1>1
<1>3. IsPrefix(s, t)
  BY <1>1, <1>2, PrefixIs
<1> QED
  BY <1>1, <1>3 DEF t

(***************************************************************************)
(* What the operations of a patch do: a fold over them, one by one.        *)
(***************************************************************************)
\* What the operations may be: a sequence of operations on known entities.
Operations(ops) ==
    /\ Len(ops) \in Nat /\ DOMAIN ops = 1..Len(ops)
    /\ \A i \in DOMAIN ops : ops[i].entity \in Entities

\* new may follow old: no entity is lost, what is terminal stays, a count does
\* not fall and an alias does not move.
Follows(c, d) ==
    /\ \A e \in Entities :
         LET old == c.entities[e]
             new == d.entities[e]
         IN  /\ old # None => new # None
             /\ Terminal(old) => new = old
             /\ old # None /\ old.fails # None => new.fails # None /\ new.fails >= old.fails
    /\ \A a \in Aliases : c.aliases[a] # None => d.aliases[a] = c.aliases[a]

LEMMA FollowsReflexive == ASSUME NEW c \in Contents PROVE Follows(c, c)
<1>1. ASSUME NEW e \in Entities, c.entities[e] # None, c.entities[e].fails # None
      PROVE  c.entities[e].fails >= c.entities[e].fails
  <2>1. c.entities[e] \in Entry
    BY <1>1 DEF Contents
  <2>2. c.entities[e].fails \in 0..MaxFail
    BY <1>1, <2>1 DEF Entry, Counts
  <2> QED
    BY <2>2, MaxFailAssumption
<1> QED
  BY <1>1 DEF Follows

LEMMA FollowsTransitive ==
  ASSUME NEW c \in Contents, NEW d \in Contents, NEW f \in Contents, Follows(c, d), Follows(d, f)
  PROVE  Follows(c, f)
<1>1. ASSUME NEW e \in Entities
      PROVE  LET old == c.entities[e]
                 new == f.entities[e]
             IN  /\ old # None => new # None
                 /\ Terminal(old) => new = old
                 /\ old # None /\ old.fails # None => new.fails # None /\ new.fails >= old.fails
  <2> DEFINE old == c.entities[e]
             mid == d.entities[e]
             new == f.entities[e]
  <2>1. /\ old # None => mid # None
        /\ Terminal(old) => mid = old
        /\ old # None /\ old.fails # None => mid.fails # None /\ mid.fails >= old.fails
        /\ mid # None => new # None
        /\ Terminal(mid) => new = mid
        /\ mid # None /\ mid.fails # None => new.fails # None /\ new.fails >= mid.fails
    BY DEF Follows
  <2>2. old \in Entry \cup {None} /\ mid \in Entry \cup {None} /\ new \in Entry \cup {None}
    BY DEF Contents
  <2> HIDE DEF old, mid, new
  <2>3. ASSUME old # None, old.fails # None PROVE new.fails # None /\ new.fails >= old.fails
    <3>1. /\ old.fails \in 0..MaxFail /\ mid.fails \in 0..MaxFail /\ new.fails \in 0..MaxFail
          /\ mid.fails >= old.fails /\ new.fails >= mid.fails /\ new.fails # None
      BY <2>1, <2>2, <2>3 DEF Entry, Counts
    <3> QED
      BY <3>1, MaxFailAssumption
  <2>4. old # None => new # None
    BY <2>1
  <2>5. Terminal(old) => new = old
    BY <2>1
  <2> QED
    BY <2>3, <2>4, <2>5 DEF old, new
<1>2. \A a \in Aliases : c.aliases[a] # None => f.aliases[a] = c.aliases[a]
  BY DEF Follows
<1> QED
  BY <1>1, <1>2 DEF Follows

\* One operation that is allowed gives a content that may follow.
LEMMA AppliedIs ==
  ASSUME NEW d \in Contents, NEW o, o.entity \in Entities
  PROVE  Applied(d, o) = None \/ (Applied(d, o) \in Contents /\ Follows(d, Applied(d, o)))
<1> SUFFICES ASSUME Allowed(d, o)
             PROVE  Changed(d, o) \in Contents /\ Follows(d, Changed(d, o))
  BY DEF Applied
<1> DEFINE old == d.entities[o.entity]
<1>1. /\ d.entities \in [Entities -> Entry \cup {None}]
      /\ d.aliases \in [Aliases -> Entities \cup {None}]
      /\ d = [entities |-> d.entities, aliases |-> d.aliases]
  BY DEF Contents
<1>2. old \in Entry \cup {None}
  BY <1>1
\* An entity that is put in its place.
<1>3. ASSUME NEW new \in Entry, Changed(d, o) = [d EXCEPT !.entities[o.entity] = new],
             old # None => /\ ~Terminal(old)
                           /\ old.fails # None => new.fails # None /\ new.fails >= old.fails
      PROVE  Changed(d, o) \in Contents /\ Follows(d, Changed(d, o))
  <2> DEFINE r == [d EXCEPT !.entities[o.entity] = new]
  <2>1. /\ r.entities = [d.entities EXCEPT ![o.entity] = new] /\ r.aliases = d.aliases
        /\ r = [entities |-> r.entities, aliases |-> r.aliases]
    BY <1>1
  <2>2. r.entities \in [Entities -> Entry \cup {None}]
    BY <1>1, <2>1
  <2> HIDE DEF r
  <2>3. r \in Contents
    BY <1>1, <2>1, <2>2 DEF Contents
  <2>4. Follows(d, d) /\ None # new
    BY FollowsReflexive, NoneAssumption
  <2>5. \A e \in Entities : r.entities[e] = IF e = o.entity THEN new ELSE d.entities[e]
    BY <1>1, <2>1
  <2>6. ASSUME NEW e \in Entities
        PROVE  LET was == d.entities[e]
                   is == r.entities[e]
               IN  /\ was # None => is # None
                   /\ Terminal(was) => is = was
                   /\ was # None /\ was.fails # None => is.fails # None /\ is.fails >= was.fails
    <3>1. CASE e = o.entity
      <4>1. r.entities[e] = new /\ d.entities[e] = old
        BY <2>5, <3>1
      <4> HIDE DEF old
      <4> QED
        BY <1>3, <2>4, <4>1 DEF Terminal
    <3>2. CASE e # o.entity
      <4>1. r.entities[e] = d.entities[e]
        BY <2>5, <3>2
      <4> QED
        BY <2>4, <4>1 DEF Follows
    <3> QED
      BY <3>1, <3>2
  <2>7. Follows(d, r)
    BY <2>1, <2>6 DEF Follows
  <2> QED
    BY <1>3, <2>3, <2>7 DEF r
<1>4. CASE o.op \in {"add", "upsert"} /\ old = None /\ _normalize_entity(Added(o))
  <2>1. Changed(d, o) = [d EXCEPT !.entities[o.entity] = Added(o)]
    BY <1>4 DEF Changed
  <2>2. Added(o) \in Entry
    BY <1>4 DEF _normalize_entity
  <2> QED
    BY <1>3, <1>4, <2>1, <2>2
<1>5. CASE /\ o.op \in {"update", "upsert"} /\ old # None
           /\ ~ Terminal(old)
           /\ _normalize_entity(Merged(old, o))
           /\ ~ _failure_count_regressed(old.fails, Merged(old, o).fails)
  <2>1. Changed(d, o) = [d EXCEPT !.entities[o.entity] = Merged(old, o)]
    BY <1>5 DEF Changed
  <2> DEFINE new == Merged(old, o)
  <2>2. new \in Entry
    BY <1>5 DEF _normalize_entity
  <2>3. ~ _failure_count_regressed(old.fails, new.fails)
    BY <1>5
  <2> HIDE DEF old, new
  <2>4. ASSUME old.fails # None PROVE new.fails # None /\ new.fails >= old.fails
    <3>1. new.fails # None /\ ~(new.fails < old.fails)
      BY <2>3, <2>4 DEF _failure_count_regressed
    <3>2. new.fails \in 0..MaxFail /\ old.fails \in 0..MaxFail
      BY <1>2, <1>5, <2>2, <2>4, <3>1 DEF Entry, Counts
    <3> QED
      BY <3>1, <3>2, MaxFailAssumption
  <2>5. ~Terminal(old)
    BY <1>5
  <2> QED
    BY <1>3, <2>1, <2>2, <2>4, <2>5 DEF old, new
<1>6. CASE o.op = "close" /\ old # None /\ ~ Terminal(old)
  <2> DEFINE new == [old EXCEPT !.status = "CLOSED"]
  <2>1. Changed(d, o) = [d EXCEPT !.entities[o.entity].status = "CLOSED"]
    BY <1>6 DEF Changed
  <2>2. Changed(d, o) = [d EXCEPT !.entities[o.entity] = new]
    BY <2>1
  <2>3. new \in Entry /\ new.fails = old.fails
    BY <1>2, <1>6 DEF Entry, ENTITY_STATUSES
  <2>4. old.fails # None => new.fails # None /\ new.fails >= old.fails
    <3>1. Follows(d, d)
      BY FollowsReflexive
    <3> QED
      BY <1>6, <2>3, <3>1 DEF Follows
  <2> HIDE DEF new, old
  <2>5. ~Terminal(old)
    BY <1>6
  <2> QED
    BY <1>3, <2>2, <2>3, <2>4, <2>5 DEF old, new
<1>7. CASE o.op = "alias" /\ old # None /\ d.aliases[o.alias] \in {None, o.entity}
  <2>1. Changed(d, o) = [d EXCEPT !.aliases[o.alias] = o.entity]
    BY <1>7 DEF Changed
  <2> DEFINE r == [d EXCEPT !.aliases[o.alias] = o.entity]
  <2>2. /\ r.entities = d.entities /\ r.aliases = [d.aliases EXCEPT ![o.alias] = o.entity]
        /\ r = [entities |-> r.entities, aliases |-> r.aliases]
    BY <1>1
  <2>3. r.aliases \in [Aliases -> Entities \cup {None}]
    BY <1>1, <2>2
  <2> HIDE DEF r
  <2>4. r \in Contents
    BY <1>1, <2>2, <2>3 DEF Contents
  <2>5. \A a \in Aliases : d.aliases[a] # None => r.aliases[a] = d.aliases[a]
    BY <1>1, <1>7, <2>2
  <2>6. Follows(d, d)
    BY FollowsReflexive
  <2>7. Follows(d, r)
    BY <2>2, <2>5, <2>6 DEF Follows
  <2> QED
    BY <2>1, <2>4, <2>7 DEF r
<1> QED
  BY <1>4, <1>5, <1>6, <1>7 DEF Allowed

LEMMA MaxInside ==
  ASSUME NEW n \in Nat, NEW s \in SUBSET (1..n), s # {}
  PROVE  Max(s) \in s
<1> DEFINE G == {t \in SUBSET (1..n) : t = {} \/ \E x \in t : \A y \in t : x >= y}
<1>1. {} \in G
  OBVIOUS
<1>2. ASSUME NEW t \in G, NEW x \in s \ t PROVE t \cup {x} \in G
  <2>1. t \cup {x} \in SUBSET (1..n) /\ x \in Int /\ \A y \in t : y \in Int
    OBVIOUS
  <2>2. CASE t = {}
    <3>1. \A y \in t \cup {x} : x >= y
      BY <2>1, <2>2
    <3> QED
      BY <2>1, <3>1
  <2>3. CASE t # {}
    <3>1. PICK m \in t : \A y \in t : m >= y
      BY <2>3
    <3>2. CASE m >= x
      <4>1. \A y \in t \cup {x} : m >= y
        BY <3>1, <3>2
      <4> QED
        BY <2>1, <3>1, <4>1
    <3>3. CASE ~(m >= x)
      <4>1. \A y \in t \cup {x} : x >= y
        BY <2>1, <3>1, <3>3
      <4> QED
        BY <2>1, <4>1
    <3> QED
      BY <3>2, <3>3
  <2> QED
    BY <2>2, <2>3
<1>3. s \in G
  <2>0. 1 \in Int /\ n \in Int
    OBVIOUS
  <2>1. IsFiniteSet(s)
    <3>1. IsFiniteSet(1..n)
      BY <2>0, FS_Interval
    <3> QED
      BY <3>1, FS_Subset
  <2>2. G \cap SUBSET s \in SUBSET (SUBSET s) /\ {} \in G \cap SUBSET s
    BY <1>1
  <2>3. \A t \in G \cap SUBSET s : \A x \in s \ t : t \cup {x} \in G \cap SUBSET s
    BY <1>2
  <2> HIDE DEF G
  <2>4. s \in G \cap SUBSET s
    BY <2>1, <2>2, <2>3, SetInduction
  <2> QED
    BY <2>4
<1>4. \E x \in s : \A y \in s : x >= y
  BY <1>3
<1> QED
  BY <1>4 DEF Max

\* What FoldLeft defines: the content after every subset of the operations, the last one last.
Applies(g, c, ops) ==
    g = [s \in SUBSET DOMAIN ops |-> IF s = {} THEN c ELSE Applied(g[s \ {Max(s)}], ops[Max(s)])]

LEMMA ApplyFolds ==
  ASSUME NEW c, NEW ops, ops # <<>>
  PROVE  _apply_operations(c, ops) = (CHOOSE g : Applies(g, c, ops))[DOMAIN ops]
BY DEF _apply_operations, FoldLeft, MapThenFoldSet, Applies

\* What operations may give: nothing, or a content that may follow.
Given(c) == {None} \cup {d \in Contents : Follows(c, d)}

LEMMA GivenNext ==
  ASSUME NEW c \in Contents, NEW d \in Given(c), NEW o, o.entity \in Entities
  PROVE  Applied(d, o) \in Given(c)
<1>1. CASE d = None
  BY <1>1 DEF Applied, Given
<1>2. CASE d \in Contents /\ Follows(c, d)
  <2>1. Applied(d, o) = None \/ (Applied(d, o) \in Contents /\ Follows(d, Applied(d, o)))
    BY <1>2, AppliedIs
  <2> QED
    BY <1>2, <2>1, FollowsTransitive DEF Given
<1> QED
  BY <1>1, <1>2 DEF Given

LEMMA LastInside ==
  ASSUME NEW ops, Operations(ops)
  PROVE  IsFiniteSet(DOMAIN ops) /\ (\A s \in SUBSET DOMAIN ops : s # {} => Max(s) \in s)
<1> DEFINE D == DOMAIN ops
<1>1. Len(ops) \in Nat /\ D = 1..Len(ops) /\ 1 \in Int /\ Len(ops) \in Int
  BY DEF Operations
<1> HIDE DEF D
<1>2. IsFiniteSet(D) /\ (\A s \in SUBSET D : s # {} => Max(s) \in s)
  BY <1>1, FS_Interval, MaxInside
<1> QED
  BY <1>2 DEF D

(* A smallest set of operations that gives anything else does not exist. *)
LEMMA GivenAll ==
  ASSUME NEW c \in Contents, NEW ops, Operations(ops), NEW g, g[{}] = c,
         \A s \in SUBSET DOMAIN ops : s # {} /\ g[s \ {Max(s)}] \in Given(c) =>
             g[s] = Applied(g[s \ {Max(s)}], ops[Max(s)])
  PROVE  \A s \in SUBSET DOMAIN ops : g[s] \in Given(c)
<1> DEFINE D == DOMAIN ops
           B == {s \in SUBSET D : g[s] \notin Given(c)}
<1> SUFFICES ASSUME B # {} PROVE FALSE
  OBVIOUS
<1>1. PICK s \in B : \A t \in B : t \subseteq s => t = s
  <2>1. B \in SUBSET (SUBSET D)
    OBVIOUS
  <2> HIDE DEF B, D
  <2> QED
    BY <2>1, LastInside, SmallestSubset DEF D
<1>2. s \in SUBSET D /\ g[s] \notin Given(c)
  OBVIOUS
<1>3. s # {}
  BY <1>2, FollowsReflexive DEF Given
<1>4. Max(s) \in s /\ s \ {Max(s)} \in SUBSET D /\ s \ {Max(s)} # s
  BY <1>2, <1>3, LastInside
<1>5. g[s \ {Max(s)}] \in Given(c)
  BY <1>1, <1>4
<1>6. g[s] = Applied(g[s \ {Max(s)}], ops[Max(s)])
  BY <1>2, <1>3, <1>5
<1>7. ops[Max(s)].entity \in Entities
  BY <1>2, <1>4 DEF Operations
<1> QED
  BY <1>2, <1>5, <1>6, <1>7, GivenNext

LEMMA AppliesExists ==
  ASSUME NEW c \in Contents, NEW ops, Operations(ops)
  PROVE  \E g : Applies(g, c, ops)
<1> DEFINE D == DOMAIN ops
           step == [p \in D \X Given(c) |-> Applied(p[2], ops[p[1]])]
           one == [s \in SUBSET D |-> Max(s)]
<1>1. \A s \in SUBSET D : s # {} => Max(s) \in D /\ s \ {Max(s)} \in SUBSET D
  BY LastInside
<1>2. \A s \in SUBSET D : s # {} => one[s] \in s
  BY LastInside
<1>3. PICK g : Folds(g, step, one, c, D)
  <2> HIDE DEF one, step
  <2> QED
    BY <1>2, LastInside, FoldExists
<1>4. \A s \in SUBSET D : g[s] = IF s = {} THEN c ELSE step[<<Max(s), g[s \ {Max(s)}]>>]
  <2> HIDE DEF step, D
  <2> QED
    BY <1>3 DEF Folds
<1>5. ASSUME NEW s \in SUBSET D, s # {}, g[s \ {Max(s)}] \in Given(c)
      PROVE  g[s] = Applied(g[s \ {Max(s)}], ops[Max(s)])
  <2>1. g[s] = step[<<Max(s), g[s \ {Max(s)}]>>]
    BY <1>4, <1>5
  <2> HIDE DEF D
  <2> QED
    BY <1>1, <1>5, <2>1
<1>6. g[{}] = c
  BY <1>4
<1>7. \A s \in SUBSET D : g[s] \in Given(c)
  <2> HIDE DEF step
  <2> QED
    BY <1>5, <1>6, GivenAll
<1>8. \A s \in SUBSET D : g[s] = IF s = {} THEN c ELSE Applied(g[s \ {Max(s)}], ops[Max(s)])
  <2> HIDE DEF D, step
  <2> QED
    BY <1>1, <1>5, <1>6, <1>7
<1>9. g = [s \in SUBSET D |-> g[s]]
  <2> HIDE DEF D, step, one
  <2> QED
    BY <1>3 DEF Folds
<1>10. g = [s \in SUBSET D |-> IF s = {} THEN c ELSE Applied(g[s \ {Max(s)}], ops[Max(s)])]
  <2> HIDE DEF D, step
  <2> QED
    BY <1>8, <1>9
<1> QED
  BY <1>10 DEF Applies

(* The operations of a patch are refused or give a content that may follow: no    *)
(* sequence of them loses an entity, changes a terminal one or moves an alias.    *)
LEMMA ApplyIs ==
  ASSUME NEW c \in Contents, NEW ops, Operations(ops)
  PROVE  _apply_operations(c, ops) \in Given(c)
<1> SUFFICES ASSUME ops # <<>> PROVE _apply_operations(c, ops) \in Given(c)
  BY DEF _apply_operations, Given
<1> DEFINE D == DOMAIN ops
<1>1. PICK g : g = (CHOOSE h : Applies(h, c, ops)) /\ Applies(g, c, ops)
  BY AppliesExists
<1>2. _apply_operations(c, ops) = g[D]
  BY <1>1, ApplyFolds
<1>3. \A s \in SUBSET D : g[s] = IF s = {} THEN c ELSE Applied(g[s \ {Max(s)}], ops[Max(s)])
  BY <1>1 DEF Applies
<1>4. \A s \in SUBSET D : g[s] \in Given(c)
  BY <1>3, GivenAll
<1> QED
  BY <1>2, <1>4

(***************************************************************************)
(* A patch that is accepted gives a content that may follow the present.    *)
(***************************************************************************)
LEMMA OperationsAre == ASSUME NEW p \in Patch PROVE Operations(p.ops)
<1>1. Operations(<<>>)
  BY DEF Operations
<1>2. \A q \in Patches : Operations(q.ops)
  BY PatchesAssumption DEF Operations
<1> QED
  BY <1>1, <1>2 DEF Patch

LEMMA LastIs ==
  ASSUME NEW h \in Ids, h # GENESIS
  PROVE  Last(h) = h[Len(h)] /\ Len(h) \in DOMAIN h /\ Last(h) \in Contents
BY DEF Ids, GENESIS, Last

LEMMA AcceptedGives ==
  ASSUME NEW p \in Patch, current \in Ids, Accepted(p)
  PROVE  LET x == _apply_operations(Content(current), p.ops)
         IN  x \in Contents /\ Follows(Content(current), x)
<1>1. Nothing \in Contents
  BY DEF Nothing, Contents
<1>2. Content(current) \in Contents
  BY <1>1, LastIs DEF Content
<1>3. _apply_operations(Content(current), p.ops) \in Given(Content(current))
  BY <1>2, OperationsAre, ApplyIs
<1> QED
  BY <1>3 DEF Accepted, Given

(* Type correctness. *)
Writes == [at : Outside \cup Inside, patch : Patch, new : Ids]
LooksAt == [at : {"head", "chain"}, want : Ids, head : Ids, got : Ids]

LEMMA TypeNext == TypeOK /\ [Next]_vars => TypeOK'
<1> SUFFICES ASSUME TypeOK, [Next]_vars PROVE TypeOK'
  OBVIOUS
<1>0. GENESIS \in Ids /\ Idle \in Writes
  BY DEF GENESIS, Ids, Idle, Patch, Writes, Outside
<1>1. ASSUME NEW w \in Writers, NEW a \in Outside \cup Inside, Goto(w, a)
      PROVE  writer' \in [Writers -> Writes]
  BY <1>1 DEF Goto, TypeOK, Writes
<1>2. ASSUME NEW w \in Writers, Leave(w) PROVE writer' \in [Writers -> Writes]
  BY <1>0, <1>2 DEF Leave, TypeOK, Writes
<1>3. ASSUME NEW w \in Writers, NEW p \in Patches, Submit(w, p) PROVE TypeOK'
  <2>1. [at |-> "lock", new |-> GENESIS, patch |-> [base |-> current, boot |-> p.boot, ops |-> p.ops]]
          \in Writes
    BY <1>0, PatchesAssumption DEF TypeOK, Patch, Writes, Outside
  <2> QED
    BY <1>3, <2>1 DEF Submit, TypeOK, Writes
<1>4. ASSUME NEW w \in Writers, Lock(w) PROVE TypeOK'
  <2>1. writer' \in [Writers -> Writes]
    BY <1>1, <1>2, <1>4 DEF Lock, Inside
  <2> QED
    BY <1>4, <2>1 DEF Lock, TypeOK, Writes
<1>5. ASSUME NEW w \in Writers, Check(w) PROVE TypeOK'
  <2> DEFINE new == Append(current, _apply_operations(Content(current), writer[w].patch.ops))
  <2>1. CASE Accepted(writer[w].patch) /\ writer' = [writer EXCEPT ![w].at = "snapshot", ![w].new = new]
    <3>1. new \in Ids
      <4>1. writer[w].patch \in Patch /\ current \in Ids
        BY DEF TypeOK
      <4>2. _apply_operations(Content(current), writer[w].patch.ops) \in Contents
        BY <2>1, <4>1, AcceptedGives
      <4> QED
        BY <4>1, <4>2 DEF Ids
    <3>2. writer' = [writer EXCEPT ![w] = [writer[w] EXCEPT !.at = "snapshot", !.new = new]]
      BY <2>1
    <3> HIDE DEF new
    <3>3. [writer[w] EXCEPT !.at = "snapshot", !.new = new] \in Writes
      BY <3>1 DEF TypeOK, Writes, Inside
    <3>4. writer' \in [Writers -> Writes]
      BY <3>2, <3>3 DEF TypeOK, Writes
    <3> QED
      BY <1>5, <3>4 DEF Check, TypeOK, Writes
  <2>2. CASE Goto(w, "unlock")
    <3>1. writer' \in [Writers -> Writes]
      BY <1>1, <2>2 DEF Inside
    <3> QED
      BY <1>5, <3>1 DEF Check, TypeOK, Writes
  <2> QED
    BY <1>5, <2>1, <2>2 DEF Check
<1>6. ASSUME NEW w \in Writers, WriteSnapshot(w) PROVE TypeOK'
  <2>1. writer' \in [Writers -> Writes]
    BY <1>1, <1>6 DEF WriteSnapshot, Inside
  <2>2. snapshots' \subseteq [id : Ids, patch : Patch]
    BY <1>6 DEF WriteSnapshot, TypeOK
  <2> QED
    BY <1>6, <2>1, <2>2 DEF WriteSnapshot, TypeOK, Writes
<1>7. ASSUME NEW w \in Writers, AppendEvent(w) PROVE TypeOK'
  <2>1. writer' \in [Writers -> Writes]
    BY <1>1, <1>7 DEF AppendEvent, Inside
  <2>2. [base |-> writer[w].patch.base, new |-> writer[w].new, patch |-> writer[w].patch]
          \in [base : Ids, new : Ids, patch : Patch]
    BY DEF TypeOK, Patch
  <2>3. events' \in Seq([base : Ids, new : Ids, patch : Patch])
    BY <1>7, <2>2 DEF AppendEvent, TypeOK
  <2> QED
    BY <1>7, <2>1, <2>3 DEF AppendEvent, TypeOK, Writes
<1>8. ASSUME NEW w \in Writers, WritePointer(w) PROVE TypeOK'
  <2>1. writer' \in [Writers -> Writes]
    BY <1>1, <1>8 DEF WritePointer, Inside
  <2> QED
    BY <1>8, <2>1 DEF WritePointer, TypeOK, Writes
<1>9. ASSUME NEW w \in Writers, WriteFails(w) \/ Unlock(w) \/ Crash(w) PROVE TypeOK'
  <2>1. writer' \in [Writers -> Writes]
    BY <1>1, <1>2, <1>9 DEF WriteFails, Unlock, Crash, Inside
  <2> QED
    BY <1>9, <2>1 DEF WriteFails, Unlock, Crash, TypeOK, Writes
<1>10. CASE RemoveLock
  BY <1>10 DEF RemoveLock, TypeOK
<1>11. ASSUME NEW r \in Readers, ReadHead(r) PROVE TypeOK'
  <2>1. PICK want \in {GENESIS} \cup {s.id : s \in snapshots} :
          reader' = [reader EXCEPT ![r].at = "chain", ![r].want = want, ![r].head = current]
    BY <1>11 DEF ReadHead
  <2>2. want \in Ids
    BY <1>0 DEF TypeOK
  <2>3. reader' = [reader EXCEPT ![r] = [reader[r] EXCEPT !.at = "chain", !.want = want, !.head = current]]
    BY <2>1
  <2> QED
    <3>1. current \in Ids
      BY DEF TypeOK
    <3>2. [reader[r] EXCEPT !.at = "chain", !.want = want, !.head = current] \in LooksAt
      BY <2>2, <3>1 DEF TypeOK, LooksAt
    <3>3. reader' \in [Readers -> LooksAt]
      BY <2>3, <3>2 DEF TypeOK, LooksAt
    <3> QED
      BY <1>11, <3>3 DEF ReadHead, TypeOK, LooksAt
<1>12. ASSUME NEW r \in Readers, ReadChain(r) PROVE TypeOK'
  BY <1>0, <1>12 DEF ReadChain, Target, TypeOK
<1>13. CASE UNCHANGED vars
  BY <1>13 DEF vars, TypeOK
<1> QED
  BY <1>3, <1>4, <1>5, <1>6, <1>7, <1>8, <1>9, <1>10, <1>11, <1>12, <1>13 DEF Next, ApplyPatch

(***************************************************************************)
(* The lock, the writer inside it and the log.                             *)
(***************************************************************************)
Locking == \A w \in Writers : writer[w].at \in Inside => lock = w

(* What a writer has done when it has reached its place. *)
Before(w) ==
    LET base == writer[w].patch.base
        new == writer[w].new
    IN  /\ writer[w].at \in {"snapshot", "event", "pointer"} =>
             base = current /\ Len(new) = Len(current) + 1 /\ IsPrefix(current, new)
        /\ writer[w].at \in {"snapshot", "event"} => LogTail = current
        /\ writer[w].at = "event" => [id |-> new, patch |-> writer[w].patch] \in snapshots
        /\ writer[w].at = "pointer" => events # <<>> /\ LogTail = new

(* The log grows, line by line, to its tail. *)
Lineage ==
    /\ \A i \in DOMAIN events : IsPrefix(events[i].new, LogTail)
    /\ events # <<>> => /\ IsPrefix(Last(events).base, LogTail)
                        /\ Len(LogTail) = Len(Last(events).base) + 1

Reading ==
    \A r \in Readers :
        /\ IsPrefix(reader[r].got, current)
        /\ IsPrefix(reader[r].head, current)

(* Each content of a history may follow every one before it. *)
Final(h) == \A i, j \in DOMAIN h : i < j => Follows(h[i], h[j])
Finals == /\ Final(current)
          /\ \A w \in Writers : writer[w].at \in {"snapshot", "event", "pointer"} => Final(writer[w].new)

Inv == /\ TypeOK /\ Locking /\ HistoryIsSound /\ Lineage /\ Reading /\ Finals
       /\ \A w \in Writers : Before(w)

LEMMA LockingNext == TypeOK /\ Locking /\ [Next]_vars => Locking'
<1> SUFFICES ASSUME TypeOK, Locking, [Next]_vars, NEW v \in Writers, writer'[v].at \in Inside
             PROVE  lock' = v
  BY DEF Locking
<1>1. ASSUME NEW w \in Writers, NEW p \in Patches, Submit(w, p) PROVE lock' = v
  BY <1>1 DEF Submit, Locking, Inside, TypeOK
<1>2. ASSUME NEW w \in Writers, Lock(w) PROVE lock' = v
  BY <1>2, NoneAssumption DEF Lock, LockIsFree, Goto, Leave, Idle, Locking, Inside, TypeOK
<1>3. ASSUME NEW w \in Writers, Unlock(w) PROVE lock' = v
  BY <1>3 DEF Unlock, Leave, Idle, Locking, Inside, TypeOK
<1>4. ASSUME NEW w \in Writers, Crash(w) PROVE lock' = v
  BY <1>4 DEF Crash, Leave, Idle, Locking, Inside, TypeOK
<1>5. ASSUME NEW w \in Writers, Check(w) PROVE lock' = v
  <2>1. writer'[w].at \in Inside /\ writer[w].at \in Inside /\ lock' = lock
    BY <1>5 DEF Check, Goto, Inside, TypeOK
  <2>2. \A u \in Writers \ {w} : writer'[u] = writer[u]
    BY <1>5 DEF Check, Goto, TypeOK
  <2> QED
    BY <2>1, <2>2 DEF Locking
<1>6. ASSUME NEW w \in Writers, WriteSnapshot(w) \/ AppendEvent(w) \/ WritePointer(w) \/ WriteFails(w)
      PROVE  lock' = v
  BY <1>6 DEF WriteSnapshot, AppendEvent, WritePointer, WriteFails, Goto, Locking, Inside, TypeOK
<1>7. CASE RemoveLock
  BY <1>7 DEF RemoveLock, Outside, Inside
<1>8. CASE UNCHANGED <<writer, lock>>
  BY <1>8 DEF Locking
<1> QED
  BY <1>1, <1>2, <1>3, <1>4, <1>5, <1>6, <1>7, <1>8 DEF Next, ApplyPatch, ReadHead, ReadChain, vars

(***************************************************************************)
(* The durable files are touched by the writer that holds the lock alone.  *)
(***************************************************************************)
Files == <<current, snapshots, events>>

LEMMA BeforeOther ==
  ASSUME TypeOK, Locking, \A w \in Writers : Before(w),
         NEW w \in Writers, ApplyPatch(w), NEW v \in Writers \ {w}
  PROVE  Before(v)'
<1>1. writer'[v] = writer[v]
  BY DEF ApplyPatch, Submit, Lock, Check, WriteSnapshot, AppendEvent, WritePointer, WriteFails,
     Unlock, Crash, Goto, Leave, TypeOK
<1>2. CASE writer[v].at \in Inside
  <2>1. writer[w].at \notin Inside
    BY <1>2 DEF Locking
  <2>2. UNCHANGED Files
    BY <2>1 DEF ApplyPatch, Submit, Lock, Check, WriteSnapshot, AppendEvent, WritePointer,
       WriteFails, Unlock, Crash, Inside, Files
  <2> QED
    BY <1>1, <2>2 DEF Before, Files, LogTail
<1>3. CASE writer[v].at \notin Inside
  BY <1>1, <1>3 DEF Before, Inside
<1> QED
  BY <1>2, <1>3

LEMMA EventIds ==
  ASSUME TypeOK, NEW i \in DOMAIN events
  PROVE  events[i].new \in Seq(Contents) /\ events[i].base \in Seq(Contents)
<1> DEFINE Lines == [base : Ids, new : Ids, patch : Patch]
<1>1. events \in Seq(Lines)
  BY DEF TypeOK
<1>2. events[i] \in Lines
  <2> HIDE DEF Lines
  <2>1. i \in 1..Len(events)
    BY <1>1
  <2> QED
    BY <1>1, <2>1
<1> QED
  BY <1>2 DEF Ids

(* The log after a line was appended. *)
Line(w) == [base |-> writer[w].patch.base, new |-> writer[w].new, patch |-> writer[w].patch]
LEMMA LineIs ==
  ASSUME NEW w
  PROVE  /\ Line(w).base = writer[w].patch.base /\ Line(w).new = writer[w].new
         /\ Line(w).patch = writer[w].patch
BY DEF Line

LEMMA LogAppended ==
  ASSUME TypeOK, NEW w \in Writers, AppendEvent(w)
  PROVE  /\ events' # <<>> /\ Last(events') = Line(w) /\ LogTail' = writer[w].new
         /\ DOMAIN events' = DOMAIN events \cup {Len(events) + 1}
         /\ events'[Len(events) + 1] = Line(w)
         /\ \A i \in DOMAIN events : events'[i] = events[i]
         /\ Len(events) \in Nat /\ DOMAIN events = 1..Len(events)
         /\ events # <<>> => Last(events) = events[Len(events)]
<1>1. Line(w) \in [base : Ids, new : Ids, patch : Patch]
  BY DEF TypeOK, Patch, Line
<1>2. events' = Append(events, Line(w))
  BY DEF AppendEvent, Line
<1>3. events \in Seq([base : Ids, new : Ids, patch : Patch])
  BY DEF TypeOK
<1>4. /\ Len(events') = Len(events) + 1 /\ DOMAIN events' = 1..(Len(events) + 1)
      /\ DOMAIN events = 1..Len(events) /\ Len(events) \in Nat
      /\ events'[Len(events) + 1] = Line(w)
      /\ \A i \in 1..Len(events) : events'[i] = events[i]
      /\ events' # <<>>
  <2> HIDE DEF Line
  <2> QED
    BY <1>1, <1>2, <1>3
<1>5. Last(events') = Line(w) /\ (events # <<>> => Last(events) = events[Len(events)])
  BY <1>4 DEF Last
<1>6. LogTail' = Last(events').new
  BY <1>4 DEF LogTail
<1>7. Last(events').new = writer[w].new
  BY <1>5, LineIs
<1> QED
  BY <1>4, <1>5, <1>6, <1>7

LEMMA HistoryNext == Inv /\ [Next]_vars => HistoryIsSound'
<1> SUFFICES ASSUME Inv, [Next]_vars PROVE HistoryIsSound'
  OBVIOUS
<1> USE DEF Inv
<1>1. ASSUME NEW w \in Writers, AppendEvent(w) PROVE HistoryIsSound'
  <2>1. /\ writer[w].patch.base = current /\ LogTail = current
        /\ [id |-> writer[w].new, patch |-> writer[w].patch] \in snapshots
        /\ snapshots' = snapshots /\ current' = current
    BY <1>1 DEF AppendEvent, Before
  <2>2. current = IF Len(events) + 1 = 1 THEN GENESIS ELSE events'[Len(events)].new
    BY <1>1, <2>1, LogAppended DEF LogTail
  <2>3. ASSUME NEW i \in DOMAIN events'
        PROVE  /\ events'[i].base = IF i = 1 THEN GENESIS ELSE events'[i - 1].new
               /\ events'[i].patch.base = events'[i].base
               /\ [id |-> events'[i].new, patch |-> events'[i].patch] \in snapshots'
    <3>1. CASE i = Len(events) + 1
      <4>1. events'[i] = Line(w) /\ Len(events) \in Nat
        BY <1>1, <3>1, LogAppended
      <4>2. /\ events'[i].base = current /\ events'[i].patch.base = current
            /\ [id |-> events'[i].new, patch |-> events'[i].patch] \in snapshots'
        BY <2>1, <4>1, LineIs
      <4>3. i - 1 = Len(events) /\ (i = 1 <=> Len(events) + 1 = 1)
        BY <3>1, <4>1
      <4> QED
        BY <2>2, <4>2, <4>3
    <3>2. CASE i \in DOMAIN events
      <4>1. events'[i] = events[i] /\ i \in 1..Len(events) /\ Len(events) \in Nat
            /\ (i # 1 => events'[i - 1] = events[i - 1])
        BY <1>1, <3>2, LogAppended
      <4> QED
        BY <2>1, <3>2, <4>1 DEF HistoryIsSound
    <3> QED
      BY <1>1, <2>3, <3>1, <3>2, LogAppended
  <2>4. current' \in {LogTail', IF events' = <<>> THEN GENESIS ELSE Last(events').base}
    BY <1>1, <2>1, LogAppended, LineIs
  <2> QED
    BY <2>3, <2>4 DEF HistoryIsSound
<1>2. ASSUME NEW w \in Writers, WritePointer(w) PROVE HistoryIsSound'
  BY <1>2 DEF WritePointer, Before, HistoryIsSound, LogTail
<1>3. ASSUME NEW w \in Writers, WriteSnapshot(w) PROVE HistoryIsSound'
  BY <1>3 DEF WriteSnapshot, HistoryIsSound, LogTail
<1>4. CASE UNCHANGED Files
  BY <1>4 DEF Files, HistoryIsSound, LogTail
<1> QED
  BY <1>1, <1>2, <1>3, <1>4 DEF Next, ApplyPatch, Submit, Lock, Check, WriteFails, Unlock, Crash,
     RemoveLock, ReadHead, ReadChain, vars, Files

LEMMA LineageNext == Inv /\ [Next]_vars => Lineage'
<1> SUFFICES ASSUME Inv, [Next]_vars PROVE Lineage'
  OBVIOUS
<1> USE DEF Inv
<1>1. ASSUME NEW w \in Writers, AppendEvent(w) PROVE Lineage'
  <2> DEFINE new == writer[w].new
  <2>1. /\ writer[w].patch.base = current /\ LogTail = current
        /\ Len(new) = Len(current) + 1 /\ IsPrefix(current, new)
        /\ new \in Seq(Contents) /\ current \in Seq(Contents)
    BY <1>1 DEF AppendEvent, Before, TypeOK, Ids
  <2>2. IsPrefix(new, new)
    BY <2>1, PrefixReflexive
  <2>3. ASSUME NEW i \in DOMAIN events PROVE IsPrefix(events[i].new, new)
    <3>1. events[i].new \in Seq(Contents)
      BY EventIds
    <3>2. IsPrefix(events[i].new, current)
      BY <2>1 DEF Lineage
    <3> QED
      BY <2>1, <3>1, <3>2, PrefixTransitive
  <2>4. LogTail' = new /\ Last(events').base = current
    BY <1>1, <2>1, LogAppended, LineIs
  <2>5. ASSUME NEW i \in DOMAIN events' PROVE IsPrefix(events'[i].new, new)
    <3>1. CASE i \in DOMAIN events
      BY <1>1, <2>3, <3>1, LogAppended
    <3>2. CASE i = Len(events) + 1
      BY <1>1, <2>2, <3>2, LogAppended, LineIs
    <3> QED
      BY <1>1, <2>5, <3>1, <3>2, LogAppended
  <2> QED
    BY <2>1, <2>4, <2>5 DEF Lineage
<1>2. CASE UNCHANGED events
  BY <1>2 DEF Lineage, LogTail
<1> QED
  BY <1>1, <1>2 DEF Next, ApplyPatch, Submit, Lock, Check, WriteSnapshot, WritePointer, WriteFails,
     Unlock, Crash, RemoveLock, ReadHead, ReadChain, vars

(* A writer has done what its place says. *)
LEMMA BeforeSelf ==
  ASSUME Inv, NEW w \in Writers, ApplyPatch(w)
  PROVE  Before(w)'
<1> USE DEF Inv
<1>1. ASSUME writer'[w].at \notin {"snapshot", "event", "pointer"} PROVE Before(w)'
  BY <1>1 DEF Before
<1>2. ASSUME NEW p \in Patches, Submit(w, p) PROVE Before(w)'
  BY <1>1, <1>2 DEF Submit, TypeOK
<1>3. CASE Lock(w) \/ WriteFails(w) \/ Unlock(w) \/ Crash(w) \/ WritePointer(w)
  BY <1>1, <1>3 DEF Lock, WriteFails, Unlock, Crash, WritePointer, Goto, Leave, Idle, TypeOK
<1>4. CASE Check(w)
  <2> DEFINE x == _apply_operations(Content(current), writer[w].patch.ops)
  <2>1. CASE Goto(w, "unlock")
    BY <1>1, <2>1 DEF Goto, TypeOK
  <2>2. CASE /\ Accepted(writer[w].patch)
             /\ writer' = [writer EXCEPT ![w].at = "snapshot", ![w].new = Append(current, x)]
    <3>0. writer[w].patch \in Patch /\ current \in Ids
      BY DEF TypeOK
    <3>1. x \in Contents /\ writer[w].patch.base = current /\ LogTail = current
      BY <2>2, <3>0, AcceptedGives DEF Accepted, HeadIsTail
    <3>2. /\ writer'[w].at = "snapshot" /\ writer'[w].patch = writer[w].patch
          /\ writer'[w].new = Append(current, x)
      BY <2>2 DEF TypeOK
    <3>3. IsPrefix(current, Append(current, x)) /\ Len(Append(current, x)) = Len(current) + 1
      BY <3>1, PrefixAppend DEF TypeOK, Ids
    <3>4. UNCHANGED <<current, events>>
      BY <1>4 DEF Check
    <3> HIDE DEF x
    <3> QED
      BY <3>1, <3>2, <3>3, <3>4 DEF Before, LogTail
  <2> QED
    BY <1>4, <2>1, <2>2 DEF Check
<1>5. CASE WriteSnapshot(w)
  <2>1. CASE Goto(w, "unlock")
    BY <1>1, <2>1 DEF Goto, TypeOK
  <2>2. CASE /\ Goto(w, "event")
             /\ snapshots' = snapshots \cup {[id |-> writer[w].new, patch |-> writer[w].patch]}
    <3>1. /\ writer'[w].at = "event" /\ writer'[w].patch = writer[w].patch
          /\ writer'[w].new = writer[w].new
      BY <2>2 DEF Goto, TypeOK
    <3> QED
      BY <1>5, <2>2, <3>1 DEF WriteSnapshot, Before, LogTail
  <2> QED
    BY <1>5, <2>1, <2>2 DEF WriteSnapshot
<1>6. CASE AppendEvent(w)
  <2>1. /\ writer'[w].at = "pointer" /\ writer'[w].patch = writer[w].patch
        /\ writer'[w].new = writer[w].new /\ current' = current
    BY <1>6 DEF AppendEvent, Goto, TypeOK
  <2> QED
    BY <1>6, <2>1, LogAppended DEF AppendEvent, Before
<1> QED
  BY <1>2, <1>3, <1>4, <1>5, <1>6 DEF ApplyPatch

LEMMA BeforeNext == Inv /\ [Next]_vars => (\A w \in Writers : Before(w))'
<1> SUFFICES ASSUME Inv, [Next]_vars, NEW v \in Writers PROVE Before(v)'
  OBVIOUS
<1>1. ASSUME NEW w \in Writers, ApplyPatch(w) PROVE Before(v)'
  BY <1>1, BeforeSelf, BeforeOther DEF Inv
<1>2. CASE UNCHANGED <<current, snapshots, events, writer>>
  BY <1>2 DEF Inv, Before, LogTail
<1> QED
  BY <1>1, <1>2 DEF Next, RemoveLock, ReadHead, ReadChain, vars

(* What is served lies in the present history, which only grows. *)
LEMMA ReadingNext == Inv /\ [Next]_vars => Reading'
<1> SUFFICES ASSUME Inv, [Next]_vars PROVE Reading'
  OBVIOUS
<1> USE DEF Inv
<1>0. current \in Seq(Contents)
  BY DEF TypeOK, Ids
<1>1. ASSUME NEW w \in Writers, WritePointer(w) PROVE Reading'
  <2>1. current' = writer[w].new /\ reader' = reader /\ IsPrefix(current, current')
        /\ current' \in Seq(Contents)
    BY <1>1 DEF WritePointer, Before, TypeOK, Ids
  <2>2. ASSUME NEW s \in Seq(Contents), IsPrefix(s, current) PROVE IsPrefix(s, current')
    BY <1>0, <2>1, <2>2, PrefixTransitive
  <2> QED
    BY <2>1, <2>2 DEF Reading, TypeOK, Ids
<1>2. ASSUME NEW r \in Readers, ReadHead(r) PROVE Reading'
  <2>1. /\ \A q \in Readers : reader'[q].got = reader[q].got
        /\ \A q \in Readers : reader'[q].head \in {reader[q].head, current}
        /\ current' = current
    BY <1>2 DEF ReadHead, TypeOK
  <2> QED
    BY <1>0, <2>1, PrefixReflexive DEF Reading
<1>3. ASSUME NEW r \in Readers, ReadChain(r) PROVE Reading'
  <2>1. /\ current' = current
        /\ \A q \in Readers \ {r} : reader'[q] = reader[q]
        /\ reader'[r].head = GENESIS
        /\ reader'[r].got = IF HeadIsTail(reader[r].head) /\ InLineage(Target(r))
                            THEN Target(r) ELSE reader[r].got
    BY <1>3 DEF ReadChain, TypeOK
  <2>2. IsPrefix(GENESIS, current)
    <3>1. GENESIS \in Seq(Contents) /\ Len(GENESIS) = 0
      BY DEF GENESIS
    <3> QED
      BY <1>0, <3>1, PrefixEmpty
  <2>3. ASSUME HeadIsTail(reader[r].head), InLineage(Target(r)) PROVE IsPrefix(Target(r), current)
    <3>1. LogTail = reader[r].head /\ IsPrefix(LogTail, current)
      BY <2>3 DEF HeadIsTail, Reading
    <3>2. PICK i \in DOMAIN events : events[i].new = Target(r)
      BY <2>3 DEF InLineage
    <3>3. IsPrefix(Target(r), LogTail)
      BY <3>2 DEF Lineage
    <3>4. Target(r) \in Seq(Contents) /\ LogTail \in Seq(Contents)
      BY <3>1, <3>2, EventIds DEF TypeOK, Ids
    <3> QED
      BY <1>0, <3>1, <3>3, <3>4, PrefixTransitive
  <2> QED
    BY <2>1, <2>2, <2>3 DEF Reading
<1>4. CASE UNCHANGED <<current, reader>>
  BY <1>4 DEF Reading
<1> QED
  BY <1>1, <1>2, <1>3, <1>4 DEF Next, ApplyPatch, Submit, Lock, Check, WriteSnapshot, AppendEvent,
     WriteFails, Unlock, Crash, RemoveLock, vars

(* A content that may follow the last one may follow them all. *)
LEMMA FinalAppend ==
  ASSUME NEW h \in Ids, Final(h), NEW x \in Contents, Follows(Content(h), x)
  PROVE  Final(Append(h, x))
<1> DEFINE g == Append(h, x)
<1>1. /\ Len(h) \in Nat /\ DOMAIN h = 1..Len(h) /\ DOMAIN g = 1..(Len(h) + 1)
      /\ g[Len(h) + 1] = x /\ \A i \in DOMAIN h : g[i] = h[i] /\ h[i] \in Contents
  BY DEF Ids
<1> SUFFICES ASSUME NEW i \in DOMAIN g, NEW j \in DOMAIN g, i < j PROVE Follows(g[i], g[j])
  BY DEF Final
<1> HIDE DEF g
<1>2. CASE j \in DOMAIN h
  BY <1>1, <1>2 DEF Final
<1>3. CASE j = Len(h) + 1
  <2>1. i \in DOMAIN h /\ h # GENESIS
    BY <1>1, <1>3 DEF GENESIS
  <2>2. Content(h) = h[Len(h)] /\ Len(h) \in DOMAIN h
    BY <2>1, LastIs DEF Content
  <2>3. Follows(h[i], h[Len(h)])
    <3>1. CASE i < Len(h)
      BY <2>1, <2>2, <3>1 DEF Final
    <3>2. CASE i = Len(h)
      BY <1>1, <2>1, <3>2, FollowsReflexive
    <3> QED
      BY <1>1, <2>1, <3>1, <3>2
  <2>4. Follows(h[Len(h)], x) /\ h[i] \in Contents /\ h[Len(h)] \in Contents
    BY <1>1, <2>1, <2>2
  <2> QED
    BY <1>1, <1>3, <2>1, <2>3, <2>4, FollowsTransitive
<1> QED
  BY <1>1, <1>2, <1>3

LEMMA FinalsNext == Inv /\ [Next]_vars => Finals'
<1> SUFFICES ASSUME Inv, [Next]_vars PROVE Finals'
  OBVIOUS
<1> USE DEF Inv
<1> DEFINE Written == {"snapshot", "event", "pointer"}
<1>1. ASSUME UNCHANGED current,
             \A w \in Writers : writer'[w].at \in Written =>
                 Final(writer'[w].new) \/ (writer[w].at \in Written /\ writer'[w].new = writer[w].new)
      PROVE  Finals'
  <2>1. ASSUME NEW w \in Writers, writer'[w].at \in Written PROVE Final(writer'[w].new)
    BY <1>1, <2>1 DEF Finals
  <2>2. Final(current')
    BY <1>1 DEF Finals
  <2> QED
    BY <2>1, <2>2 DEF Finals
<1>2. ASSUME NEW w \in Writers, Check(w) PROVE Finals'
  <2> DEFINE x == _apply_operations(Content(current), writer[w].patch.ops)
  <2>1. CASE Goto(w, "unlock")
    BY <1>1, <1>2, <2>1 DEF Check, Goto, TypeOK
  <2>2. CASE /\ Accepted(writer[w].patch)
             /\ writer' = [writer EXCEPT ![w].at = "snapshot", ![w].new = Append(current, x)]
    <3>1. writer[w].patch \in Patch /\ current \in Ids
      BY DEF TypeOK
    <3>2. x \in Contents /\ Follows(Content(current), x)
      BY <2>2, <3>1, AcceptedGives
    <3> HIDE DEF x
    <3>3. Final(Append(current, x))
      BY <3>1, <3>2, FinalAppend DEF Finals
    <3>4. writer'[w].new = Append(current, x) /\ \A v \in Writers \ {w} : writer'[v] = writer[v]
      BY <2>2 DEF TypeOK
    <3> QED
      BY <1>1, <1>2, <3>3, <3>4 DEF Check
  <2> QED
    BY <1>2, <2>1, <2>2 DEF Check
<1>3. ASSUME NEW w \in Writers, WritePointer(w) PROVE Finals'
  <2>1. current' = writer[w].new /\ Final(writer[w].new)
    BY <1>3 DEF WritePointer, Finals
  <2>2. \A v \in Writers : writer'[v].at \in Written => writer[v].at \in Written /\ writer'[v].new = writer[v].new
    BY <1>3 DEF WritePointer, Goto, TypeOK
  <2> QED
    BY <2>1, <2>2 DEF Finals
<1>4. ASSUME NEW w \in Writers, WriteSnapshot(w) \/ AppendEvent(w) PROVE Finals'
  <2>1. \A v \in Writers : writer'[v].at \in Written => writer[v].at \in Written /\ writer'[v].new = writer[v].new
    BY <1>4 DEF WriteSnapshot, AppendEvent, Goto, TypeOK
  <2> QED
    BY <1>1, <1>4, <2>1 DEF WriteSnapshot, AppendEvent
<1>5. ASSUME NEW w \in Writers, Lock(w) \/ WriteFails(w) \/ Unlock(w) \/ Crash(w) PROVE Finals'
  <2>1. \A v \in Writers : writer'[v].at \in Written => writer[v].at \in Written /\ writer'[v].new = writer[v].new
    BY <1>5 DEF Lock, WriteFails, Unlock, Crash, Goto, Leave, Idle, TypeOK
  <2> QED
    BY <1>1, <1>5, <2>1 DEF Lock, WriteFails, Unlock, Crash
<1>6. ASSUME NEW w \in Writers, NEW p \in Patches, Submit(w, p) PROVE Finals'
  <2>1. \A v \in Writers : writer'[v].at \in Written => writer[v].at \in Written /\ writer'[v].new = writer[v].new
    BY <1>6 DEF Submit, TypeOK
  <2> QED
    BY <1>1, <1>6, <2>1 DEF Submit
<1>7. CASE UNCHANGED <<current, writer>>
  BY <1>7 DEF Finals
<1> QED
  BY <1>2, <1>3, <1>4, <1>5, <1>6, <1>7 DEF Next, ApplyPatch, RemoveLock, ReadHead, ReadChain, vars

LEMMA FinalCurrent == Final(current) => EntitiesAreFinal
<1> SUFFICES ASSUME Final(current), NEW i \in DOMAIN current, NEW j \in DOMAIN current, i < j
             PROVE  Follows(current[i], current[j])
  BY DEF EntitiesAreFinal, Follows
<1> QED
  BY DEF Final

LEMMA InvInit == Init => Inv
<1> SUFFICES ASSUME Init PROVE Inv
  OBVIOUS
<1>1. GENESIS \in Seq(Contents) /\ Len(GENESIS) = 0
  BY DEF GENESIS
<1>1a. Idle \in Writes
  BY <1>1 DEF Idle, Writes, Outside, Patch, Ids
<1>2. IsPrefix(GENESIS, GENESIS)
  BY <1>1, PrefixReflexive
<1>3. TypeOK
  <2>1. GENESIS \in Ids
    BY <1>1 DEF Ids
  <2>2. writer \in [Writers -> [at : Outside \cup Inside, patch : Patch, new : Ids]]
    BY <1>1a DEF Init, Writes
  <2>3. reader \in [Readers -> [at : {"head", "chain"}, want : Ids, head : Ids, got : Ids]]
    BY <2>1 DEF Init
  <2>4. events \in Seq([base : Ids, new : Ids, patch : Patch])
    BY DEF Init
  <2> QED
    BY <2>1, <2>2, <2>3, <2>4 DEF Init, TypeOK
<1>4. DOMAIN events = {} /\ DOMAIN current = {}
  BY DEF Init, GENESIS
<1>5. Finals
  BY <1>4 DEF Init, Idle, Finals, Final
<1> QED
  BY <1>2, <1>3, <1>4, <1>5 DEF Init, Inv, Locking, HistoryIsSound, Lineage, Reading, Before, LogTail,
     Idle, Inside

LEMMA InvInductive == Spec => []Inv
<1>1. Inv /\ [Next]_vars => Inv'
  BY TypeNext, LockingNext, HistoryNext, LineageNext, ReadingNext, FinalsNext, BeforeNext DEF Inv
<1> QED
  BY <1>1, InvInit, PTL DEF Spec

(* The log is one history, each line on the one before it and with its snapshot, *)
(* and the pointer is never further than a line behind, whatever writers crash,  *)
(* fail or race (apply_patch).                                                   *)
THEOREM History == Spec => []HistoryIsSound
BY InvInductive, PTL DEF Inv

(* A reader, who takes no lock, is only ever served what is and stays history.   *)
THEOREM Reads == Spec => []ReadsAreOfHistory
<1>1. Inv => ReadsAreOfHistory
  BY DEF Inv, Reading, ReadsAreOfHistory
<1> QED
  BY <1>1, InvInductive, PTL

(* From a snapshot to any later one no entity is lost, a terminal entity stays as it  *)
(* is, counted failures are neither fewer nor unknown again and an alias does not     *)
(* move, whatever operations the patches hold (_apply_operations under apply_patch).  *)
THEOREM EntitiesStayFinal == Spec => []EntitiesAreFinal
<1>1. Inv => EntitiesAreFinal
  BY FinalCurrent DEF Inv, Finals
<1> QED
  BY <1>1, InvInductive, PTL

(***************************************************************************)
(* ResearchRegistry implements ResearchHistory: the abstract history is    *)
(* what the log says, and a version is committed when its line is there.   *)
(***************************************************************************)
Bases == [w \in Writers |-> writer[w].patch.base]
Wants == [r \in Readers |-> reader[r].want]
Gots == [r \in Readers |-> reader[r].got]

(* The steps of ResearchHistory, in the terms of the registry. *)
LEMMA SamePrefix == ASSUME NEW s, NEW t PROVE OneHistory!IsPrefix(s, t) <=> IsPrefix(s, t)
BY DEF OneHistory!IsPrefix, IsPrefix

LEMMA Drafted ==
  ASSUME NEW w \in Writers, Bases' = [Bases EXCEPT ![w] = Bases'[w]], IsPrefix(Bases'[w], LogTail'),
         UNCHANGED <<LogTail, Wants, Gots>>
  PROVE  OneHistory!Next
<1>1. OneHistory!IsPrefix(Bases'[w], LogTail)
  BY SamePrefix
<1>2. OneHistory!Draft(w)
  BY <1>1 DEF OneHistory!Draft, Bases, Wants, Gots
<1> QED
  BY <1>2 DEF OneHistory!Next

LEMMA Committed ==
  ASSUME NEW w \in Writers, Bases[w] = LogTail, NEW c \in Contents, LogTail' = Append(LogTail, c),
         UNCHANGED <<Bases, Wants, Gots>>
  PROVE  OneHistory!Next
<1>1. OneHistory!Commit(w)
  BY DEF OneHistory!Commit, Bases, Wants, Gots
<1> QED
  BY <1>1 DEF OneHistory!Next

LEMMA Asked ==
  ASSUME NEW r \in Readers, Wants' = [Wants EXCEPT ![r] = Wants'[r]],
         UNCHANGED <<LogTail, Bases, Gots>>
  PROVE  OneHistory!Next
BY DEF OneHistory!Next, OneHistory!Ask, Bases, Wants, Gots

LEMMA Answered ==
  ASSUME NEW r \in Readers,
         Gots' = [Gots EXCEPT ![r] = IF Wants[r] = GENESIS THEN LogTail ELSE Wants[r]],
         IsPrefix(Gots'[r], LogTail), Wants' = [Wants EXCEPT ![r] = GENESIS],
         UNCHANGED <<LogTail, Bases>>
  PROVE  OneHistory!Next
<1>1. OneHistory!IsPrefix(Gots'[r], LogTail)
  BY SamePrefix
<1>2. OneHistory!Answer(r)
  BY <1>1 DEF OneHistory!Answer, OneHistory!Newest, GENESIS, Bases, Wants, Gots
<1> QED
  BY <1>2 DEF OneHistory!Next

Stays == UNCHANGED <<LogTail, Bases, Wants, Gots>>

LEMMA Stutters == ASSUME Stays PROVE [OneHistory!Next]_(OneHistory!vars)
BY DEF OneHistory!vars, Stays, Bases, Wants, Gots

(* The pointer is never ahead of the log. *)
LEMMA CurrentInLog == ASSUME Inv PROVE IsPrefix(current, LogTail) /\ IsPrefix(GENESIS, LogTail)
<1>1. current \in Seq(Contents) /\ LogTail \in Seq(Contents) /\ GENESIS \in Seq(Contents)
  <2>1. CASE events = <<>>
    BY <2>1 DEF Inv, TypeOK, Ids, LogTail, GENESIS
  <2>2. CASE events # <<>>
    <3>1. Len(events) \in DOMAIN events /\ LogTail = events[Len(events)].new
      BY <2>2 DEF Inv, TypeOK, LogTail, Last
    <3> QED
      BY <3>1, EventIds DEF Inv, TypeOK, Ids, GENESIS
  <2> QED
    BY <2>1, <2>2
<1>2. IsPrefix(LogTail, LogTail) /\ IsPrefix(GENESIS, LogTail)
  <2>1. Len(GENESIS) = 0
    BY DEF GENESIS
  <2> QED
    BY <1>1, <2>1, PrefixReflexive, PrefixEmpty
<1> QED
  BY <1>2 DEF Inv, HistoryIsSound, Lineage

(* A sequence of one element more is that element appended. *)
LEMMA OneMore ==
  ASSUME NEW S, NEW s \in Seq(S), NEW t \in Seq(S), IsPrefix(s, t), Len(t) = Len(s) + 1
  PROVE  t = Append(s, t[Len(t)]) /\ t[Len(t)] \in S
<1>1. Len(s) \in Nat /\ Len(t) \in 1..Len(t) /\ t[Len(t)] \in S
  OBVIOUS
<1>2. \A k \in 1..Len(s) : s[k] = t[k]
  BY PrefixIs
<1> DEFINE u == Append(s, t[Len(t)])
<1>3. u \in Seq(S) /\ Len(u) = Len(t) /\ \A k \in 1..Len(t) : u[k] = t[k]
  BY <1>1, <1>2
<1> HIDE DEF u
<1>4. u = t
  BY <1>3
<1> QED
  BY <1>1, <1>4 DEF u

LEMMA WriterRefines ==
  ASSUME Inv, NEW w \in Writers, ApplyPatch(w)
  PROVE  [OneHistory!Next]_(OneHistory!vars)
<1>0. writer \in [Writers -> Writes] /\ reader' = reader
  BY DEF Inv, TypeOK, Writes, ApplyPatch, Submit, Lock, Check, WriteSnapshot, AppendEvent,
     WritePointer, WriteFails, Unlock, Crash
<1>1. Wants' = Wants /\ Gots' = Gots
  BY <1>0 DEF Wants, Gots
<1>2. ASSUME UNCHANGED events, NEW b, Bases' = [Bases EXCEPT ![w] = b], b \in {current, GENESIS}
      PROVE  OneHistory!Next
  <2>1. LogTail' = LogTail /\ Bases'[w] = b
    BY <1>2 DEF LogTail, Bases
  <2> QED
    BY <1>1, <1>2, <2>1, CurrentInLog, Drafted
<1>3. ASSUME UNCHANGED events, writer'[w].patch = writer[w].patch,
             \A v \in Writers \ {w} : writer'[v] = writer[v]
      PROVE  Stays
  <2>1. LogTail' = LogTail
    BY <1>3 DEF LogTail
  <2>2. Bases' = Bases
    BY <1>3 DEF Bases
  <2> QED
    BY <1>1, <2>1, <2>2 DEF Stays
<1>4. ASSUME Leave(w) PROVE Bases' = [Bases EXCEPT ![w] = GENESIS]
  BY <1>0, <1>4 DEF Leave, Idle, Bases
<1>5. ASSUME NEW a, Goto(w, a)
      PROVE  /\ writer'[w].patch = writer[w].patch
             /\ \A v \in Writers \ {w} : writer'[v] = writer[v]
  BY <1>0, <1>5 DEF Goto, Writes
<1>6. ASSUME NEW p \in Patches, Submit(w, p) PROVE OneHistory!Next
  <2>1. Bases' = [Bases EXCEPT ![w] = current]
    BY <1>0, <1>6 DEF Submit, Bases
  <2> QED
    BY <1>2, <1>6, <2>1 DEF Submit
<1>7. CASE Lock(w)
  BY <1>2, <1>3, <1>4, <1>5, <1>7, Stutters DEF Lock
<1>8. CASE Check(w)
  <2>1. /\ writer'[w].patch = writer[w].patch
        /\ \A v \in Writers \ {w} : writer'[v] = writer[v]
    BY <1>0, <1>5, <1>8 DEF Check, Writes
  <2> QED
    BY <1>3, <1>8, <2>1, Stutters DEF Check
<1>9. CASE WriteSnapshot(w) \/ WritePointer(w) \/ WriteFails(w)
  BY <1>3, <1>5, <1>9, Stutters DEF WriteSnapshot, WritePointer, WriteFails
<1>10. CASE AppendEvent(w)
  <2> DEFINE new == writer[w].new
  <2>1. /\ writer[w].patch.base = current /\ LogTail = current
        /\ Len(new) = Len(current) + 1 /\ IsPrefix(current, new)
        /\ new \in Seq(Contents) /\ current \in Seq(Contents)
    BY <1>10 DEF AppendEvent, Inv, Before, TypeOK, Ids
  <2>2. LogTail' = new
    BY <1>10, LogAppended DEF Inv
  <2> HIDE DEF new
  <2>3. LogTail' = Append(LogTail, new[Len(new)]) /\ new[Len(new)] \in Contents
    BY <2>1, <2>2, OneMore
  <2>4. Bases[w] = LogTail
    BY <2>1 DEF Bases
  <2>5. Bases' = Bases
    BY <1>5, <1>10 DEF AppendEvent, Bases
  <2> QED
    BY <1>1, <2>3, <2>4, <2>5, Committed
<1>11. CASE Unlock(w) \/ Crash(w)
  BY <1>2, <1>4, <1>11 DEF Unlock, Crash
<1> QED
  BY <1>6, <1>7, <1>8, <1>9, <1>10, <1>11 DEF ApplyPatch

LEMMA ReaderRefines ==
  ASSUME Inv, NEW r \in Readers, ReadHead(r) \/ ReadChain(r)
  PROVE  [OneHistory!Next]_(OneHistory!vars)
<1>0. reader \in [Readers -> LooksAt] /\ UNCHANGED <<events, writer>>
  BY DEF Inv, TypeOK, LooksAt, ReadHead, ReadChain
<1>1. LogTail' = LogTail /\ Bases' = Bases
  BY <1>0 DEF LogTail, Bases
<1>3. CASE ReadHead(r)
  <2>1. /\ reader'[r].got = reader[r].got
        /\ \A q \in Readers \ {r} : reader'[q] = reader[q]
    <3>1. PICK want : reader' = [reader EXCEPT ![r].at = "chain", ![r].want = want, ![r].head = current]
      BY <1>3 DEF ReadHead
    <3> QED
      BY <1>0, <3>1 DEF LooksAt
  <2>2. Gots' = Gots /\ Wants' = [Wants EXCEPT ![r] = Wants'[r]]
    BY <2>1 DEF Gots, Wants
  <2> QED
    BY <1>1, <2>2, Asked
<1>4. CASE ReadChain(r)
  <2> DEFINE served == HeadIsTail(reader[r].head) /\ InLineage(Target(r))
  <2>1. /\ reader'[r].want = GENESIS
        /\ reader'[r].got = IF served THEN Target(r) ELSE reader[r].got
        /\ \A q \in Readers \ {r} : reader'[q] = reader[q]
    BY <1>0, <1>4 DEF ReadChain, LooksAt
  <2>2. Wants' = [Wants EXCEPT ![r] = GENESIS]
    BY <2>1 DEF Wants
  <2>3. CASE served
    <3>1. Target(r) = IF Wants[r] = GENESIS THEN LogTail ELSE Wants[r]
      BY <2>3 DEF HeadIsTail, Target, Wants
    <3>2. IsPrefix(Target(r), LogTail)
      BY <2>3 DEF InLineage, Inv, Lineage
    <3>3. Gots' = [Gots EXCEPT ![r] = Target(r)] /\ Gots'[r] = Target(r)
      BY <2>1, <2>3 DEF Gots
    <3> QED
      BY <1>1, <2>2, <3>1, <3>2, <3>3, Answered
  <2>4. CASE ~served
    <3>1. Gots' = Gots /\ Wants' = [Wants EXCEPT ![r] = Wants'[r]]
      BY <2>1, <2>4 DEF Gots, Wants
    <3> QED
      BY <1>1, <3>1, Asked
  <2> QED
    BY <2>3, <2>4
<1> QED
  BY <1>3, <1>4

(* What writers and readers of the directory do, crashes and failing writes at any  *)
(* point included, they could do to one history: no patch is applied over another   *)
(* that its author had not seen, and a reader who takes no lock gets the newest      *)
(* version of one instant (apply_patch, _load_live_snapshot).                        *)
THEOREM RegistryIsOneHistory == Spec => HistorySpec
<1>1. Init => OneHistory!Init
  <2> SUFFICES ASSUME Init PROVE OneHistory!Init
    OBVIOUS
  <2>1. LogTail = <<>>
    BY DEF Init, LogTail, GENESIS
  <2>2. /\ \A w \in Writers : writer[w].patch.base = <<>>
        /\ \A r \in Readers : reader[r].want = <<>> /\ reader[r].got = <<>>
    BY DEF Init, Idle, GENESIS
  <2> QED
    BY <2>1, <2>2 DEF OneHistory!Init, OneHistory!Newest
<1>2. Inv /\ [Next]_vars => [OneHistory!Next]_(OneHistory!vars)
  <2> SUFFICES ASSUME Inv, [Next]_vars PROVE [OneHistory!Next]_(OneHistory!vars)
    OBVIOUS
  <2>1. CASE UNCHANGED <<events, writer, reader>>
    <3>1. Stays
      BY <2>1 DEF Stays, LogTail, Bases, Wants, Gots
    <3> QED
      BY <3>1, Stutters
  <2> QED
    BY <2>1, WriterRefines, ReaderRefines DEF Next, RemoveLock, vars
<1> QED
  BY <1>1, <1>2, InvInductive, PTL DEF Spec, HistorySpec, OneHistory!Spec
=============================================================================
