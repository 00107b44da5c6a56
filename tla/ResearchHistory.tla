-------------------------- MODULE ResearchHistory --------------------------
(***************************************************************************)
(* What the research registry promises to those who write it and read it:  *)
(* one history of contents, to which a patch is added only on the version  *)
(* its author had seen, and of which a reader gets the newest version, or  *)
(* the one it asks for, as of one instant, or is refused.                  *)
(*                                                                         *)
(* A version is the history up to it.                                      *)
(***************************************************************************)
EXTENDS SequencesExt

CONSTANTS Writers, Readers, Contents

VARIABLES history,  \* the contents so far
          base,     \* the version each patch was written against
          asked,    \* the version each reader wants; Newest: whichever is the last
          got       \* the version each reader was given last

vars == <<history, base, asked, got>>

Newest == <<>>

Init ==
    /\ history = <<>>
    /\ base = [w \in Writers |-> <<>>]
    /\ asked = [r \in Readers |-> Newest]
    /\ got = [r \in Readers |-> <<>>]

Draft(w) ==
    /\ base' = [base EXCEPT ![w] = base'[w]]
    /\ IsPrefix(base'[w], history)
    /\ UNCHANGED <<history, asked, got>>

\* only one of the patches written against a version is ever added to it
Commit(w) ==
    /\ base[w] = history
    /\ \E c \in Contents : history' = Append(history, c)
    /\ UNCHANGED <<base, asked, got>>

Ask(r) ==
    /\ asked' = [asked EXCEPT ![r] = asked'[r]]
    /\ UNCHANGED <<history, base, got>>

Answer(r) ==
    /\ got' = [got EXCEPT ![r] = IF asked[r] = Newest THEN history ELSE asked[r]]
    /\ IsPrefix(got'[r], history)
    /\ asked' = [asked EXCEPT ![r] = Newest]
    /\ UNCHANGED <<history, base>>

Next == \/ \E w \in Writers : Draft(w) \/ Commit(w)
        \/ \E r \in Readers : Ask(r) \/ Answer(r)

Spec == Init /\ [][Next]_vars
=============================================================================
