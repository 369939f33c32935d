-------------------------------- MODULE Claims --------------------------------
(***************************************************************************)
(* What the repository's documents, comments and schema say of the program *)
(* and its code does not keep.  Every formula here is refuted by a run of  *)
(* its own; the README tells each counterexample.                          *)
(***************************************************************************)
EXTENDS Tallyflow

Counted(i) == IsSpend(rows[i])
SameKey(i, j) == /\ NormNum(rows[i].number) # None /\ NormNum(rows[j].number) # None
                 /\ Key(rows[i]) = Key(rows[j])

\* "Same vendor + invoice number -> linked, not double-counted" (README.md:101):
\* no two rows of one number both count.
NeverCountedTwice ==
    \A i, j \in Stored : SameKey(i, j) /\ Counted(i) /\ Counted(j) => i = j

\* "Replay a dead-lettered document from its stored payload" (retry.py:95): a replay
\* that reaches the INSERT fails only because the document is stored already or a row
\* it refers to is gone.
ReplayCanStore ==
    \A w \in Workers :
        /\ job[w].pc = "save" /\ job[w].source = "retry" /\ ~HashStored(job[w].doc)
        /\ {job[w].row.supersedes, job[w].row.creditOf} \subseteq Stored \cup {None}
        => Insertable(job[w].row, job[w].source)
=============================================================================
