----------------------------- MODULE MCHistory ------------------------------
(* Values for the sequences of History.                                       *)
EXTENDS History

MCSize == <<1, 2>>

\* The shortest that are Lasting.
MCKeeps == {<<4, 6>>}

\* One host is heard all the time, the other once.
MCBudget == <<6, 1>>

\* The retentions are as short as they may be.
ASSUME RetentionsLast == Lasting
=============================================================================
