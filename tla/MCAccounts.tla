----------------------------- MODULE MCAccounts -----------------------------
\* One seeded administrator, an address nobody has yet in two spellings, and
\* two primary keys for the accounts that may be created under it.
EXTENDS AdminPage, TLC

CONSTANTS ada, f1, f2

MCSpellings == {"ada", "new", "New"}
MCLower == [s \in MCSpellings |-> IF s = "New" THEN "new" ELSE s]
MCSeeded == [i \in Ids |-> IF i = ada THEN [email |-> "ada", admin |-> TRUE, active |-> TRUE]
                                      ELSE None]
MCSymmetry == Permutations(Slots) \cup Permutations({f1, f2})
=============================================================================
