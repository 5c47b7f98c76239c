---------------------------- MODULE MCAccounts -----------------------------
(* Small instances of Accounts for TLC.                                    *)
EXTENDS Accounts, TLC

\* An operator adds a user with or without a password, with a provider that
\* agrees with the id it gives or does not.
Bodies ==
  LET Variant(passwords, provider, social, role, status) ==
        {[email |-> e, password |-> p, provider |-> provider, social |-> social,
          role |-> role, status |-> status] : e \in Email, p \in passwords}
      someone == CHOOSE g \in SocialId : TRUE
  IN UNION {Variant(Password, "email", None, "student", "inactive"),
            Variant({None}, "email", someone, "operator", "active"),
            Variant({None}, "social", someone, "student", "active")}

Symmetry == Permutations(Request) \cup Permutations(Email) \cup Permutations(Password)
=============================================================================
