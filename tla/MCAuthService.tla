----------------------------- MODULE MCAuthService -----------------------------
(***************************************************************************)
(* Two goroutines and two spellings of one mailbox, one of the address of  *)
(* a seed row, and one that is malformed; two good passwords, a blank one  *)
(* and one that is too long.  A token lives for one tick.                  *)
(***************************************************************************)
EXTENDS AuthService, TLC

Symmetry == Permutations(Procs) \cup Permutations(UserIDs)

MCSeedEmail == AdminSeed :> "admin" @@ UserSeed :> "user"
MCSpellings == {"ann", "Ann", "admin", "user", "@"}
MCNormal == [e \in MCSpellings |-> IF e = "Ann" THEN "ann" ELSE e]
MCPasswords == {"good", "better", "blank", "long"}
MCDigest == [pw \in MCPasswords |-> pw]

Sent(e, pw) == [email |-> e, password |-> pw]

MCCredentials ==
  { Sent("ann", "good"), Sent("Ann", "good"), Sent("Ann", "better"),
    Sent("user", "long"), Sent("@", "blank") }

=============================================================================
