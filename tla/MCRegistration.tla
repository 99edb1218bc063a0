--------------------------- MODULE MCRegistration ---------------------------
(* Who publishes what in the instances of Registration. *)
EXTENDS Registration

\* One service, published by everybody: a migration, or a race.
AllGit == [h \in Holder |-> "git"]

=============================================================================
