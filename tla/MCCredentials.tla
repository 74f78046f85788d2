----------------------------- MODULE MCCredentials -----------------------------
(***************************************************************************)
(* An instance of CredentialStore: two hosts, an entry without user name,  *)
(* a protocol given as an empty string, and the patterns git and the       *)
(* remove command send.                                                    *)
(***************************************************************************)
EXTENDS CredentialStore, TLC

CONSTANTS https, h1, h2, u1, u2, s1, s2, s3, s4

Cred(protocol, host, username, password) ==
    [protocol |-> protocol, host |-> host, username |-> username, password |-> password]

SomeSaves ==
    {Cred(None, h1, u1, s1), Cred(https, h1, u2, s2), Cred(https, h1, None, s3),
     Cred(Blank, h2, u1, s4)}

SomeErasures ==
    {Cred(https, h1, u1, None), Cred(https, h1, None, None), Cred(None, h1, None, None)}

Symmetry == Permutations(Procs)
=============================================================================
