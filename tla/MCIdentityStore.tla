-------------------------- MODULE MCIdentityStore --------------------------
(***************************************************************************)
(* Instances of IdentityStore for model checking: every two jobs, with a   *)
(* third request that saves nothing, and the triples of jobs that meet     *)
(* in one field of the document or in one name, role or challenge.         *)
(***************************************************************************)
EXTENDS IdentityStore

CONSTANTS r1, r2, r3

MCRequests == {r1, r2, r3}
Given(a, b, c) == [r \in MCRequests |-> IF r = r1 THEN a ELSE IF r = r2 THEN b ELSE c]

Pairs == {LET a == CHOOSE x \in js : TRUE
              b == CHOOSE x \in js : js = {a, x}
          IN Given(a, b, "reset password") : js \in {{a, b} : a, b \in Job}}
Names == {Given("register", "rename", c) : c \in {"register", "toggle lockout", "seed"}}
Lockouts == {Given("guess", "guess", c) : c \in {"guess", "sign in", "toggle lockout"}}
Roles == {Given("seed", "drop role", "seed")}
         \cup {Given("add role", "drop role", c) : c \in {"delete", "remove role"}}
Passkeys == {Given("enroll", "enroll", "passkey sign in"),
             Given("passkey sign in", "remove passkey", "enroll")}
Deletions == {Given("delete", b, "add claim") : b \in {"add claim", "redeem code"}}
MCJobs == UNION {Pairs, Names, Lockouts, Roles, Passkeys, Deletions}
=============================================================================
