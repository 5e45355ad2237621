---------------------------- MODULE MCBanManager ----------------------------
(* Small instances of BanManager for TLC.                                  *)
EXTENDS BanManager, TLC

Policy(white, perm) == [white |-> white, perm |-> perm]

\* Temporary bans only, nobody whitelisted.
PlainPolicy == {Policy({}, FALSE)}

\* Temporary or permanent bans, or every IP whitelisted.
SomePolicies == {Policy({}, FALSE), Policy({}, TRUE), Policy(IPs, FALSE)}

Interchangeable == Permutations(Handlers)
=============================================================================
