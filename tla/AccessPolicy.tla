----------------------------- MODULE AccessPolicy -----------------------------
(***************************************************************************)
(* The records of access policies: how a request makes one, changes one,   *)
(* and what meets one.  A secret is a user name with a password, a bearer  *)
(* token or an address; a request gives all of it or none.                 *)
(***************************************************************************)
CONSTANTS ReservationIDs,
          Modes,             \* those that requests ask for
          Secrets, None

\* A hash is its scheme and what was hashed.
HashPassword(s) == [scheme |-> "argon2id", of |-> s]
HashSecret(s) == [scheme |-> "sha256", of |-> s]
NormalizeIPAllowlist(s) == [scheme |-> "allowlist", of |-> s]

Protect(mode, s) == CASE mode = "basic_auth" -> HashPassword(s)
                      [] mode = "bearer_token" -> HashSecret(s)
                      [] mode = "ip_allowlist" -> NormalizeIPAllowlist(s)

Hashes == [scheme : {"argon2id", "sha256", "allowlist"}, of : Secrets]
PolicyRecord == [key : ReservationIDs, mode : Modes, hash : Hashes \cup {None}]

\* Passwords stored before Argon2id came in have the scheme of bearer tokens.
LegacyRecord(r, s) == [key |-> r, mode |-> "basic_auth", hash |-> HashSecret(s)]

\* A request without the secret its mode needs is refused (None).
newPolicyRecord(r, mode, s) ==
  IF mode = "public" THEN [key |-> r, mode |-> mode, hash |-> None]
  ELSE IF s = None THEN None
  ELSE [key |-> r, mode |-> mode, hash |-> Protect(mode, s)]

\* The mode and, while the mode stays, the secret may be left out.
updatedPolicyRecord(existing, mode, s) ==
  LET m == IF mode = None THEN existing.mode ELSE mode IN
  IF m = existing.mode /\ s = None THEN existing
  ELSE newPolicyRecord(existing.key, m, s)

\* basicAuthMatches, secretHashEqual, ipAllowed.
Matches(record, cred) == record.mode = "public" \/ record.hash.of = cred

\* A legacy hash is replaced once it has matched.
NeedsUpgrade(record) == record.mode = "basic_auth" /\ record.hash.scheme = "sha256"

Upgraded(record, cred) == [record EXCEPT !.hash = HashPassword(cred)]

===============================================================================
