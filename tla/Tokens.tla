-------------------------------- MODULE Tokens --------------------------------
(***************************************************************************)
(* tokens.Service over its store.  A token's secret determines its hash    *)
(* and the hash its record, so an id stands for all three.  There is one   *)
(* scope, which every token has.  Each operation is one step of the store. *)
(***************************************************************************)
CONSTANT TokenIDs

VARIABLES tokens,    \* "none", "live" or "revoked"
          lastUsed   \* tokens with a LastUsedAt

tokenVars == <<tokens, lastUsed>>

TokensInit == tokens = [t \in TokenIDs |-> "none"] /\ lastUsed = {}

TokensTypeOK == tokens \in [TokenIDs -> {"none", "live", "revoked"}] /\ lastUsed \in SUBSET TokenIDs

\* The id and the secret are random: they are not those of another token.
CreateToken(t) ==
  /\ tokens[t] = "none"
  /\ tokens' = [tokens EXCEPT ![t] = "live"]
  /\ UNCHANGED lastUsed

\* What ValidateToken finds under the hash, and GetToken under the id.
Live(t) == tokens[t] = "live"

\* Mutant: the record read by ValidateToken is written back with its time.
MarkUsedWritesBack(t) ==
  /\ tokens' = [tokens EXCEPT ![t] = "live"]
  /\ lastUsed' = lastUsed \cup {t}

\* The end of ValidateToken; a token revoked since it was looked up stays so.
MarkUsed(t) ==
  /\ lastUsed' = IF Live(t) THEN lastUsed \cup {t} ELSE lastUsed
  /\ UNCHANGED tokens

RevokeToken(t) ==
  /\ tokens' = IF tokens[t] = "none" THEN tokens ELSE [tokens EXCEPT ![t] = "revoked"]
  /\ UNCHANGED lastUsed

===============================================================================
