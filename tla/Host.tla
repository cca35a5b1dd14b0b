---- MODULE Host ----
(* What the Soroban host gives every contract: the ledger timestamp,       *)
(* env.ledger().timestamp(), which stands still during a call and may move *)
(* on between two calls, and storage, a partial function from keys.        *)
EXTENDS Naturals

VARIABLE now    \* seconds, as the calls of the current ledger read them

\* The next ledger closes. Runs stop the clock at an upper limit.
CloseLedger(limit) == now' = now + 1 /\ now + 1 <= limit

\* storage().get(..).unwrap_or(..), set and remove.
NothingStored == [key \in {} |-> 0]
stored(f, key, otherwise) == IF key \in DOMAIN f THEN f[key] ELSE otherwise
put(f, key, value) == [k \in DOMAIN f \cup {key} |-> IF k = key THEN value ELSE f[k]]
del(f, key) == [k \in DOMAIN f \ {key} |-> f[k]]
====
