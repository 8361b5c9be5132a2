----------------------------- MODULE TokenVault -----------------------------
(***************************************************************************)
(* The in-memory token vault.  Store and Restore hold the vault's lock     *)
(* throughout, so each is one step.  A token is its namespace and its      *)
(* number; namespaces are normalized, several to the same one.             *)
(***************************************************************************)
EXTENDS Naturals

CONSTANTS
    Namespaces,   \* namespaces as callers write them
    Normalized    \* the canonical namespace of each

Spaces == {Normalized[ns] : ns \in Namespaces}

ASSUME NormalizedAssumption == DOMAIN Normalized = Namespaces

Token == Spaces \X (Nat \ {0})

VARIABLES nextByNS, pairs, restores

vaultVars == <<nextByNS, pairs, restores>>

normalizeNamespace(namespace) == Normalized[namespace]

VaultInit ==
    /\ nextByNS = [s \in Spaces |-> 0]
    /\ pairs = <<>>
    /\ restores = <<>>

Key(namespace, original) == <<normalizeNamespace(namespace), original>>

\* The token that Store answers.
TokenOf(namespace, original) ==
    IF Key(namespace, original) \in DOMAIN pairs THEN pairs[Key(namespace, original)]
    ELSE <<normalizeNamespace(namespace), nextByNS[normalizeNamespace(namespace)] + 1>>

\* Mutant: a pair that is stored already gets a new token.
StoreAlwaysIssues(namespace, original) ==
    LET token == <<normalizeNamespace(namespace),
                   nextByNS[normalizeNamespace(namespace)] + 1>>
        key   == Key(namespace, original)
    IN  /\ nextByNS' = [nextByNS EXCEPT ![token[1]] = token[2]]
        /\ pairs' = [k \in DOMAIN pairs \cup {key} |-> IF k = key THEN token ELSE pairs[k]]
        /\ restores' = [t \in DOMAIN restores \cup {token} |->
                          IF t = token THEN original ELSE restores[t]]

Store(namespace, original) ==
    LET token == TokenOf(namespace, original)
        key   == Key(namespace, original)
    IN  IF key \in DOMAIN pairs THEN UNCHANGED vaultVars
        ELSE /\ nextByNS' = [nextByNS EXCEPT ![token[1]] = token[2]]
             /\ pairs' = [k \in DOMAIN pairs \cup {key} |->
                            IF k = key THEN token ELSE pairs[k]]
             /\ restores' = [t \in DOMAIN restores \cup {token} |->
                               IF t = token THEN original ELSE restores[t]]

Restore(token) == IF token \in DOMAIN restores THEN <<restores[token]>> ELSE <<>>

-----------------------------------------------------------------------------

Promise == INSTANCE VaultPromise WITH
    Tokens <- Token, given <- pairs, meaning <- restores

(* Whatever is stored concurrently, a token never changes hands and always *)
(* restores what it was given for.                                         *)
KeepsVaultPromise == Promise!Spec
=============================================================================
