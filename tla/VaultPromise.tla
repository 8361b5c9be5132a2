---------------------------- MODULE VaultPromise ----------------------------
(***************************************************************************)
(* What a token vault promises its users: a token, once given for an       *)
(* original in a namespace, is that pair's for ever and nobody else's, and *)
(* stands for the original.                                                *)
(***************************************************************************)
CONSTANTS Spaces, Tokens

VARIABLES
    given,    \* the token of each <<space, original>> stored so far
    meaning   \* the original of each token given so far

Init == given = <<>> /\ meaning = <<>>

Give(key, token) ==
    /\ token \in Tokens
    /\ \A other \in DOMAIN given : given[other] # token
    /\ given' = [k \in DOMAIN given \cup {key} |-> IF k = key THEN token ELSE given[k]]
    /\ meaning' = [t \in DOMAIN meaning \cup {token} |->
                      IF t = token THEN key[2] ELSE meaning[t]]

Next ==
    \E key \in DOMAIN given' \ DOMAIN given : key[1] \in Spaces /\ Give(key, given'[key])

Spec == Init /\ [][Next]_<<given, meaning>>
=============================================================================
