------------------------------- MODULE Scope -------------------------------
(***************************************************************************)
(* Execution scopes and what a pipeline requires of them.                  *)
(*                                                                         *)
(* A fact is the set of contract types its dynamic type satisfies: one for *)
(* a concrete value, several when it also implements interfaces, none for  *)
(* an untyped nil.  A scope gives each key a fact or nothing.  Of a list   *)
(* of requirements only membership matters to the outcome of a check, so   *)
(* a list is the set of its members.                                       *)
(***************************************************************************)
EXTENDS Reports

CONSTANTS Keys, Types

NoKey == ""
NameOnly == ""

ScopeRequirement == [key : Keys \cup {NoKey}, type : Types \cup {NameOnly}]

ScopeOutcomes == {"ok", "incomplete", "incompatible"}

\* The dynamic type assertion of ScopeKey.Lookup; a name asks for presence only.
accepts(req, fact) == req.type = NameOnly \/ req.type \in fact

\* An incompatible fact is reported even when another one is missing.
checkScopeRequirements(scope, requirements) ==
    LET checked == {req \in requirements : req.key # NoKey}
    IN  IF \E req \in checked : scope[req.key] # <<>> /\ ~accepts(req, scope[req.key][1])
        THEN "incompatible"
        ELSE IF \E req \in checked : scope[req.key] = <<>> THEN "incomplete"
        ELSE "ok"

\* Mutant: one requirement per key survives, the first one's.
mergeFirstPerKey(existing, new) ==
    IF new = {} THEN existing
    ELSE existing \cup {req \in new : \A e \in existing : e.key # req.key}

\* A name-only requirement gives way to a typed one of the same key.
mergeScopeRequirements(existing, new) ==
    IF new = {} THEN existing
    ELSE LET out == {req \in existing \cup new : req.key # NoKey}
         IN  {req \in out : req.type = NameOnly =>
                               \A o \in out : o.key = req.key => o.type = NameOnly}
=============================================================================
