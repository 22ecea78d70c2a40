----------------------------- MODULE Statements -----------------------------
(***************************************************************************)
(* Which statements are accepted, and for which publisher.                 *)
(*                                                                         *)
(* A statement is JSON that Jackson passes to the constructors of          *)
(* InTotoStatement, ResourceDescriptor, OakPredicate and Claim, each of    *)
(* which rejects what it does not like; what they throw, as what Jackson   *)
(* throws, is an invalid argument.  The publisher is then taken from the   *)
(* claims by JsonPublisherIdProvider.                                      *)
(*                                                                         *)
(* A statement is a record of what the constructors are given.  Texts are  *)
(* told apart only as far as a constructor does: an id or a list of roles  *)
(* that its pattern refuses is ILL_FORMED.                                 *)
(***************************************************************************)
EXTENDS Naturals, Sequences

CONSTANTS
    Publishers,             \* publisher ids, of the form <role>@<domain>
    ILL_FORMED              \* what a pattern refuses, and what is missing

ASSUME StatementsAssumption == ILL_FORMED \notin Publishers

\* OTHER are the types of claims PES does not know, whose annotations may be
\* anything.
Claims == [type : {"PUBLISHER", "OTHER"}, annotation : Publishers \cup {ILL_FORMED}]
          \cup [type : {"WORKLOAD", "OPERATOR_ROLES"}, annotation : {"id", ILL_FORMED}]

\* A document that cannot be read as a statement has json = FALSE.
Statements ==
    [json : BOOLEAN,
     type : {"v1", "other"},
     predicateType : {"v1", "other"},
     subject : Seq({"sha256", "unsupported", ILL_FORMED}),
     claims : Seq(Claims),
     notAfter : Nat \cup {ILL_FORMED}]

\* Exactly one resource, with a digest of a supported algorithm.
ResourceDescriptor(digest) == digest = "sha256"

\* Claims of the known types need their annotation, in its form.
Claim(claim) == claim.type = "OTHER" \/ claim.annotation # ILL_FORMED

\* Where the claims of a type are.
ClaimsOf(statement, type) ==
    {n \in DOMAIN statement.claims : statement.claims[n].type = type}

AtMostOne(places) == \A m, n \in places : m = n

OakPredicate(statement) ==
    /\ statement.claims # <<>>
    /\ \A n \in DOMAIN statement.claims : Claim(statement.claims[n])
    /\ AtMostOne(ClaimsOf(statement, "OPERATOR_ROLES"))

InTotoStatement(statement) ==
    /\ statement.type = "v1"
    /\ statement.predicateType = "v1"
    /\ Len(statement.subject) = 1
    /\ ResourceDescriptor(statement.subject[1])
    /\ OakPredicate(statement)


\* getValidPublisherId finds one publisher claim, no less and no more.
HasPublisherId(statement) ==
    /\ ClaimsOf(statement, "PUBLISHER") # {}
    /\ AtMostOne(ClaimsOf(statement, "PUBLISHER"))

getValidPublisherId(statement) ==
    statement.claims[CHOOSE n \in ClaimsOf(statement, "PUBLISHER") :
                        \A m \in ClaimsOf(statement, "PUBLISHER") : n <= m].annotation

\* The publishers a reader of the statement may take for its own.
Named(statement) ==
    {statement.claims[n].annotation : n \in ClaimsOf(statement, "PUBLISHER")}
=============================================================================
