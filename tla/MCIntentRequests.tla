-------------------------- MODULE MCIntentRequests --------------------------
(***************************************************************************)
(* IntentRequests with one signed intent posted through both routes, under *)
(* one nonce, and two bodies that are refused; two instances.              *)
(***************************************************************************)
EXTENDS IntentRequests, TLC

CONSTANTS n1

Posted(route, keyed, attestation, deadline) ==
    [route |-> route, keyed |-> keyed, attestation |-> attestation,
     nonce |-> n1, deadline |-> deadline]

Signed == Posted("internal", TRUE, "verified", 2)
SignedV1 == Posted("v1", FALSE, "verified", 1)
UnsignedV1 == Posted("v1", TRUE, "none", 1)
Malformed == Posted("internal", TRUE, "malformed", 1)
Refused == Posted("internal", TRUE, "refused", 1)

MCSubmission == {Signed, SignedV1, UnsignedV1, Malformed, Refused}

\* Three posts of a signed intent, two of an unsigned one, two of one nonce under two
\* deadlines, and the refused ones.
MCLoad ==
    ({Signed} :> 3) @@ ({UnsignedV1} :> 2) @@ ({Signed, SignedV1} :> 2)
    @@ ({SignedV1} :> 2) @@ ({Malformed} :> 2) @@ ({Refused} :> 1)

\* For the limiter alone: requests it counts, refused as soon as they are parsed.
LimiterSubmission == {Posted("internal", FALSE, "malformed", 1)}
LimiterLoad == LimiterSubmission :> 4

Symmetry == Permutations(Request) \cup Permutations(Instance)
=============================================================================
