------------------------------ MODULE Registry ------------------------------
(***************************************************************************)
(* The admin-managed registries of the reputation contract                 *)
(* (contracts/reputation/src/{anchors,corridors,publishers}.rs).           *)
(*                                                                         *)
(* Each registry is stored twice: a persistent flag per member, which the  *)
(* write paths read, and a list in instance storage, which only the list   *)
(* views read.  A publisher may also carry a scope, the corridors it is    *)
(* limited to.                                                             *)
(*                                                                         *)
(* A Soroban invocation is one transaction: an Err or a trap rolls all of  *)
(* it back, so an operation is one step and a refused call is a stutter.   *)
(* The admin gate (require_admin) is in ContractCustody: the operations    *)
(* below are the ones that passed it.                                      *)
(***************************************************************************)
EXTENDS Naturals, Sequences

CONSTANTS
    Anchor,         \* anchor ids of an accepted length (1..64 characters)
    Corridor,       \* corridor ids
    Publisher,      \* addresses that may be whitelisted
    MaxAnchors,     \* MAX_ANCHORS, 200 in the code
    MaxPublishers   \* MAX_PUBLISHERS, 20 in the code

ASSUME RegistryAssumption ==
    /\ MaxAnchors \in Nat
    /\ MaxPublishers \in Nat

VARIABLES
    anchorTags,     \* AnchorTag flags
    anchorList,     \* Anchors, insertion order
    corridorTags,   \* CorridorTag flags
    corridorList,   \* Corridors, insertion order
    publisherFlags, \* Publisher flags
    publisherList,  \* Publishers, insertion order
    scope           \* PublisherScope entries; none means every corridor

anchorVars == <<anchorTags, anchorList>>
corridorVars == <<corridorTags, corridorList>>
publisherVars == <<publisherFlags, publisherList, scope>>
registryVars == <<anchorVars, corridorVars, publisherVars>>

RegistryTypeOK ==
    /\ anchorTags \in SUBSET Anchor
    /\ anchorList \in Seq(Anchor)
    /\ corridorTags \in SUBSET Corridor
    /\ corridorList \in Seq(Corridor)
    /\ publisherFlags \in SUBSET Publisher
    /\ publisherList \in Seq(Publisher)
    /\ DOMAIN scope \subseteq Publisher
    /\ scope \in [DOMAIN scope -> SUBSET Corridor]

RegistryInit ==
    /\ anchorTags = {}
    /\ anchorList = <<>>
    /\ corridorTags = {}
    /\ corridorList = <<>>
    /\ publisherFlags = {}
    /\ publisherList = <<>>
    /\ scope = <<>>

-----------------------------------------------------------------------------
(* Operations.                                                             *)

\* AnchorExists and LimitReached are the two refusals.
RegisterAnchor(a) ==
    /\ a \notin anchorTags
    /\ Len(anchorList) < MaxAnchors
    /\ anchorTags' = anchorTags \cup {a}
    /\ anchorList' = Append(anchorList, a)
    /\ UNCHANGED <<corridorVars, publisherVars>>

\* The corridor registry has no cap.
RegisterCorridor(c) ==
    /\ c \notin corridorTags
    /\ corridorTags' = corridorTags \cup {c}
    /\ corridorList' = Append(corridorList, c)
    /\ UNCHANGED <<anchorVars, publisherVars>>

AddPublisher(p) ==
    /\ p \notin publisherFlags
    /\ Len(publisherList) < MaxPublishers
    /\ publisherFlags' = publisherFlags \cup {p}
    /\ publisherList' = Append(publisherList, p)
    /\ UNCHANGED <<anchorVars, corridorVars, scope>>

\* The scope entries without p's, and with p's set to cs.
Unscoped(p) == [q \in DOMAIN scope \ {p} |-> scope[q]]
Scoped(p, cs) == [q \in DOMAIN scope \cup {p} |-> IF q = p THEN cs ELSE scope[q]]

\* The list without p, and a list that keeps it.
AllListed(p) == publisherList
ListedWithout(p) ==
    LET kept[i \in 0..Len(publisherList)] ==
            IF i = 0 THEN <<>>
            ELSE IF publisherList[i] = p THEN kept[i - 1]
            ELSE Append(kept[i - 1], publisherList[i])
    IN  kept[Len(publisherList)]

\* publishers::revoke drops the flag, the scope and the list entry together.
RevokePublisher(p) ==
    /\ p \in publisherFlags
    /\ publisherFlags' = publisherFlags \ {p}
    /\ scope' = Unscoped(p)
    /\ publisherList' = ListedWithout(p)
    /\ UNCHANGED <<anchorVars, corridorVars>>

SetPublisherScope(p, cs) ==
    /\ p \in publisherFlags
    /\ scope' = Scoped(p, cs)
    /\ UNCHANGED <<anchorVars, corridorVars, publisherFlags, publisherList>>

\* clear_publisher_scope does not ask whether p is whitelisted.
ClearPublisherScope(p) ==
    /\ scope' = Unscoped(p)
    /\ UNCHANGED <<anchorVars, corridorVars, publisherFlags, publisherList>>

RegistryNext ==
    \/ \E a \in Anchor : RegisterAnchor(a)
    \/ \E c \in Corridor : RegisterCorridor(c)
    \/ \E p \in Publisher : AddPublisher(p)
    \/ \E p \in Publisher : RevokePublisher(p)
    \/ \E p \in Publisher, cs \in SUBSET Corridor : SetPublisherScope(p, cs)
    \/ \E p \in Publisher : ClearPublisherScope(p)

-----------------------------------------------------------------------------
(* The gates of the publisher write paths.                                 *)

IsAuthorized(p) == p \in publisherFlags

InScope(p, c) == p \in DOMAIN scope => c \in scope[p]

MayWrite(p, c) == IsAuthorized(p) /\ InScope(p, c)

-----------------------------------------------------------------------------
(* Properties.                                                             *)

Listed(list, members) ==
    /\ \A i, j \in 1..Len(list) : list[i] = list[j] => i = j
    /\ {list[i] : i \in 1..Len(list)} = members

\* The list views (list_anchors, list_corridors, list_publishers) and the flags
\* the write paths read are separate entries in separate storage tiers.  They
\* stay the same set, without repetition, through every sequence of
\* registrations, revocations and re-additions.
ListsMirrorFlags ==
    /\ Listed(anchorList, anchorTags)
    /\ Listed(corridorList, corridorTags)
    /\ Listed(publisherList, publisherFlags)

\* "A revoked publisher must not keep a scope that a later re-add would
\* inherit": only a whitelisted publisher carries a scope, so a re-added one
\* starts unscoped, whatever was done to it before.
OnlyWhitelistedAreScoped == DOMAIN scope \subseteq publisherFlags
=============================================================================
