-------------------------- MODULE GlossyPublication --------------------------
(***************************************************************************)
(* What the Glossy edition of a document promises its readers and editors, *)
(* whatever builds, rebuilds and single-visual regenerations run at once:  *)
(*                                                                         *)
(*   - builds hold the edition one at a time, in the order of their claims;*)
(*   - only the build that holds it publishes, so the published edition is *)
(*     never replaced by that of an older claim;                           *)
(*   - a regenerated visual is added to the content it was made for: none  *)
(*     is lost to another, and none lands while a build holds the edition. *)
(***************************************************************************)
EXTENDS Naturals

CONSTANT Visual     \* regenerations, by the visual each one replaces

VARIABLES
    claims,     \* the builds claimed so far are 1 .. claims
    current,    \* the build that holds the edition (0 for none)
    published,  \* the build the published content came from (0 for none)
    content     \* the regenerated visuals spliced into that content

Init ==
    /\ claims = 0 /\ current = 0 /\ published = 0 /\ content = {}

(* A build claims a free edition, or takes it over from a stuck holder. *)
Claim ==
    /\ claims' = claims + 1
    /\ current' = claims + 1
    /\ UNCHANGED <<published, content>>

Publish ==
    /\ current # 0
    /\ published' = current
    /\ current' = 0
    /\ content' = {}
    /\ UNCHANGED claims

Release ==
    /\ current # 0
    /\ current' = 0
    /\ UNCHANGED <<claims, published, content>>

Regenerate(v) ==
    /\ current = 0 /\ published # 0
    /\ content' = content \cup {v}
    /\ UNCHANGED <<claims, current, published>>

Next ==
    \/ Claim
    \/ Publish
    \/ Release
    \/ \E v \in Visual : Regenerate(v)

Spec == Init /\ [][Next]_<<claims, current, published, content>>
=============================================================================
