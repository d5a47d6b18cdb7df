---------------------------- MODULE PmCreateOnce ----------------------------
(***************************************************************************)
(* What the create claim promises about one Fabric row (a story, a bug):   *)
(* the PM tool is asked to create an item for it again only when every     *)
(* create asked for before was refused by the tool or given up by a user,  *)
(* and a create that was given up is never asked for again.  Nothing is    *)
(* said of how the row enforces it; PmCreateClaim is the protocol.         *)
(***************************************************************************)
CONSTANT Sender   \* the attempts to create the row's PM item

VARIABLES
    sent,         \* the attempts whose create was sent, and not refused
    givenUp       \* those a user has given up on (unlinked, relinked, cleared)

vars == <<sent, givenUp>>

Init == sent = {} /\ givenUp = {}

SendCreate(s) ==
    /\ s \notin sent \cup givenUp
    /\ sent \subseteq givenUp
    /\ sent' = sent \cup {s}
    /\ UNCHANGED givenUp

(* The PM tool refuses the create: there is no item, and will be none. *)
Refuse(s) ==
    /\ s \in sent
    /\ sent' = sent \ {s}
    /\ UNCHANGED givenUp

GiveUp(S) ==
    /\ S \subseteq sent
    /\ givenUp' = givenUp \cup S
    /\ UNCHANGED sent

Next ==
    \/ \E s \in Sender : SendCreate(s) \/ Refuse(s)
    \/ \E S \in SUBSET Sender : GiveUp(S)

Spec == Init /\ [][Next]_vars
=============================================================================
