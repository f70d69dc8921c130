------------------------------- MODULE Ballot -------------------------------
(***************************************************************************)
(* What governance promises, with no ledger, tokens or arithmetic: on each *)
(* motion a voter casts one weight, for one side, while its poll is open;  *)
(* the poll closes for good; only then is the motion decided, once, by a   *)
(* tally that can no longer change and the rule in force at that moment,   *)
(* whichever it was moved or voted under; and only an accepted motion is   *)
(* carried out.                                                            *)
(***************************************************************************)
EXTENDS Token

CONSTANTS
    Motion, Voter,
    Weight,             \* what a vote can weigh, all positive
    Rule,               \* the rules of decision there can be ...
    NoRule,             \* ... what there is before the first of them ...
    Accepts(_, _, _)    \* ... and whether one accepts so much of a total

VARIABLES
    phase,      \* "none", "voting", "accepted", "refused", "done", "withdrawn"
    closed,     \* motions whose poll is over
    cast,       \* weight each voter cast
    inFavour,   \* the part of it cast for the motion
    rule        \* the rule in force, for all motions

vars == <<phase, closed, cast, inFavour, rule>>

Init ==
    /\ phase = [m \in Motion |-> "none"]
    /\ closed = {}
    /\ cast = [m \in Motion |-> [v \in Voter |-> 0]]
    /\ inFavour = [m \in Motion |-> 0]
    /\ rule = NoRule

\* Another rule comes into force, for the motions that are open too.
Adopt ==
    /\ rule' \in Rule
    /\ UNCHANGED <<phase, closed, cast, inFavour>>

\* Motion m goes from phase before to phase after.
Moves(m, before, after) ==
    /\ phase[m] = before
    /\ phase' = [phase EXCEPT ![m] = after]
    /\ UNCHANGED <<closed, cast, inFavour, rule>>

\* Nothing is moved before there is a rule to decide it by.
Open(m) ==
    /\ rule \in Rule
    /\ Moves(m, "none", "voting")

Cast(m, v) ==
    /\ phase[m] = "voting" /\ m \notin closed
    /\ cast[m][v] = 0
    /\ \E weight \in Weight :
           /\ cast' = [cast EXCEPT ![m][v] = weight]
           /\ inFavour' \in {inFavour, [inFavour EXCEPT ![m] = @ + weight]}
    /\ UNCHANGED <<phase, closed, rule>>

\* Polls that were opened close, several at a time.
Close ==
    /\ closed \subseteq closed'
    /\ \A m \in closed' : phase[m] # "none"
    /\ UNCHANGED <<phase, cast, inFavour, rule>>

Decide(m) ==
    /\ m \in closed
    /\ rule \in Rule
    /\ Moves(m, "voting",
             IF Accepts(rule, inFavour[m], Total(cast[m])) THEN "accepted" ELSE "refused")

Next ==
    \/ Adopt
    \/ Close
    \/ \E m \in Motion :
           \/ Open(m)
           \/ \E v \in Voter : Cast(m, v)
           \/ Decide(m)
           \/ Moves(m, "voting", "withdrawn")
           \/ Moves(m, "accepted", "done")

Spec == Init /\ [][Next]_vars
=============================================================================
