-------------------------- MODULE MCCommunications --------------------------
(* Communications for TLC: what its constants stand for in the runs. *)
EXTENDS Communications, TLC

CONSTANTS full, partial, wrong, held   \* details: all a text prints, a blank in
                                       \* some, no international number, held back

\* Only the confirmed message needs the tutor and the Meet link, say.
EnoughForAll == [s \in MessageSteps |-> Details \ {partial}]
\* Every text has all it needs, whatever the details.
EnoughAlways == [s \in MessageSteps |-> Details]

\* Bookings are told apart by nothing but their identity.
BookingSymmetry == Permutations(Bookings)
\* For runs of the acknowledgement only, which no parent's answer reaches.
NoAnswers == \A b \in Bookings : ~booking[b].confirmed
\* For runs about moves, which no started booking makes.
NoStarts == NoAnswers /\ \A b \in Bookings : ~booking[b].started
=============================================================================
