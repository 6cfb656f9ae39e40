----------------------------- MODULE Delivery -----------------------------
(***************************************************************************)
(* What the delivery of letters by a carrier promises, whose answers may   *)
(* be lost: a letter is written as often as one likes until it is sent; a  *)
(* carrier takes it once at most; it is sent again only when the carrier   *)
(* truly refused it; it counts as accepted only when the carrier truly     *)
(* took it; and then it only gets further, or comes back, for good.        *)
(* Each letter goes its way whatever becomes of the others.                *)
(***************************************************************************)
EXTENDS Naturals

CONSTANTS Letters, Unwritten

VARIABLES
  phase,   \* phase[l]: what the writer makes of letter l
  text,    \* text[l]: what it says
  taken    \* taken[l]: how often the carrier has taken it

letterVars == <<phase, text, taken>>

Further == {<<"QUEUED", "SENT">>, <<"QUEUED", "DELIVERED">>, <<"QUEUED", "READ">>,
            <<"SENT", "DELIVERED">>, <<"SENT", "READ">>, <<"DELIVERED", "READ">>}

InitDelivery ==
  /\ phase = [l \in Letters |-> "UNSENT"]
  /\ text = [l \in Letters |-> Unwritten]
  /\ taken = [l \in Letters |-> 0]

Stays(l) == phase'[l] = phase[l] /\ text'[l] = text[l] /\ taken'[l] = taken[l]

\* Written, written anew or called off, as long as nobody sends it.
Write(l) == phase[l] = "UNSENT" /\ phase'[l] = "UNSENT" /\ taken'[l] = taken[l]

\* Sent as it reads now, when the carrier has it not.
Send(l) ==
  /\ phase[l] = "UNSENT" /\ taken[l] = 0
  /\ phase'[l] = "SENDING" /\ taken'[l] = 0

\* The carrier may take it later than its answer is waited for.
Take(l) ==
  /\ phase[l] \in {"SENDING", "UNSURE"} /\ taken[l] = 0
  /\ taken'[l] = 1
  /\ phase'[l] = phase[l] /\ text'[l] = text[l]

\* phase[l] becomes p, and nothing else of it changes.
Becomes(l, p) == phase'[l] = p /\ text'[l] = text[l] /\ taken'[l] = taken[l]

Refused(l) == phase[l] = "SENDING" /\ taken[l] = 0 /\ Becomes(l, "UNSENT")

AnswerLost(l) == phase[l] = "SENDING" /\ Becomes(l, "UNSURE")

Accepted(l) ==
  /\ phase[l] \in {"SENDING", "UNSURE"} /\ taken[l] = 1
  /\ \E p \in {"QUEUED", "SENT"} : Becomes(l, p)

GetsOn(l) == \E p \in {"SENT", "DELIVERED", "READ"} : <<phase[l], p>> \in Further /\ Becomes(l, p)

ComesBack(l) == phase[l] \in {"QUEUED", "SENT"} /\ Becomes(l, "UNDELIVERED")

NextOf(l) ==
  \/ Write(l) \/ Send(l) \/ Take(l)
  \/ Refused(l) \/ AnswerLost(l) \/ Accepted(l)
  \/ GetsOn(l) \/ ComesBack(l)

NextDelivery == \A l \in Letters : Stays(l) \/ NextOf(l)

SpecDelivery == InitDelivery /\ [][NextDelivery]_letterVars
=============================================================================
