--------------------------- MODULE ReportHistory ---------------------------
(***************************************************************************)
(* What an assessment report promises its readers and its tutor: a history *)
(* of versions, each written over the one before it by someone who had     *)
(* read that one, and none of them ever changed.                           *)
(***************************************************************************)
EXTENDS Sequences

CONSTANTS Texts, Unwritten

VARIABLE history   \* the versions, oldest first: what each says, and what it was written over

Latest == IF history = <<>> THEN Unwritten ELSE history[Len(history)].text

InitHistory == history = <<>>

WriteVersion(text) ==
    /\ text # Latest
    /\ history' = Append(history, [text |-> text, over |-> Latest])

NextHistory == \E text \in Texts : WriteVersion(text)

SpecHistory == InitHistory /\ [][NextHistory]_history
=============================================================================
