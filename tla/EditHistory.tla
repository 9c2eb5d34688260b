---------------------------- MODULE EditHistory ----------------------------
(***************************************************************************)
(* What undo and redo promise, without the two stacks: a timeline of route *)
(* contents and a cursor on the one being edited.  A committed edit drops  *)
(* the future and appends; undo and redo only move the cursor; a preview   *)
(* or a routed leg changes the current content in place.  At most          *)
(* HistoryLimit contents lie before the cursor, and no redo is ever lost.  *)
(***************************************************************************)
EXTENDS Integers, Sequences

CONSTANTS HistoryLimit, FirstContent

VARIABLES timeline, cursor

vars == << timeline, cursor >>

Init == timeline = << FirstContent >> /\ cursor = 1

(* The new content is whatever the last entry of timeline' holds.         *)
Commit ==
    LET past == SubSeq(timeline, IF cursor > HistoryLimit THEN 2 ELSE 1, cursor)
    IN  /\ cursor' = Len(past) + 1
        /\ Len(timeline') = Len(past) + 1
        /\ timeline' = Append(past, timeline'[Len(past) + 1])

Replace ==
    /\ cursor' = cursor
    /\ Len(timeline') = Len(timeline)
    /\ \A i \in 1..Len(timeline) : i # cursor => timeline'[i] = timeline[i]

Undo == cursor > 1 /\ cursor' = cursor - 1 /\ timeline' = timeline

Redo == cursor < Len(timeline) /\ cursor' = cursor + 1 /\ timeline' = timeline

Next == Commit \/ Replace \/ Undo \/ Redo

Spec == Init /\ [][Next]_vars

=============================================================================
