----------------------------- MODULE StatusFeed -----------------------------
(***************************************************************************)
(* What the server-status processor promises its callers, with no ring     *)
(* buffer, no threads, no retries and no wake-ups: a bounded feed that     *)
(* keeps the newest points and delivers what it keeps in acceptance order. *)
(*                                                                         *)
(* A point is named by its acceptance number.  It is waiting, then claimed *)
(* by the batch being delivered, then delivered; or it is lost, because    *)
(* the feed overflowed, because every delivery attempt of its batch failed *)
(* or because the feed was cut off.  Nothing is ever delivered twice and   *)
(* nothing overtakes.                                                      *)
(***************************************************************************)
EXTENDS Naturals, Sequences

CONSTANTS QueueSize,   \* points that may wait
          BatchSize    \* points one delivery may claim

VARIABLES open,        \* new points are accepted
          accepted,    \* how many points were accepted so far
          waiting,     \* accepted, not yet claimed, oldest first
          claimed,     \* the batch being assembled or delivered
          delivered    \* everything acknowledged, in order

feed == <<open, accepted, waiting, claimed, delivered>>

Init == /\ open = TRUE
        /\ accepted = 0
        /\ waiting = <<>>
        /\ claimed = <<>>
        /\ delivered = <<>>

(* Acceptance never blocks and never fails while open: a full feed gives   *)
(* up its oldest waiting point.                                            *)
Accept == /\ open
          /\ accepted' = accepted + 1
          /\ waiting' = Append(IF Len(waiting) = QueueSize THEN Tail(waiting) ELSE waiting,
                               accepted + 1)
          /\ UNCHANGED <<open, claimed, delivered>>

Claim == \E n \in 1..Len(waiting) :
            /\ Len(claimed) + n <= BatchSize
            /\ claimed' = claimed \o SubSeq(waiting, 1, n)
            /\ waiting' = SubSeq(waiting, n + 1, Len(waiting))
            /\ UNCHANGED <<open, accepted, delivered>>

(* The store acknowledges the batch; the points stay claimed until the     *)
(* feed has taken note.                                                    *)
Deliver == /\ claimed # <<>>
           /\ delivered' = delivered \o claimed
           /\ claimed' = <<>>
           /\ UNCHANGED <<open, accepted, waiting>>

GiveUp == /\ claimed # <<>>
          /\ claimed' = <<>>
          /\ UNCHANGED <<open, accepted, waiting, delivered>>

Close == /\ open
         /\ open' = FALSE
         /\ UNCHANGED <<accepted, waiting, claimed, delivered>>

(* Only a closed feed is cut off, and then everything it holds is lost.    *)
CutOff == /\ ~open
          /\ waiting' = <<>>
          /\ claimed' = <<>>
          /\ UNCHANGED <<open, accepted, delivered>>

Next == Accept \/ Claim \/ Deliver \/ GiveUp \/ Close \/ CutOff

Spec == Init /\ [][Next]_feed
=============================================================================
