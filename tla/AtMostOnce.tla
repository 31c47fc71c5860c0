------------------------------- MODULE AtMostOnce -------------------------------
(***************************************************************************)
(* What the claim protocol promises each device about each order: the order *)
(* is offered, at most one grant follows, at most one swap follows a grant, *)
(* and once the offer, the grant or the swap is over nothing comes after.   *)
(***************************************************************************)
CONSTANTS Devices, Orders

VARIABLE stage    \* stage[<<d, o>>]: order o as far as device d is concerned

Stages == {"unborn", "open", "granted", "swapped", "closed"}
Pairs  == Devices \X Orders

Init == stage = [p \in Pairs |-> "unborn"]

Put(P, s) == stage' = [p \in Pairs |-> IF p \in P THEN s ELSE stage[p]]

\* A transaction commits the orders it queued: every device may take them.
Offer == \E O \in SUBSET Orders :
  /\ \A p \in Devices \X O : stage[p] = "unborn"
  /\ Put(Devices \X O, "open")

\* One device wins an order, and the offer ends for some of the others.
Grant == \E d \in Devices, o \in Orders :
  \E L \in SUBSET {p \in Pairs : p[2] = o /\ p[1] # d /\ stage[p] = "open"} :
    /\ stage[<<d, o>>] = "open"
    /\ stage' = [p \in Pairs |-> IF p = <<d, o>> THEN "granted"
                                 ELSE IF p \in L THEN "closed" ELSE stage[p]]

Swap == \E p \in Pairs : stage[p] = "granted" /\ Put({p}, "swapped")

\* Offers are withdrawn, or a grant is given up or lost.
Close == \E P \in SUBSET Pairs :
  /\ \A p \in P : stage[p] \in {"open", "granted"}
  /\ Put(P, "closed")

Next == Offer \/ Grant \/ Swap \/ Close

Spec == Init /\ [][Next]_stage
=============================================================================
