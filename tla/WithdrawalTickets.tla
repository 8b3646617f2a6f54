---------------------------- MODULE WithdrawalTickets ----------------------------
(***************************************************************************)
(* What the vault promises to someone who exits: a ticket for a fixed      *)
(* amount and receiver.  Tickets become payable strictly in the order they *)
(* were issued, a payable ticket stays payable until it is paid, and it is *)
(* paid once.  `owed' and `reserved' tell the outside world what all       *)
(* unpaid tickets and the payable ones among them are worth.               *)
(* DLPVault implements this specification, see DLPVault!Tickets.           *)
(***************************************************************************)
EXTENDS Sums

CONSTANTS Holders, Batch   \* who may receive a ticket; how many become payable at once

VARIABLES tickets, owed, reserved

ticketVars == <<tickets, owed, reserved>>

Ticket == [assets : Nat, receiver : Holders, state : {"waiting", "payable", "paid"}]

Waiting == {i \in 1..Len(tickets) : tickets[i].state = "waiting"}

\* The first k waiting tickets; waiting tickets form a suffix of the sequence.
FirstWaiting(k) == {i \in Waiting : \A j \in 1..(i - k) : j \notin Waiting}

WorthOf(S) ==
    SumTo([i \in 1..Len(tickets) |-> IF i \in S THEN tickets[i].assets ELSE 0],
          Len(tickets))

TicketsInit == tickets = <<>> /\ owed = 0 /\ reserved = 0

\* k tickets become payable, then perhaps one more is issued.
Advance(k, issued) ==
    /\ k <= Batch
    /\ Len(issued) <= 1
    /\ tickets' = [i \in 1..Len(tickets) |->
                     IF i \in FirstWaiting(k) THEN [tickets[i] EXCEPT !.state = "payable"]
                     ELSE tickets[i]] \o issued
    /\ owed' = owed + (IF issued = <<>> THEN 0 ELSE issued[1].assets)
    /\ reserved' = reserved + WorthOf(FirstWaiting(k))

Pay(i) ==
    /\ tickets[i].state = "payable"
    /\ tickets' = [tickets EXCEPT ![i].state = "paid"]
    /\ owed' = owed - tickets[i].assets
    /\ reserved' = reserved - tickets[i].assets

\* The ticket issued by a step, if any, is the last one after it.
Issued == SubSeq(tickets', Len(tickets) + 1, Len(tickets'))

TicketsNext ==
    \/ \E k \in 0..Batch :
          /\ \A i \in 1..Len(Issued) : Issued[i] \in Ticket /\ Issued[i].state = "waiting"
          /\ Advance(k, Issued)
    \/ \E i \in 1..Len(tickets) : Pay(i)

TicketsSpec == TicketsInit /\ [][TicketsNext]_ticketVars
=================================================================================
