--------------------------- MODULE LogicalChannels ---------------------------
(***************************************************************************)
(* What the private Gateway transport promises to the RPC layer: every     *)
(* logical connection is, in each direction, a FIFO channel without loss   *)
(* in the middle, duplication or cross-talk, until an end is over.         *)
(*                                                                         *)
(* The k-th payload sent on a connection is the number k, so a receiver    *)
(* that has <<1, ..., n>> has exactly the first n payloads, in order.      *)
(***************************************************************************)
EXTENDS Naturals, Sequences

CONSTANTS
    Links   \* the directed channels: a connection has one in each direction

VARIABLES
    sent,   \* how many payloads were sent on each link
    got,    \* the payloads the receiver of each link has
    over    \* links whose receiver is closed

Init == /\ sent = [l \in Links |-> 0]
        /\ got = [l \in Links |-> <<>>]
        /\ over = {}

Send(l) == /\ sent' = [sent EXCEPT ![l] = @ + 1]
           /\ UNCHANGED <<got, over>>

Deliver(l) == /\ l \notin over
              /\ Len(got[l]) < sent[l]
              /\ got' = [got EXCEPT ![l] = Append(@, Len(@) + 1)]
              /\ UNCHANGED <<sent, over>>

\* The connection may end at any time and for several links at once.
End == /\ \E gone \in SUBSET Links : over' = over \cup gone
       /\ UNCHANGED <<sent, got>>

Next == \/ \E l \in Links : Send(l) \/ Deliver(l)
        \/ End

Spec == Init /\ [][Next]_<<sent, got, over>>
=============================================================================
