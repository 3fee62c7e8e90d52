-------------------------------- MODULE Pipe --------------------------------
(***************************************************************************)
(* What a forwarded connection promises, one flow per direction of every   *)
(* channel: chunks come out once, in the order they went in, and nothing   *)
(* comes out of a flow that has ended.  A flow ends in one of three ways:  *)
(* complete, with nothing missing, when its reader takes the writer's      *)
(* close while it relays; unread, with nothing delivered at all, when the  *)
(* reader gives up before it relays (its target could not be connected, or *)
(* the close came first); broken, at any point, by a failed socket, a      *)
(* cancelled half or the end of the tunnel.                                *)
(***************************************************************************)
EXTENDS Naturals, Sequences

CONSTANT Flows

VARIABLES
  accepted,   \* how many chunks went into each flow: 1, 2, ... in order
  delivered,  \* the chunks that came out of it
  ending      \* open, or how the flow has ended for its reader

vars == <<accepted, delivered, ending>>

Init ==
  /\ accepted = [f \in Flows |-> 0]
  /\ delivered = [f \in Flows |-> <<>>]
  /\ ending = [f \in Flows |-> "open"]

(* The writer learns of the end of a flow later, if at all. *)
Accept(f) ==
  /\ ending[f] # "complete"
  /\ accepted' = [accepted EXCEPT ![f] = @ + 1]
  /\ UNCHANGED <<delivered, ending>>

Deliver(f) ==
  /\ ending[f] = "open" /\ Len(delivered[f]) < accepted[f]
  /\ delivered' = [delivered EXCEPT ![f] = Append(@, Len(@) + 1)]
  /\ UNCHANGED <<accepted, ending>>

End(f, how) ==
  /\ ending[f] = "open"
  /\ ending' = [ending EXCEPT ![f] = how]
  /\ UNCHANGED <<accepted, delivered>>

Complete(f) == Len(delivered[f]) = accepted[f] /\ End(f, "complete")
GiveUp(f) == delivered[f] = <<>> /\ End(f, "unread")
Break(f) == End(f, "broken")

Next == \E f \in Flows : Accept(f) \/ Deliver(f) \/ Complete(f) \/ GiveUp(f) \/ Break(f)

Spec == Init /\ [][Next]_vars
=============================================================================
