--------------------------- MODULE FrameDelivery ---------------------------
(***************************************************************************)
(* What one hop of the video path promises between two resets, without     *)
(* stamps, windows or datagrams.  Frames are numbered in the order         *)
(* pktData() accepts them.  A frame is handed to the receiving side at     *)
(* most once, in any order inside the window, and the sender forgets a     *)
(* frame only after it has been handed over.                               *)
(***************************************************************************)
EXTENDS Integers, Sequences

CONSTANTS WindowSize,   \* frames the sender may have outstanding
          MaxFrame      \* frames offered in the life of the hop

VARIABLES produced,     \* frames accepted from the encoder so far
          base,         \* frames the sender has forgotten
          delivered,    \* frames handed to the receiving side
          buffer        \* handed over and not yet taken by the decoder

vars == <<produced, base, delivered, buffer>>

Init ==
  /\ produced = 0
  /\ base = 0
  /\ delivered = {}
  /\ buffer = <<>>

(* The encoder hands over a frame while the window has room. *)
Offer ==
  /\ produced < MaxFrame
  /\ produced < base + WindowSize
  /\ produced' = produced + 1
  /\ UNCHANGED <<base, delivered, buffer>>

(* A frame reaches the receiving side, never for the second time. *)
Deliver ==
  \E n \in (0 .. produced - 1) \ delivered :
    /\ delivered' = delivered \cup {n}
    /\ buffer' = Append(buffer, n)
    /\ UNCHANGED <<produced, base>>

(* The sender forgets its oldest frames, all of them delivered. *)
Release ==
  \E b \in base + 1 .. produced :
    /\ \A n \in base .. b - 1 : n \in delivered
    /\ base' = b
    /\ UNCHANGED <<produced, delivered, buffer>>

(* The decoder takes the oldest buffered frame. *)
Take ==
  /\ buffer # <<>>
  /\ buffer' = Tail(buffer)
  /\ UNCHANGED <<produced, base, delivered>>

Next == Offer \/ Deliver \/ Release \/ Take

Spec == Init /\ [][Next]_vars
=============================================================================
