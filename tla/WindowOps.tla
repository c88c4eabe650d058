----------------------------- MODULE WindowOps -----------------------------
(***************************************************************************)
(* The arithmetic of the sliding windows used by the Android client        *)
(* (network/SlidingWindow.java), the relay (javaServer/Server.java) and    *)
(* the robot (python/sliding_window.py).  A window is a list of            *)
(* WindowSize slots whose head carries the stamp of the oldest frame still *)
(* of interest; frame stamps are one byte counted modulo StampMod (128).   *)
(* A list is a function on Slots, so that w[i] is list.get(i).             *)
(***************************************************************************)
EXTENDS Integers, FiniteSets

CONSTANTS WindowSize,   \* slots of a window: 10 in Server.main
          StampMod      \* stamps are counted modulo 128

ASSUME WindowAssumption ==
  /\ WindowSize \in Nat \ {0}
  /\ StampMod \in Nat
  /\ 2 * WindowSize < StampMod

IDLE == 0           \* slot never used since the window moved over it
WAIT_FOR_RES == 1   \* sent, acknowledgement outstanding
END == 2            \* acknowledged (sender) or received (receiver)

Slots == 0 .. WindowSize - 1
Stamps == 0 .. StampMod - 1

(* The list a constructor fills with one value. *)
Fresh(v) == [i \in Slots |-> v]

(* haveIdle(): some slot can take a frame. *)
HaveIdle(w) == \E i \in Slots : w[i] = IDLE

(* The first idle slot, the one pktData() and send() use. *)
FirstIdle(w) ==
  CHOOSE i \in Slots : w[i] = IDLE /\ \A j \in Slots : w[j] = IDLE => i <= j

(* Mutant: counts every END slot, not only the leading run. *)
EndPrefixAnywhere(w) == Cardinality({i \in Slots : w[i] = END})

(* The length of the leading run of END slots, the `counter` of unpktData() *)
(* and recvATK().                                                          *)
EndPrefix(w) ==
  CHOOSE c \in 0 .. WindowSize :
    /\ \A i \in Slots : i < c => w[i] = END
    /\ c \in Slots => w[c] # END

(* c times: remove(0) followed by add(fill). *)
Slide(w, c, fill) ==
  [i \in Slots |-> IF i + c < WindowSize THEN w[i + c] ELSE fill]

(* (stamp + c) % 128; both branches of the Java code compute it. *)
Advance(stamp, c) == (stamp + c) % StampMod

(* Mutant: the stamps taken to wrap after the largest byte, one too early. *)
WrappedIndexShort(stamp, d) ==
  CASE (stamp + WindowSize) % StampMod < d /\ d < stamp -> -1
    [] stamp <= d -> d - stamp
    [] OTHER -> d + (StampMod - 1 - stamp)

(* The comparison both implementations make once they know that the window *)
(* wraps around the end of the stamp range ...                             *)
WrappedIndex(stamp, d) ==
  CASE (stamp + WindowSize) % StampMod < d /\ d < stamp -> -1
    [] stamp <= d -> d - stamp
    [] OTHER -> d + (StampMod - stamp)

(* Mutant: no lower border. *)
StraightIndexNoMin(stamp, d) ==
  IF stamp + WindowSize - 1 < d THEN -1 ELSE d - stamp

(* ... and the one they make when it does not. *)
StraightIndex(stamp, d) ==
  IF d < stamp - 1 \/ stamp + WindowSize - 1 < d THEN -1 ELSE d - stamp

(* confirmBorder() of the Java classes: the slot stamp d belongs to in the  *)
(* window that starts at `stamp', -1 when it belongs to none.  The wrap     *)
(* test is inclusive: a window that ends exactly at 127 takes the branch.   *)
ConfirmBorder(stamp, d) ==
  IF stamp + WindowSize > StampMod - 1
  THEN WrappedIndex(stamp, d)
  ELSE StraightIndex(stamp, d)

(* confirm_border() of the robot, whose wrap test is exact. *)
PyConfirmBorder(stamp, d) ==
  IF (stamp + WindowSize - 1) % StampMod < stamp
  THEN WrappedIndex(stamp, d)
  ELSE StraightIndex(stamp, d)
=============================================================================
