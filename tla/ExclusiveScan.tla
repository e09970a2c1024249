---------------------------- MODULE ExclusiveScan ----------------------------
(***************************************************************************)
(* What the static members of FileProperties, YaraHelper, TimingMetrics    *)
(* and CancellationHelper rely on, without the toggle, the form and the    *)
(* threads: scans use them one at a time, each scan once, in the order in  *)
(* which they were activated.                                              *)
(***************************************************************************)
EXTENDS Naturals

CONSTANT Scans   \* the identifiers of the scans, ordered by activation

VARIABLES
  using,   \* the scans that use the static members now
  used     \* the scans that have begun to use them

Init == using = {} /\ used = {}

Begin(s) ==
  /\ using = {}
  /\ \A t \in used : t < s
  /\ using' = {s}
  /\ used' = used \cup {s}

End(s) ==
  /\ using = {s}
  /\ using' = {}
  /\ UNCHANGED used

Next == \E s \in Scans : Begin(s) \/ End(s)

Spec == Init /\ [][Next]_<<using, used>>
=============================================================================
