---------------------------- MODULE PublishedBackup ----------------------------
(***************************************************************************)
(* What the owner of a spreadsheet backup is promised: the spreadsheet     *)
(* shows nothing, or one complete snapshot of the workspace; a backup      *)
(* replaces what it shows in one step, and never leaves it empty again.    *)
(***************************************************************************)
CONSTANTS
    Snapshots,       \* the complete snapshots
    None             \* shown before the first backup

VARIABLE shown

Init == shown = None

Replace(snapshot) == snapshot # shown /\ shown' = snapshot

Next == \E snapshot \in Snapshots : Replace(snapshot)

Spec == Init /\ [][Next]_shown

=============================================================================
