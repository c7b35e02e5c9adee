--------------------------- MODULE ReleasePrefix ---------------------------
(* What one immutable release prefix of the object store promises to the    *)
(* jobs that read it: objects appear, the terminal marker makes them a       *)
(* release, and a release whose publisher has returned never changes.  A     *)
(* release that is visible but whose publisher is still reading it back may  *)
(* yet be withdrawn.  Only writers that create every object conditionally    *)
(* ("exclusive") get the last promise; writers that merely probe the prefix  *)
(* may overwrite one another.                                                *)

CONSTANTS Releases,      \* the releases somebody may publish here
          NoRelease      \* the value of release while none is visible

VARIABLES phase,         \* "empty", "partial", "visible" or "final"
          release,       \* the release that is visible or final
          exclusive      \* every writer of the prefix creates conditionally

vars == <<phase, release, exclusive>>

Init ==
    /\ phase = "empty"
    /\ release = NoRelease
    /\ exclusive \in BOOLEAN

\* Objects of some release appear, change or are rolled back.
Stage ==
    /\ phase \in {"empty", "partial"}
    /\ phase' \in {"empty", "partial"}
    /\ UNCHANGED <<release, exclusive>>

\* The terminal marker completes a release.
Expose(r) ==
    /\ phase = "partial"
    /\ phase' = "visible"
    /\ release' = r
    /\ UNCHANGED exclusive

\* The read-back of the marker fails and the publisher rolls back.
Withdraw ==
    /\ phase = "visible"
    /\ phase' = "partial"
    /\ release' = NoRelease
    /\ UNCHANGED exclusive

\* The publisher has read everything back and returns its evidence.
Seal ==
    /\ phase = "visible"
    /\ phase' = "final"
    /\ UNCHANGED <<release, exclusive>>

\* Without conditional creation a second writer may damage what is there, or
\* put the last missing object of its own release.
Clobber ==
    /\ ~exclusive
    /\ phase' \in {"empty", "partial", "visible", "final"}
    /\ release' \in IF phase' \in {"empty", "partial"} THEN {NoRelease} ELSE Releases
    /\ UNCHANGED exclusive

Next ==
    \/ Stage
    \/ \E r \in Releases : Expose(r)
    \/ Withdraw
    \/ Seal
    \/ Clobber

Spec == Init /\ [][Next]_vars

=============================================================================
