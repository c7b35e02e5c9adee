----------------------------- MODULE MCServices -----------------------------
(***************************************************************************)
(* Services of the FastAPI process that share no state, side by side: a    *)
(* behaviour is one of the tournament service or one of the archive, so    *)
(* their state spaces add up instead of multiplying.                       *)
(***************************************************************************)
EXTENDS DetectorTournament, EvidenceArchive

VARIABLE scene

allVars == <<vars, evVars, scene>>

ServicesInit == Init /\ EvInit /\ scene \in {"tournament", "archive"}

ServicesNext ==
    /\ UNCHANGED scene
    /\ \/ scene = "tournament" /\ Next /\ UNCHANGED evVars
       \/ scene = "archive" /\ EvNext /\ UNCHANGED vars

\* Neither service's fair actions are enabled before its first request.
ServicesSpec == ServicesInit /\ [][ServicesNext]_allVars /\ Fairness /\ EvFairness

(* Whatever refreshes race: a terminal tournament is no longer counted as  *)
(* in flight, is counted once and is completed only with its artifacts     *)
(* (detector_tournament.py), and a record is indexed once though recording *)
(* and synchronizing both register it (evidence archive).                  *)
RecordsAreConsistent == TournamentIsConsistent /\ IndexedOnce
=============================================================================
