--------------------------- MODULE MCStationRegistry ---------------------------
(***************************************************************************)
(* StationRegistry on small instances.  LFPG and lfpg are two spellings of *)
(* one callsign: they share the key KLFPG.                                 *)
(***************************************************************************)
EXTENDS StationRegistryProperties, TLC

CONSTANTS N1, N2, LFPG, lfpg, EGLL, KLFPG, KEGLL

Upper == (LFPG :> KLFPG) @@ (lfpg :> KLFPG) @@ (EGLL :> KEGLL)

(* EGLL is shared; N1 has a second callsign of its own, in both spellings. *)
Mixed == (N1 :> {LFPG, lfpg, EGLL}) @@ (N2 :> {EGLL})

=============================================================================
