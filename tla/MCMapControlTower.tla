------------------------- MODULE MCMapControlTower -------------------------
(* Markers of two countries for the runs of MapControlTower. *)
EXTENDS MapControlTower

CONSTANTS m1, m2, de, nl

MCMarkers == {m1, m2}

MCCountries == {de, nl}

MCFlag == [m \in MCMarkers |-> IF m = m1 THEN de ELSE nl]

MCOneMarker == {m1}

MCOneFlag == [m \in MCOneMarker |-> de]
============================================================================
