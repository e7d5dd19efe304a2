--------------------------- MODULE MCVenueZones ---------------------------
EXTENDS VenueZones, TLC

CONSTANTS left, bad, hall, stage, z1, z2, admin, other

\* The file has one zone; the other id is for zones created by hand.
YamlRows == z1 :> [name |-> hall, area |-> {left}]
AreaChoices == {{left}, {bad}}
=============================================================================
