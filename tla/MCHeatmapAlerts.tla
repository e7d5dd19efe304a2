-------------------------- MODULE MCHeatmapAlerts --------------------------
EXTENDS HeatmapAlerts

HallAndMentors == <<"hall", "mentors">>

\* The mentoring area has no capacity in its table and gets the default.
MentorsDefault == [z \in Places |-> IF Zones[z] = "mentors" THEN 0 ELSE 1]
HallTypes == [z \in Places |-> IF Zones[z] = "mentors" THEN "mentoring"
                               ELSE IF Zones[z] = "hall" THEN "coding" ELSE "other"]

ShortCooldowns ==
  [r \in {Rules[k] : k \in DOMAIN Rules} |-> IF r = "zone_capacity" THEN 2 ELSE 1]
=============================================================================
