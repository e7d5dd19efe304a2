-------------------------- MODULE MCScoringConfig --------------------------
EXTENDS ScoringConfig

\* networking and sponsor_engagement share a column.
Short == [weight |-> 1, dwell |-> 1]
Long == [weight |-> 2, dwell |-> 2]
SettingChoices == {Short, Long}
YamlFile == [a \in Activities |-> IF a = "coding" THEN Short ELSE Long]

BodyChoices ==
  {[a \in {"coding"} |-> Long], [a \in {"networking", "sponsor_engagement"} |-> Short]}
=============================================================================
