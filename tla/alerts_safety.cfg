SPECIFICATION FairSpec
CONSTANTS
  Zones <- HallAndMentors
  Capacity <- MentorsDefault
  Default = 50
  Type <- HallTypes
  MaxCount = 1
  Cooldown <- ShortCooldowns
  Sustain = 1
  Budget = 1
INVARIANTS CooldownMeansTold ListedIsStored FirstZoneSustained
PROPERTIES FullZoneKeepsAlerting
