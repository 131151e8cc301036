SPECIFICATION FairSpec
CONSTANTS
  PullLoop = PullLoop
  ProcessLoop = ProcessLoop
  Manual = {m1}
  Shards = 2
  BatchSize = 1
  Capacity = 1
INVARIANTS OneOfEach StoppedMeansQuiet EmptyMeansEmpty
PROPERTIES StopCompletes EveryStageGoesOn NoShardStarves
CHECK_DEADLOCK FALSE
