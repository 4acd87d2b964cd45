\* Three orders, more than the feed takes, and one alert at a time on the screen.
SPECIFICATION Spec
CONSTANTS
  Orders = {o1, o2, o3}
  Window = 2
  FeedLimit = 2
  MaxVisible = 1
  MaxPolls = 1
  MaxTime = 3
PROPERTIES
  AlertReachesScreen
  GoneLeavesScreen
