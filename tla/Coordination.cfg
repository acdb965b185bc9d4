SPECIFICATION BothSpec
CONSTANTS
  Peer = {p, q, o}
  MaxTracked = 2
  desired_ratios <- Ratios
  Whole = 3
  thresholds <- Thresholds
  stimulus_gain = 1
  stability_window = 2
  heal_threshold = 2
  merge_window = 2
  NeighbourTimeout = 2
  Sender = {v, w}
  max_step_s = 2
  neighbour_timeout_s = 2
  MaxSkew = 2
INVARIANTS WindowFelt StaysAmong
PROPERTIES MergeCloses NoOverfill StampsSteady
