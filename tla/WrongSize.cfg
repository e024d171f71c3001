\* Messages of any size, three descriptors.
CONSTANTS
  Sizes = {"short", "whole", "long"}
  MaxFds = 3
  QueueLen = 2
SPECIFICATION FairSpec
PROPERTY DropsMessageOnly
