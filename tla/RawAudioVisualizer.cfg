CONSTANTS
  BufferSize = 4
  PacketSizes = {2, 3, 6}
  Latencies <- EarlyOrLate
  NoMin = 9
  NoMax <- Lowest
  MaxPackets = 4
SPECIFICATION FairSpec
INVARIANT TypeOK
INVARIANT PictureUntorn
INVARIANT StatisticsExact
INVARIANT PictureCounted
PROPERTY NewestDrawn
CHECK_DEADLOCK FALSE
