CONSTANT Req = {r1}
SPECIFICATION FairSpec
PROPERTY DatabaseDownRefuses
