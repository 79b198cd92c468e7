CONSTANT Req = {r1}
SPECIFICATION FairSpec
INVARIANT NegotiatedOnceOk
PROPERTIES DockerDownRefuses UpServes
