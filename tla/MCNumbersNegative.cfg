SPECIFICATION Spec
CONSTANT WordMax = 511
INVARIANT CodecRoundTrip
