SPECIFICATION DrmSpec
CONSTANTS
    DrmThread = {t1, t2}
    DRM = {d1, d2}
    Nobody = Nobody
INVARIANT RefusedOnlyInDeadlock
