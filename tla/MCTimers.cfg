\* Four sleepers; durations that collide, nest and follow one another.
CONSTANTS Timer = {t1, t2, t3, t4}
          Durations = {1, 2, 3}
SPECIFICATION Spec
INVARIANTS HeadNotExpired
PROPERTIES KeepsTimerSpec
