\* Three workers against the rotating thread.
CONSTANTS
  Workers = {w1, w2, w3}
  Builds <- MCBuilds
  MaxPlaceholders = 2
SPECIFICATION Spec
INVARIANTS TypeOK OneRotationPerAnswer
PROPERTIES RequestsAnswered RotationsGoOnIfIdle
